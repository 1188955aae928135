------------------------------ MODULE MCActions ------------------------------
(* Actions for TLC.  Either three plain actions, from nothing; or one that *)
(* repeats, around the end of February of a leap year.                     *)
EXTENDS Actions, TLC

CONSTANTS a1, a2, a3, r1

MCIds == {a1, a2, a3, r1}
MCSymmetry == Permutations({a1, a2, a3})

EveryOther == [frequency |-> "daily", interval |-> 2]
Fortnightly == [frequency |-> "weekly", interval |-> 2, weekdays |-> {1, 4}]
OnThe31st  == [frequency |-> "monthly", interval |-> 1, dayOfMonth |-> 31]
OnThe30th  == [frequency |-> "monthly", interval |-> 12, dayOfMonth |-> 30]
LeapDay    == [frequency |-> "yearly", interval |-> 1, dayOfMonth |-> 29, month |-> 1]
MCRules    == {EveryOther, Fortnightly, OnThe31st, OnThe30th, LeapDay}

MCOffered  == {OnThe31st}

Gone == [Unborn EXCEPT !.status = "deleted"]

(* Day 57 is February 26, 2024; day 31 is January 31.                      *)
Anchors == {31, 50, 57}

MCInit ==
  /\ edges = {} /\ done = [i \in Ids |-> {}]
  /\ current = NoAction
  /\ \/ /\ today = MaxDay
        /\ acts = [i \in Ids |-> IF i = r1 THEN Gone ELSE Unborn]
     \/ /\ today \in StartDays
        /\ \E rule \in Rules, day \in Anchors :
             acts = [i \in Ids |->
                       IF i # r1 THEN Gone
                       ELSE [Unborn EXCEPT !.status = "open", !.created = day, !.rule = rule]]
MCSpec == MCInit /\ [][Next]_vars

(* The searches of this instance reach far enough for AsksForFirstOpen.    *)
ASSUME InstanceReaches == WithinReach
=============================================================================
