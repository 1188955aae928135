----------------------------- MODULE ActionsProofs -----------------------------
(* Proofs about Actions, for any actions, rules and days.                  *)
EXTENDS Actions, FiniteSetTheorems, WellFoundedInduction, TLAPS

-----------------------------------------------------------------------------
(* Lemmas: the day an action asks for.                                     *)

(* The first of a set of days is a day, or there is none.                  *)
LEMMA FirstOfType ==
  ASSUME NEW S, S \subseteq Days PROVE FirstOf(S) \in Days \cup {NoDay}
<1>1. CASE \E d \in S : \A e \in S : d <= e
  <2>1. (CHOOSE d \in S : \A e \in S : d <= e) \in S
    BY <1>1
  <2> QED BY <1>1, <2>1 DEF FirstOf
<1>2. CASE ~\E d \in S : \A e \in S : d <= e
  BY <1>2 DEF FirstOf
<1> QED BY <1>1, <1>2

(* A repeating action asks for a day or for none.                          *)
LEMMA OccurrenceType == ASSUME NEW i PROVE occurrenceFor(i) \in Days \cup {NoDay}
<1>1. ASSUME NEW r, NEW anchor, NEW from, NEW D
      PROVE  currentOccurrence(r, anchor, from, D) \in Days \cup {NoDay}
  <2>1. \E A : currentOccurrence(r, anchor, from, D) = FirstOf(A \cap Days)
    BY DEF currentOccurrence
  <2> QED BY <2>1, FirstOfType
<1> QED BY <1>1 DEF occurrenceFor

(* The days a user may name are days.                                      *)
LEMMA DaysForType == ASSUME NEW i PROVE DaysFor(i) \subseteq Days \cup {NoDay}
BY ActionsAssumption DEF DaysFor

-----------------------------------------------------------------------------
(* Types.                                                                  *)

(* A stored or gone record keeps its fields in range when one changes.     *)
LEMMA BumpType ==
  ASSUME TypeOK, NEW i \in Ids, NEW a \in Action, a.status # "unborn",
         bumpAction(i, a), i \notin Stored \/ a.status \in Statuses
  PROVE  /\ acts' \in [Ids -> Action]
         /\ Stored \subseteq Stored'
BY DEF TypeOK, bumpAction, Stored, Action, Statuses

LEMMA TypeStep == TypeOK /\ [Next]_vars => TypeOK'
<1> SUFFICES ASSUME TypeOK, [Next]_vars PROVE TypeOK'
  OBVIOUS
<1> USE ActionsAssumption
<1>a. \A i \in Ids : acts[i] \in Action
  BY DEF TypeOK
<1>f. \A i \in Ids : acts[i].until \in Days \cup {NoDay} /\ NoDay \in Days \cup {NoDay}
  BY <1>a DEF Action
(* A step that only moves one action, to a stored status.                  *)
<1>b. ASSUME NEW i \in Ids, NEW a \in Action, bumpAction(i, a), a.status \in Statuses,
             UNCHANGED <<today, edges, done>>, current' \in {current, i, NoAction}
      PROVE  TypeOK'
  <2>1. acts' \in [Ids -> Action] /\ Stored \subseteq Stored'
    BY <1>b, BumpType DEF Statuses
  <2>2. i \in Stored'
    BY <1>b DEF TypeOK, bumpAction, Stored, Statuses
  <2> QED BY <1>b, <2>1, <2>2 DEF TypeOK
<1>m. ASSUME NEW i \in Ids, NEW to \in Statuses
      PROVE  Moved(acts[i], to) \in Action /\ Moved(acts[i], to).status = to
  BY <1>a, <1>f, <1>m DEF Moved, shedUntil, Action, Statuses
<1>r. ASSUME NEW i \in Ids PROVE Restored(acts[i]) \in Action /\ Restored(acts[i]).status = "open"
  BY <1>a, <1>f DEF Restored, Action, Statuses
<1>s. ASSUME NEW i \in Ids, NEW to \in Statuses
      PROVE  /\ [acts[i] EXCEPT !.status = to] \in Action
             /\ [acts[i] EXCEPT !.status = to].status = to
  BY <1>a DEF Action, Statuses
<1>1. ASSUME NEW i \in Ids, createAction(i) PROVE TypeOK'
  <2> PICK z \in Skews, due \in DaysFor(i) :
        /\ today + z \in Days
        /\ bumpAction(i, [Unborn EXCEPT !.status = "open", !.due = due, !.created = today + z])
    BY <1>1 DEF createAction
  <2> DEFINE a == [Unborn EXCEPT !.status = "open", !.due = due, !.created = today + z]
  <2>1. a \in Action /\ a.status \in Statuses
    <3>1. due \in Days \cup {NoDay}
      BY DaysForType
    <3>2. Unborn \in Action
      BY DEF Unborn, Action, Days, NoDay
    <3> QED BY <3>1, <3>2 DEF Action, Statuses
  <2> HIDE DEF a
  <2> QED BY <1>1, <1>b, <2>1 DEF createAction, a
<1>2. ASSUME NEW i \in Ids, startAction(i) PROVE TypeOK'
  BY <1>2, <1>b, <1>m DEF startAction, Statuses
<1>3. ASSUME NEW i \in Ids, pauseAction(i) PROVE TypeOK'
  BY <1>3, <1>b, <1>m DEF pauseAction, Statuses
<1>4. ASSUME NEW i \in Ids, completeAction(i) PROVE TypeOK'
  BY <1>4, <1>b, <1>m DEF completeAction, Detached, Statuses
<1>5. ASSUME NEW i \in Ids, markActionWaiting(i) PROVE TypeOK'
  BY <1>5, <1>b, <1>s DEF markActionWaiting, Statuses
<1>6. ASSUME NEW i \in Ids, stopWaiting(i) PROVE TypeOK'
  BY <1>6, <1>b, <1>s DEF stopWaiting, Statuses
<1>7. ASSUME NEW i \in Ids, deferAction(i) PROVE TypeOK'
  <2> PICK day \in DaysFor(i) :
        bumpAction(i, [acts[i] EXCEPT !.status = "deferred", !.until = day])
    BY <1>7 DEF deferAction
  <2> DEFINE a == [acts[i] EXCEPT !.status = "deferred", !.until = day]
  <2>1. a \in Action /\ a.status \in Statuses
    <3>1. day \in Days \cup {NoDay}
      BY DaysForType
    <3> QED BY <1>a, <3>1 DEF Action, Statuses
  <2> HIDE DEF a
  <2> QED BY <1>7, <1>b, <2>1 DEF deferAction, a
<1>8. ASSUME NEW i \in Ids, cancelAction(i) PROVE TypeOK'
  BY <1>8, <1>b, <1>m DEF cancelAction, Statuses
<1>9. ASSUME NEW i \in Ids, reopenAction(i) PROVE TypeOK'
  BY <1>9, <1>b, <1>s DEF reopenAction, Statuses
<1>10. ASSUME NEW i \in Ids, restoreAction(i) PROVE TypeOK'
  BY <1>10, <1>b, <1>r DEF restoreAction, Statuses
<1>11. ASSUME NEW i \in Ids, setActionDueDate(i) PROVE TypeOK'
  <2> DEFINE d(day) == [acts[i] EXCEPT !.due = day]
             a(day) == IF day # NoDay /\ d(day).status = "deferred"
                       THEN Moved(d(day), "open") ELSE d(day)
  <2> PICK day \in DaysFor(i) : bumpAction(i, a(day))
    BY <1>11 DEF setActionDueDate
  <2>1. day \in Days \cup {NoDay}
    BY DaysForType
  <2>2. acts[i].status \in Statuses
    BY <1>11 DEF setActionDueDate, Stored
  <2>3. d(day) \in Action /\ d(day).status \in Statuses
    BY <1>a, <2>1, <2>2 DEF Action
  <2>4. Moved(d(day), "open") \in Action /\ Moved(d(day), "open").status = "open"
    BY <1>a, <2>1 DEF Moved, shedUntil, Action, Statuses
  <2>5. a(day) \in Action /\ a(day).status \in Statuses
    BY <2>3, <2>4 DEF Statuses
  <2> HIDE DEF a
  <2> QED BY <1>11, <1>b, <2>5 DEF setActionDueDate
<1>12. ASSUME NEW i \in Ids, deleteAction(i) PROVE TypeOK'
  <2> DEFINE a == [Unborn EXCEPT !.status = "deleted"]
  <2>1. a \in Action /\ a.status \notin Statuses
    <3>1. a = [status |-> "deleted", until |-> NoDay, due |-> NoDay, created |-> 1,
               rule |-> NoRule]
      BY DEF Unborn
    <3> QED BY <3>1 DEF Action, Statuses, Days, NoDay
  <2> HIDE DEF a
  <2>2. acts' = [acts EXCEPT ![i] = a]
    BY <1>12 DEF deleteAction, bumpAction, a
  <2>3. acts' \in [Ids -> Action] /\ Stored' = Stored \ {i}
    BY <2>1, <2>2 DEF TypeOK, Stored
  <2>4. edges' \subseteq Stored' \X Stored'
    BY <1>12, <2>3 DEF deleteAction, pruneDependencies, TypeOK
  <2>5. done' \in [Ids -> SUBSET Days] /\ \A j \in Ids : done'[j] # {} => j \in Stored'
    BY <1>12, <2>3 DEF deleteAction, TypeOK
  <2>6. current' \in Stored' \cup {NoAction}
    BY <1>12, <2>3 DEF deleteAction, Detached, TypeOK
  <2> QED BY <1>12, <2>3, <2>4, <2>5, <2>6 DEF deleteAction, TypeOK
<1>13. ASSUME NEW i \in Ids, NEW j \in Ids,
              addActionDependency(i, j) \/ removeActionDependency(i, j)
       PROVE  TypeOK'
  BY <1>13 DEF addActionDependency, removeActionDependency, TypeOK, Stored
<1>14. ASSUME NEW i \in Repeating, setActionRecurrence(i) PROVE TypeOK'
  <2> i \in Ids
    OBVIOUS
  <2> PICK r \in Offered : bumpAction(i, [acts[i] EXCEPT !.rule = r])
    BY <1>14 DEF setActionRecurrence
  <2> DEFINE a == [acts[i] EXCEPT !.rule = r]
  <2>1. acts[i].status \in Statuses
    BY <1>14 DEF setActionRecurrence, Alive, Live, Statuses
  <2>2. a \in Action /\ a.status \in Statuses
    BY <1>a, <2>1 DEF Action
  <2> HIDE DEF a
  <2> QED BY <1>14, <1>b, <2>2 DEF setActionRecurrence, a
<1>15. ASSUME NEW i \in Repeating, completeOccurrence(i) PROVE TypeOK'
  <2> i \in Ids
    OBVIOUS
  <2> PICK day \in (DaysFor(i) \cup {today, occurrenceFor(i)}) \ (done[i] \cup {NoDay}) :
        done' = [done EXCEPT ![i] = @ \cup {day}]
    BY <1>15 DEF completeOccurrence
  <2>1. day \in Days
    BY DaysForType, OccurrenceType DEF TypeOK
  <2>2. i \in Stored /\ Stored' = Stored
    BY <1>15 DEF completeOccurrence, Stored, Alive, Live, Statuses
  <2>3. done' \in [Ids -> SUBSET Days] /\ \A j \in Ids : done'[j] # {} => j \in Stored'
    BY <2>1, <2>2 DEF TypeOK
  <2> QED BY <1>15, <2>2, <2>3 DEF completeOccurrence, TypeOK
<1>16. ASSUME NEW i \in Repeating, uncompleteOccurrence(i) PROVE TypeOK'
  <2> i \in Ids
    OBVIOUS
  <2> PICK day \in done[i] : done' = [done EXCEPT ![i] = @ \ {day}]
    BY <1>16 DEF uncompleteOccurrence
  <2>1. Stored' = Stored
    BY <1>16 DEF uncompleteOccurrence, Stored
  <2>2. done' \in [Ids -> SUBSET Days] /\ \A j \in Ids : done'[j] # {} => j \in Stored'
    BY <2>1 DEF TypeOK
  <2> QED BY <1>16, <2>1, <2>2 DEF uncompleteOccurrence, TypeOK
<1>17. ASSUME NEW i \in Repeating, stopActionRecurrence(i) PROVE TypeOK'
  <2> i \in Ids
    OBVIOUS
  <2> DEFINE a == [acts[i] EXCEPT !.rule = NoRule, !.due = occurrenceFor(i)]
  <2>1. acts[i].status \in Statuses
    BY <1>17 DEF stopActionRecurrence, Stored
  <2>2. occurrenceFor(i) \in Days \cup {NoDay}
    BY OccurrenceType
  <2>3. a \in Action /\ a.status \in Statuses
    BY <1>a, <2>1, <2>2 DEF Action
  <2> HIDE DEF a
  <2> QED BY <1>17, <1>b, <2>3 DEF stopActionRecurrence, a
(* Several move at once.                                                   *)
<1>c. ASSUME acts' \in [Ids -> Action], Stored' = Stored, UNCHANGED <<today, edges, done, current>>
      PROVE  TypeOK'
  BY <1>c DEF TypeOK
<1>18. ASSUME NEW S \in SUBSET Stored, NEW op \in {"mark_waiting", "complete", "cancel", "restore"},
              batchAction(S, op)
       PROVE  TypeOK'
  <2> DEFINE to(i) == CASE op = "mark_waiting" -> [acts[i] EXCEPT !.status = "waiting"]
                        [] op = "complete"     -> [acts[i] EXCEPT !.status = "completed"]
                        [] op = "cancel"       -> [acts[i] EXCEPT !.status = "cancelled"]
                        [] op = "restore"      -> Restored(acts[i])
  <2>1. ASSUME NEW i \in Ids PROVE to(i) \in Action /\ to(i).status \in Statuses
    <3>1. CASE op = "mark_waiting"
      BY <3>1, <1>s DEF Statuses
    <3>2. CASE op = "complete"
      BY <3>2, <1>s DEF Statuses
    <3>3. CASE op = "cancel"
      BY <3>3, <1>s DEF Statuses
    <3>4. CASE op = "restore"
      BY <3>4, <1>r DEF Statuses
    <3> QED BY <3>1, <3>2, <3>3, <3>4
  <2> HIDE DEF to
  <2>2. acts' = [i \in Ids |-> IF i \notin S THEN acts[i] ELSE to(i)]
    BY <1>18 DEF batchAction, to
  <2>3. acts' \in [Ids -> Action] /\ Stored' = Stored
    BY <1>a, <2>1, <2>2 DEF Stored
  <2> QED BY <1>18, <1>c, <2>3 DEF batchAction
<1>19. CASE LeaveSession
  BY <1>19 DEF LeaveSession, TypeOK, Stored
<1>20. CASE returnDueActions
  <2>1. acts' \in [Ids -> Action] /\ Stored' = Stored
    BY <1>20, <1>a, <1>r DEF returnDueActions, Stored, isDue, Statuses
  <2> QED BY <1>20, <1>c, <2>1 DEF returnDueActions
<1>21. CASE NextDay
  BY <1>21 DEF NextDay, TypeOK, Stored, Days, NoDay
<1>22. CASE UNCHANGED vars
  BY <1>22 DEF vars, TypeOK, Stored
<1> QED
  BY <1>1, <1>2, <1>3, <1>4, <1>5, <1>6, <1>7, <1>8, <1>9, <1>10, <1>11, <1>12, <1>13, <1>14,
     <1>15, <1>16, <1>17, <1>18, <1>19, <1>20, <1>21, <1>22 DEF Next

(* Every record stays whole, and nothing names an action that is gone:     *)
(* deleting one takes its edges, its completions and the session's pointer *)
(* with it, in every interleaving with batches, days and sessions.         *)
THEOREM TypeCorrect == Spec => []TypeOK
<1>1. Init => TypeOK
  <2> SUFFICES ASSUME Init PROVE TypeOK
    OBVIOUS
  <2>1. Unborn \in Action
    BY DEF Unborn, Action, Days, NoDay
  <2>2. acts \in [Ids -> Action]
    BY <2>1 DEF Init
  <2> QED BY <2>2, ActionsAssumption DEF Init, TypeOK
<1> QED BY <1>1, TypeStep, PTL DEF Spec

-----------------------------------------------------------------------------
(* Rings.                                                                  *)

(* The edges stay without a ring: those removed make none, and one that is *)
(* added from blocker to blocked leaves out a set T that holds blocked, is *)
(* closed under the edges and does not hold blocker.  In any set, the part *)
(* outside T has a member without a blocker in it, and the new edge leads  *)
(* into T; and if nothing is outside T, the new edge starts outside.       *)
LEMMA AcyclicStep == TypeOK /\ Acyclic /\ [Next]_vars => Acyclic'
<1> SUFFICES ASSUME TypeOK, Acyclic, [Next]_vars PROVE Acyclic'
  OBVIOUS
<1>1. ASSUME edges' \subseteq edges PROVE Acyclic'
  BY <1>1 DEF Acyclic
<1>2. ASSUME NEW blocker \in Ids, NEW blocked \in Ids, addActionDependency(blocker, blocked)
      PROVE  Acyclic'
  <2>1. PICK T \in SUBSET Ids : blocked \in T /\ Closed(T) /\ blocker \notin T
    BY <1>2 DEF addActionDependency, wouldCreateCycle
  <2>2. edges' = edges \cup {<<blocker, blocked>>}
    BY <1>2 DEF addActionDependency
  <2> SUFFICES ASSUME NEW S \in (SUBSET Ids) \ {{}}
               PROVE  \E i \in S : \A e \in edges' : e[2] = i => e[1] \notin S
    BY DEF Acyclic
  <2>3. CASE S \subseteq T
    <3>1. PICK i \in S : \A e \in edges : e[2] = i => e[1] \notin S
      BY DEF Acyclic
    <3> QED BY <2>1, <2>2, <2>3, <3>1
  <2>4. CASE ~(S \subseteq T)
    <3>1. S \ T \in (SUBSET Ids) \ {{}}
      BY <2>4
    <3>2. PICK i \in S \ T : \A e \in edges : e[2] = i => e[1] \notin S \ T
      BY <3>1 DEF Acyclic
    <3>3. \A e \in edges : e[2] = i => e[1] \notin S
      BY <2>1, <3>2 DEF Closed
    <3> QED BY <2>1, <2>2, <3>2, <3>3
  <2> QED BY <2>3, <2>4
<1>3. ASSUME NEW i \in Ids, deleteAction(i) PROVE Acyclic'
  BY <1>3, <1>1 DEF deleteAction, pruneDependencies
<1>4. ASSUME NEW i, NEW j, removeActionDependency(i, j) PROVE Acyclic'
  BY <1>4, <1>1 DEF removeActionDependency
<1> QED
  BY <1>1, <1>2, <1>3, <1>4 DEF Next, vars, createAction, startAction, pauseAction,
     completeAction, markActionWaiting, stopWaiting, deferAction, cancelAction, reopenAction,
     restoreAction, setActionDueDate, setActionRecurrence, completeOccurrence,
     uncompleteOccurrence, stopActionRecurrence, batchAction, LeaveSession, returnDueActions,
     NextDay

(* No operation of the store, in any order, makes actions wait on each     *)
(* other in a ring.                                                        *)
THEOREM AcyclicCorrect == Spec => []Acyclic
<1>1. Init => Acyclic
  BY DEF Init, Acyclic
<1> QED BY <1>1, AcyclicStep, TypeCorrect, PTL DEF Spec

(* Among unfinished actions that include whatever blocks them, one is      *)
(* free: the Next list never runs dry while there is work in it.           *)
THEOREM NextCorrect == Spec => []NextNeverStarves
<1>1. Acyclic => NextNeverStarves
  <2> SUFFICES ASSUME Acyclic, NEW S \in (SUBSET Alive) \ {{}},
                      \A e \in edges : e[2] \in S /\ e[1] \in Alive => e[1] \in S
               PROVE  \E i \in S : ~isBlocked(i)
    BY DEF NextNeverStarves
  <2>1. PICK i \in S : \A e \in edges : e[2] = i => e[1] \notin S
    BY DEF Acyclic, Alive
  <2> QED BY <2>1 DEF isBlocked
<1> QED BY <1>1, AcyclicCorrect, PTL

-----------------------------------------------------------------------------
(* Natural numbers: induction, recursion and division.                   *)

(* A set of natural numbers that has any has a least.                    *)
LEMMA LeastNatural ==
  ASSUME NEW S, S \subseteq Nat, NEW n \in S
  PROVE  \E m \in S : \A k \in S : m <= k
  <1>1. PICK m \in S : \A k \in S : ~(<<k, m>> \in OpToRel(<, Nat))
    BY NatLessThanWellFounded, WFMin
  <1>2. \A k \in S : ~(k < m)
    BY <1>1, Zenon DEF OpToRel
  <1>3. \A k \in S : m <= k
    <2>1. \A k \in S : k \in Nat
      OBVIOUS
    <2>. QED BY <1>2, <2>1, SMT
  <1>. QED  BY <1>3

(* Induction, for a set in place of a predicate: one that has 0, and the *)
(* successor of whatever it has, has every natural number.               *)
LEMMA Induction ==
  ASSUME NEW S, 0 \in S, \A n \in Nat : n \in S => n + 1 \in S
  PROVE  Nat \subseteq S
  <1>. SUFFICES ASSUME NEW n \in Nat, n \notin S PROVE FALSE
    OBVIOUS
  <1>. DEFINE T == {k \in Nat : k \notin S}
  <1>1. PICK m \in T : \A k \in T : m <= k
    <2>1. T \subseteq Nat /\ n \in T
      OBVIOUS
    <2>. HIDE DEF T
    <2>. QED  BY <2>1, LeastNatural
  <1>2. m \in Nat /\ m # 0 /\ m - 1 \notin T
    BY <1>1
  <1>3. m - 1 \in Nat /\ m - 1 \in S /\ m = (m - 1) + 1
    BY <1>2
  <1>. QED  BY <1>1, <1>3

(* The first n values of a sequence that starts at c and goes on by g.   *)
IsBegun(h, c, g, n) ==
  h \in [0..n -> Nat] /\ h[0] = c /\ \A m \in 0..(n - 1) : h[m + 1] = g[m][h[m]]

(* Any number of first values there is.                                  *)
LEMMA BegunExists ==
  ASSUME NEW c \in Nat, NEW g \in [Nat -> [Nat -> Nat]], NEW n \in Nat
  PROVE  \E h : IsBegun(h, c, g, n)
  <1>. DEFINE S == {k \in Nat : \E h : IsBegun(h, c, g, k)}
  <1>1. 0 \in S
    <2>1. IsBegun([m \in 0..0 |-> c], c, g, 0)
      BY DEF IsBegun
    <2>. QED  BY <2>1
  <1>2. ASSUME NEW k \in Nat, k \in S PROVE k + 1 \in S
    <2>1. PICK h : IsBegun(h, c, g, k)
      BY <1>2
    <2>2. /\ h \in [0..k -> Nat] /\ h[0] = c
          /\ \A m \in 0..(k - 1) : h[m + 1] = g[m][h[m]]
      BY <2>1 DEF IsBegun
    <2>3. k \in 0..k /\ h[k] \in Nat /\ g[k][h[k]] \in Nat
      BY <2>2
    <2>. DEFINE v == g[k][h[k]]
    <2>. HIDE DEF v
    <2>. DEFINE e == [m \in 0..(k + 1) |-> IF m <= k THEN h[m] ELSE v]
    <2>4. /\ \A m \in 0..k : e[m] = h[m]
          /\ e[k + 1] = g[k][h[k]]
          /\ e \in [0..(k + 1) -> Nat]
      <3>1. v \in Nat /\ v = g[k][h[k]]
        BY <2>3 DEF v
      <3>2. \A m \in 0..(k + 1) : m \in 0..k <=> m <= k
        OBVIOUS
      <3>3. \A m \in 0..k : e[m] = h[m]
        OBVIOUS
      <3>4. e[k + 1] = v
        OBVIOUS
      <3>5. \A m \in 0..(k + 1) : (IF m <= k THEN h[m] ELSE v) \in Nat
        BY <2>2, <3>1, <3>2
      <3>. QED  BY <3>1, <3>3, <3>4, <3>5
    <2>. HIDE DEF e
    <2>5. e[0] = c
      BY <2>2, <2>4
    <2>6. ASSUME NEW m \in 0..((k + 1) - 1) PROVE e[m + 1] = g[m][e[m]]
      <3>1. CASE m = k
        BY <2>3, <2>4, <3>1
      <3>2. CASE m # k
        <4>1. m \in 0..k /\ m + 1 \in 0..k /\ m \in 0..(k - 1)
          BY <3>2
        <4>. QED  BY <2>2, <2>4, <4>1
      <3>. QED  BY <3>1, <3>2
    <2>7. IsBegun(e, c, g, k + 1)
      BY <2>4, <2>5, <2>6 DEF IsBegun
    <2>8. k + 1 \in Nat
      OBVIOUS
    <2>. QED  BY <2>7, <2>8
  <1>3. Nat \subseteq S
    <2>. HIDE DEF S
    <2>. QED  BY <1>1, <1>2, Induction
  <1>. QED  BY <1>3

(* Longer and shorter beginnings agree.                                  *)
LEMMA BegunAgree ==
  ASSUME NEW c, NEW g, NEW n \in Nat, NEW p, NEW q, IsBegun(p, c, g, n), IsBegun(q, c, g, n + 1)
  PROVE  p[n] = q[n]
  <1>. DEFINE U == {m \in Nat : m \in 0..n => p[m] = q[m]}
  <1>1. /\ p[0] = c /\ \A m \in 0..(n - 1) : p[m + 1] = g[m][p[m]]
        /\ q[0] = c /\ \A m \in 0..n : q[m + 1] = g[m][q[m]]
    BY DEF IsBegun
  <1>2. 0 \in U
    BY <1>1
  <1>3. ASSUME NEW m \in Nat, m \in U PROVE m + 1 \in U
    <2>1. CASE m + 1 \in 0..n
      <3>1. m \in 0..n /\ m \in 0..(n - 1)
        BY <2>1
      <3>. QED  BY <1>1, <1>3, <3>1
    <2>. QED  BY <2>1
  <1>4. Nat \subseteq U
    <2>. HIDE DEF U
    <2>. QED  BY <1>2, <1>3, Induction
  <1>. QED  BY <1>4

(* A first value, and a step from each value to the next, make a         *)
(* sequence: what the recursive functions of the calendar and of the     *)
(* walk rest on.                                                         *)
LEMMA RecursionExists ==
  ASSUME NEW c \in Nat, NEW g \in [Nat -> [Nat -> Nat]]
  PROVE  \E f \in [Nat -> Nat] : f[0] = c /\ \A n \in Nat : f[n + 1] = g[n][f[n]]
  <1>. DEFINE begun(n) == CHOOSE h : IsBegun(h, c, g, n)
              f == [n \in Nat |-> begun(n)[n]]
  <1>1. \A n \in Nat : IsBegun(begun(n), c, g, n)
    BY BegunExists
  <1>2. \A n \in Nat : f[n] = begun(n)[n]
    OBVIOUS
  <1>. HIDE DEF begun
  <1>3. f \in [Nat -> Nat]
    <2>1. \A n \in Nat : begun(n)[n] \in Nat
      BY <1>1 DEF IsBegun
    <2>. QED  BY <2>1
  <1>. HIDE DEF f
  <1>4. f[0] = c
    BY <1>1, <1>2 DEF IsBegun
  <1>5. ASSUME NEW n \in Nat PROVE f[n + 1] = g[n][f[n]]
    <2>1. n + 1 \in Nat /\ n \in 0..((n + 1) - 1)
      OBVIOUS
    <2>2. begun(n)[n] = begun(n + 1)[n]
      BY <1>1, <2>1, BegunAgree
    <2>3. begun(n + 1)[n + 1] = g[n][begun(n + 1)[n]]
      BY <1>1, <2>1 DEF IsBegun
    <2>. QED  BY <1>2, <2>1, <2>2, <2>3
  <1>. QED  BY <1>3, <1>4, <1>5

(* What is divided is the quotient times the divisor, and a remainder.   *)
LEMMA Division ==
  ASSUME NEW a \in Int, NEW b \in Nat \ {0}
  PROVE  /\ a \div b \in Int /\ a % b \in 0..(b - 1)
         /\ a = b * (a \div b) + (a % b)
  OBVIOUS

(* A multiple leaves no remainder.                                       *)
LEMMA Product ==
  ASSUME NEW q \in Int, NEW b \in Nat \ {0}
  PROVE  (q * b) % b = 0 /\ (q * b) \div b = q
  OBVIOUS

(* A multiple that is larger is larger by the number or more.            *)
LEMMA MultiplesApart ==
  ASSUME NEW p \in Int, NEW q \in Int, NEW b \in Nat \ {0}, p * b < q * b
  PROVE  p * b + b <= q * b
  OBVIOUS

(* Rounding up gives the first multiple that is not below.               *)
LEMMA CeilIs ==
  ASSUME NEW a \in Int, NEW b \in Nat \ {0}
  PROVE  /\ Ceil(a, b) \in Int
         /\ a <= Ceil(a, b) * b /\ Ceil(a, b) * b < a + b
  <1>. DEFINE c == -a
              q == c \div b
  <1>1. c \in Int /\ Ceil(a, b) = -q
    BY DEF Ceil
  <1>. HIDE DEF c
  <1>2. q \in Int /\ c % b \in 0..(b - 1) /\ c = b * q + (c % b)
    BY <1>1, Division
  <1>. HIDE DEF q
  <1>3. b * q <= c /\ c < b * q + b /\ (-q) * b = -(b * q) /\ b * q \in Int
    BY <1>1, <1>2
  <1>4. a = -c
    BY DEF c
  <1>. QED  BY <1>1, <1>2, <1>3, <1>4

-----------------------------------------------------------------------------
(* The calendar.                                                         *)

(* A month has 28 to 31 days.                                            *)
LEMMA DaysInMonth == ASSUME NEW k \in Nat PROVE daysInMonth(k) \in 28..31
  BY DEF daysInMonth

(* The first days of the months follow each other by the lengths of the  *)
(* months.                                                               *)
LEMMA FirstDays ==
  /\ FirstDay \in [0..Months -> Nat] /\ FirstDay[0] = 1
  /\ \A k \in 0..(Months - 1) : FirstDay[k + 1] = FirstDay[k] + daysInMonth(k)
  <1>. DEFINE is(f) == f = [k \in 0..Months |-> IF k = 0 THEN 1 ELSE f[k - 1] + daysInMonth(k - 1)]
              first == CHOOSE f : is(f)
              g == [n \in Nat |-> [x \in Nat |-> x + daysInMonth(n)]]
  <1>0. Months \in Nat \ {0}
    BY CalendarAssumption
  <1>1. PICK f \in [Nat -> Nat] : f[0] = 1 /\ \A n \in Nat : f[n + 1] = f[n] + daysInMonth(n)
    <2>1. \A n \in Nat, x \in Nat : x + daysInMonth(n) \in Nat
      BY DaysInMonth
    <2>2. g \in [Nat -> [Nat -> Nat]]
      BY <2>1
    <2>3. \A n \in Nat, x \in Nat : g[n][x] = x + daysInMonth(n)
      OBVIOUS
    <2>. HIDE DEF g
    <2>4. \A c \in Nat : \E f \in [Nat -> Nat] : f[0] = c /\ \A n \in Nat : f[n + 1] = g[n][f[n]]
      BY <2>2, RecursionExists
    <2>5. PICK f \in [Nat -> Nat] : f[0] = 1 /\ \A n \in Nat : f[n + 1] = g[n][f[n]]
      BY <2>4
    <2>. QED  BY <2>3, <2>5
  <1>2. is([k \in 0..Months |-> f[k]])
    <2>1. \A k \in 0..Months : f[k] = IF k = 0 THEN 1 ELSE f[k - 1] + daysInMonth(k - 1)
      <3>. SUFFICES ASSUME NEW k \in 0..Months, k # 0 PROVE f[k] = f[k - 1] + daysInMonth(k - 1)
        BY <1>1
      <3>1. k - 1 \in Nat /\ (k - 1) + 1 = k
        BY <1>0
      <3>. QED  BY <1>1, <3>1
    <2>2. \A k \in 0..Months : k # 0 => k - 1 \in 0..Months
      BY <1>0
    <2>. QED  BY <2>1, <2>2
  <1>3. is(first)
    BY <1>2
  <1>4. FirstDay = [k \in 0..Months |-> first[k]]
    BY DEF FirstDay
  <1>. HIDE DEF first
  <1>5. FirstDay = first
    BY <1>3, <1>4
  <1>6. \A k \in 0..Months :
          FirstDay[k] = IF k = 0 THEN 1 ELSE FirstDay[k - 1] + daysInMonth(k - 1)
    BY <1>3, <1>5
  <1>7. FirstDay[0] = 1 /\ \A k \in 0..(Months - 1) : FirstDay[k + 1] = FirstDay[k] + daysInMonth(k)
    <2>1. FirstDay[0] = 1
      BY <1>0, <1>6
    <2>2. ASSUME NEW k \in 0..(Months - 1) PROVE FirstDay[k + 1] = FirstDay[k] + daysInMonth(k)
      <3>1. k + 1 \in 0..Months /\ k + 1 # 0 /\ (k + 1) - 1 = k
        BY <1>0
      <3>. QED  BY <1>6, <3>1
    <2>. QED  BY <2>1, <2>2
  <1>8. ASSUME NEW k \in 0..Months PROVE FirstDay[k] \in Nat
    <2>. DEFINE S == {n \in Nat : n <= Months => FirstDay[n] \in Nat}
    <2>1. 0 \in S
      BY <1>7
    <2>2. ASSUME NEW n \in Nat, n \in S PROVE n + 1 \in S
      BY <1>0, <1>7, <2>2, DaysInMonth
    <2>3. Nat \subseteq S
      <3>. HIDE DEF S
      <3>. QED  BY <2>1, <2>2, Induction
    <2>. QED  BY <2>3
  <1>. QED  BY <1>4, <1>7, <1>8

(* A later month begins when an earlier one has ended.                   *)
LEMMA LaterMonth ==
  ASSUME NEW k \in 0..Months, NEW l \in 0..Months, k < l
  PROVE  FirstDay[k] + daysInMonth(k) <= FirstDay[l]
  <1>0. Months \in Nat
    BY CalendarAssumption
  <1>. DEFINE S == {j \in Nat : k + 1 + j <= Months => FirstDay[k + 1] <= FirstDay[k + 1 + j]}
  <1>1. 0 \in S
    BY <1>0, FirstDays
  <1>2. ASSUME NEW j \in Nat, j \in S PROVE j + 1 \in S
    <2>. SUFFICES ASSUME k + 1 + (j + 1) <= Months
                  PROVE  FirstDay[k + 1] <= FirstDay[k + 1 + (j + 1)]
      OBVIOUS
    <2>1. k + 1 + j \in 0..(Months - 1) /\ k + 1 + (j + 1) = (k + 1 + j) + 1 /\ k + 1 \in 0..Months
      BY <1>0
    <2>. DEFINE m == k + 1 + j
    <2>2. FirstDay[m + 1] = FirstDay[m] + daysInMonth(m) /\ daysInMonth(m) \in 28..31
      BY <2>1, FirstDays, DaysInMonth
    <2>3. FirstDay[k + 1] <= FirstDay[m]
      BY <1>0, <1>2, <2>1
    <2>4. FirstDay[k + 1] \in Nat /\ FirstDay[m] \in Nat
      BY <1>0, <2>1, FirstDays
    <2>. HIDE DEF m
    <2>. QED
      <3>1. FirstDay[k + 1] <= FirstDay[m + 1]
        BY <2>2, <2>3, <2>4
      <3>2. k + 1 + (j + 1) = m + 1
        BY <2>1 DEF m
      <3>. QED  BY <3>1, <3>2
  <1>3. Nat \subseteq S
    <2>. HIDE DEF S
    <2>. QED  BY <1>1, <1>2, Induction
  <1>4. l - (k + 1) \in Nat /\ k + 1 + (l - (k + 1)) = l /\ k \in 0..(Months - 1)
    BY <1>0
  <1>5. l - (k + 1) \in S
    BY <1>3, <1>4
  <1>6. FirstDay[k + 1] <= FirstDay[l]
    BY <1>0, <1>4, <1>5
  <1>. QED  BY <1>4, <1>6, FirstDays

(* Months are no shorter than 28 days.                                   *)
LEMMA MonthsAreLong ==
  ASSUME NEW k \in 0..Months, NEW l \in 0..Months, k < l
  PROVE  FirstDay[k + 1] + 28 * (l - k - 1) <= FirstDay[l]
  <1>0. Months \in Nat
    BY CalendarAssumption
  <1>. DEFINE S == {j \in Nat : k + 1 + j <= Months =>
                                  FirstDay[k + 1] + 28 * j <= FirstDay[k + 1 + j]}
  <1>1. 0 \in S
    BY <1>0, FirstDays
  <1>2. ASSUME NEW j \in Nat, j \in S PROVE j + 1 \in S
    <2>. SUFFICES ASSUME k + 1 + (j + 1) <= Months
                  PROVE  FirstDay[k + 1] + 28 * (j + 1) <= FirstDay[k + 1 + (j + 1)]
      OBVIOUS
    <2>. DEFINE m == k + 1 + j
    <2>1. m \in 0..(Months - 1) /\ m + 1 = k + 1 + (j + 1) /\ m \in Nat /\ k + 1 \in 0..Months
      BY <1>0
    <2>2. FirstDay[k + 1] + 28 * j <= FirstDay[m]
      <3>1. k + 1 + j <= Months
        BY <1>0, <2>1
      <3>. QED  BY <1>2, <3>1
    <2>. HIDE DEF m
    <2>3. FirstDay[m + 1] = FirstDay[m] + daysInMonth(m) /\ daysInMonth(m) >= 28
      BY <2>1, FirstDays, DaysInMonth
    <2>4. FirstDay[m] \in Nat /\ FirstDay[k + 1] \in Nat /\ daysInMonth(m) \in Nat
      <3>1. m \in 0..Months
        BY <1>0, <2>1
      <3>2. FirstDay[m] \in Nat /\ FirstDay[k + 1] \in Nat
        BY <2>1, <3>1, FirstDays
      <3>3. daysInMonth(m) \in 28..31
        BY <2>1, DaysInMonth
      <3>. QED  BY <3>2, <3>3
    <2>5. FirstDay[k + 1] + 28 * (j + 1) <= FirstDay[m + 1]
      BY <2>2, <2>3, <2>4
    <2>. QED  BY <2>1, <2>5
  <1>3. Nat \subseteq S
    <2>. HIDE DEF S
    <2>. QED  BY <1>1, <1>2, Induction
  <1>4. l - k - 1 \in Nat /\ k + 1 + (l - k - 1) = l /\ l <= Months
    BY <1>0
  <1>5. l - k - 1 \in S
    BY <1>3, <1>4
  <1>. QED  BY <1>4, <1>5

(* Every day of the calendar is in the month whose first day is the last *)
(* to have come.                                                         *)
LEMMA MonthIs ==
  ASSUME NEW d \in 1..LastDay
  PROVE  /\ Month[d] \in 0..(Months - 1)
         /\ FirstDay[Month[d]] <= d /\ d < FirstDay[Month[d] + 1]
  <1>0. Months \in Nat \ {0} /\ FirstDay[Months] \in Nat /\ LastDay = FirstDay[Months] - 1
    BY CalendarAssumption, FirstDays DEF LastDay
  <1>. DEFINE T == {k \in 0..Months : d < FirstDay[k]}
  <1>1. PICK k \in T : \A l \in T : k <= l
    <2>1. T \subseteq Nat /\ Months \in T
      BY <1>0
    <2>. HIDE DEF T
    <2>. QED  BY <2>1, LeastNatural
  <1>2. k \in 0..Months /\ k # 0 /\ d < FirstDay[k]
    BY <1>0, <1>1, FirstDays
  <1>3. k - 1 \in 0..(Months - 1) /\ k - 1 \notin T
    BY <1>0, <1>1, <1>2
  <1>4. FirstDay[k - 1] <= d
    BY <1>0, <1>3, FirstDays
  <1>5. \E m \in 0..(Months - 1) : FirstDay[m] <= d /\ d < FirstDay[m + 1]
    <2>1. (k - 1) + 1 = k
      BY <1>2
    <2>. QED  BY <1>2, <1>3, <1>4, <2>1
  <1>6. Month[d] = CHOOSE m \in 0..(Months - 1) : FirstDay[m] <= d /\ d < FirstDay[m + 1]
    BY DEF Month
  <1>. QED  BY <1>5, <1>6

(* The month of any day, and the days after the calendar, in the month   *)
(* that is not in it.                                                    *)
LEMMA MonthOfIs ==
  ASSUME NEW d \in Days
  PROVE  /\ MonthOf(d) \in 0..Months /\ FirstDay[MonthOf(d)] <= d
         /\ MonthOf(d) < Months => d < FirstDay[MonthOf(d)] + daysInMonth(MonthOf(d))
         /\ MonthOf(d) < Months <=> d <= LastDay
  <1>0. Months \in Nat \ {0} /\ FirstDay[Months] \in Nat /\ LastDay = FirstDay[Months] - 1
    BY CalendarAssumption, FirstDays DEF LastDay
  <1>1. CASE d <= LastDay
    <2>1. d \in 1..LastDay /\ MonthOf(d) = Month[d]
      BY <1>0, <1>1 DEF Days, NoDay, MonthOf
    <2>2. /\ Month[d] \in 0..(Months - 1)
          /\ FirstDay[Month[d]] <= d /\ d < FirstDay[Month[d] + 1]
      BY <2>1, MonthIs
    <2>3. FirstDay[Month[d] + 1] = FirstDay[Month[d]] + daysInMonth(Month[d])
      BY <2>2, FirstDays
    <2>. QED  BY <1>0, <1>1, <2>1, <2>2, <2>3
  <1>2. CASE ~(d <= LastDay)
    BY <1>0, <1>2 DEF MonthOf, Days
  <1>. QED  BY <1>1, <1>2

(* A day is in one month only.                                           *)
LEMMA MonthUnique ==
  ASSUME NEW d \in Days, NEW k \in 0..(Months - 1),
         FirstDay[k] <= d, d < FirstDay[k] + daysInMonth(k)
  PROVE  MonthOf(d) = k /\ d <= LastDay
  <1>0. Months \in Nat \ {0} /\ FirstDay[Months] \in Nat /\ LastDay = FirstDay[Months] - 1
    BY CalendarAssumption, FirstDays DEF LastDay
  <1>. DEFINE m == MonthOf(d)
  <1>1. /\ m \in 0..Months /\ FirstDay[m] <= d
        /\ m < Months => d < FirstDay[m] + daysInMonth(m)
        /\ m < Months <=> d <= LastDay
    BY MonthOfIs
  <1>. HIDE DEF m
  <1>2. k \in 0..Months /\ k < Months /\ d \in Nat
    BY <1>0 DEF Days
  <1>3. FirstDay[k] \in Nat /\ FirstDay[m] \in Nat /\ daysInMonth(k) \in 28..31
    BY <1>0, <1>1, <1>2, FirstDays, DaysInMonth
  <1>4. ~(k < m)
    <2>. SUFFICES ASSUME k < m PROVE FALSE
      OBVIOUS
    <2>1. FirstDay[k] + daysInMonth(k) <= FirstDay[m]
      BY <1>1, <1>2, LaterMonth
    <2>. QED  BY <1>1, <1>2, <1>3, <2>1
  <1>5. ~(m < k)
    <2>. SUFFICES ASSUME m < k PROVE FALSE
      OBVIOUS
    <2>1. FirstDay[m] + daysInMonth(m) <= FirstDay[k] /\ m < Months
      BY <1>0, <1>1, <1>2, LaterMonth
    <2>2. daysInMonth(m) \in 28..31
      BY <1>0, <1>1, DaysInMonth
    <2>. QED  BY <1>1, <1>2, <1>3, <2>1, <2>2
  <1>. QED  BY <1>0, <1>1, <1>2, <1>4, <1>5 DEF m

(* Later days are in later months or in the same.                        *)
LEMMA MonthsInOrder ==
  ASSUME NEW d \in Days, NEW e \in Days, d <= e
  PROVE  MonthOf(d) <= MonthOf(e)
  <1>0. Months \in Nat \ {0}
    BY CalendarAssumption
  <1>. DEFINE m == MonthOf(d)
              n == MonthOf(e)
  <1>1. /\ m \in 0..Months /\ FirstDay[m] <= d
        /\ n \in 0..Months /\ (n < Months => e < FirstDay[n] + daysInMonth(n))
    BY MonthOfIs
  <1>. HIDE DEF m, n
  <1>2. d \in Nat /\ e \in Nat
    BY DEF Days
  <1>3. ~(n < m)
    <2>. SUFFICES ASSUME n < m PROVE FALSE
      OBVIOUS
    <2>1. FirstDay[n] + daysInMonth(n) <= FirstDay[m] /\ n < Months
      BY <1>0, <1>1, LaterMonth
    <2>2. FirstDay[n] \in Nat /\ FirstDay[m] \in Nat /\ daysInMonth(n) \in 28..31
      BY <1>0, <1>1, FirstDays, DaysInMonth
    <2>. QED  BY <1>1, <1>2, <2>1, <2>2
  <1>. QED  BY <1>0, <1>1, <1>3 DEF m, n

(* Days that are months apart are at least 28 days apart for each of the *)
(* whole months between them.                                            *)
LEMMA MonthsApart ==
  ASSUME NEW d \in Days, NEW e \in Days, d <= e, e <= LastDay
  PROVE  28 * (MonthOf(e) - MonthOf(d) - 1) <= e - d
  <1>0. Months \in Nat \ {0} /\ d \in Nat /\ e \in Nat /\ LastDay \in Int
    BY CalendarAssumption, FirstDays DEF Days, LastDay
  <1>. DEFINE k == MonthOf(d)
              l == MonthOf(e)
  <1>1. /\ k \in 0..Months /\ k < Months /\ d < FirstDay[k] + daysInMonth(k)
        /\ l \in 0..Months /\ FirstDay[l] <= e
    BY <1>0, MonthOfIs
  <1>2. k <= l
    BY MonthsInOrder
  <1>. HIDE DEF k, l
  <1>3. CASE k = l
    BY <1>0, <1>1, <1>3 DEF k, l
  <1>4. CASE k # l
    <2>1. FirstDay[k + 1] + 28 * (l - k - 1) <= FirstDay[l]
      BY <1>0, <1>1, <1>2, <1>4, MonthsAreLong
    <2>2. FirstDay[k + 1] = FirstDay[k] + daysInMonth(k) /\ FirstDay[k + 1] \in Nat
          /\ FirstDay[l] \in Nat
      BY <1>0, <1>1, FirstDays
    <2>3. 28 * (l - k - 1) <= e - d
      BY <1>0, <1>1, <2>1, <2>2
    <2>. QED  BY <2>3 DEF k, l
  <1>. QED  BY <1>3, <1>4

(* The days of a month search: those of the given months that have the   *)
(* day.                                                                  *)
LEMMA DaysInAre ==
  ASSUME NEW ks, ks \subseteq Nat, NEW dom \in 1..31, NEW start \in Days
  PROVE  \A d : d \in DaysIn(ks, dom, start) <=>
                  d \in start..LastDay /\ MonthOf(d) \in ks /\ dayOf(d) = dom
  <1>0. Months \in Nat \ {0} /\ LastDay \in Int /\ start \in Nat
    BY CalendarAssumption, FirstDays DEF LastDay, Days
  <1>1. ASSUME NEW d \in DaysIn(ks, dom, start)
        PROVE  d \in start..LastDay /\ MonthOf(d) \in ks /\ dayOf(d) = dom
    <2>1. PICK k \in ks : /\ k < Months /\ dom <= daysInMonth(k)
                          /\ d = FirstDay[k] + dom - 1 /\ d >= start
      BY <1>1 DEF DaysIn
    <2>2. k \in 0..(Months - 1) /\ FirstDay[k] \in Nat /\ daysInMonth(k) \in 28..31
      BY <1>0, <2>1, FirstDays, DaysInMonth
    <2>3. d \in Days /\ FirstDay[k] <= d /\ d < FirstDay[k] + daysInMonth(k)
      BY <1>0, <2>1, <2>2 DEF Days, NoDay
    <2>4. MonthOf(d) = k /\ d <= LastDay
      BY <2>2, <2>3, MonthUnique
    <2>. QED  BY <1>0, <2>1, <2>2, <2>3, <2>4 DEF dayOf, Days
  <1>2. ASSUME NEW d \in start..LastDay, MonthOf(d) \in ks, dayOf(d) = dom
        PROVE  d \in DaysIn(ks, dom, start)
    <2>. DEFINE k == MonthOf(d)
    <2>1. d \in Days /\ d <= LastDay /\ d >= start
      BY <1>0, <1>2 DEF Days, NoDay
    <2>2. /\ k \in 0..Months /\ FirstDay[k] <= d /\ k < Months
          /\ d < FirstDay[k] + daysInMonth(k)
      BY <2>1, MonthOfIs
    <2>3. d - FirstDay[k] + 1 = dom
      BY <1>2 DEF dayOf
    <2>4. k \in ks
      BY <1>2
    <2>. HIDE DEF k
    <2>5. FirstDay[k] \in Nat /\ daysInMonth(k) \in 28..31
      BY <1>0, <2>2, FirstDays, DaysInMonth
    <2>6. d = FirstDay[k] + dom - 1 /\ dom <= daysInMonth(k)
      BY <1>0, <2>1, <2>2, <2>3, <2>5 DEF Days
    <2>. QED  BY <2>1, <2>2, <2>4, <2>6 DEF DaysIn
  <1>. QED  BY <1>1, <1>2

-----------------------------------------------------------------------------
(* The searches.                                                         *)

(* What leaves no remainder is a multiple.                               *)
LEMMA Quotient ==
  ASSUME NEW a \in Int, NEW b \in Nat \ {0}, a % b = 0
  PROVE  \E q \in Int : a = q * b
  <1>1. a \div b \in Int /\ a = b * (a \div b) + (a % b)
    BY Division
  <1>. DEFINE q == a \div b
  <1>2. q \in Int /\ a = b * q + 0
    BY <1>1
  <1>. HIDE DEF q
  <1>3. a = q * b
    BY <1>2
  <1>. QED  BY <1>2, <1>3

(* The first of a set of days, if any, is one of them and none is before *)
(* it.                                                                   *)
LEMMA FirstOfIs ==
  ASSUME NEW S, S \subseteq Days, FirstOf(S) # NoDay
  PROVE  FirstOf(S) \in S /\ \A e \in S : FirstOf(S) <= e
  BY DEF FirstOf

(* A set of days without a first has no days.                            *)
LEMMA NoFirst ==
  ASSUME NEW S, S \subseteq Days, FirstOf(S) = NoDay
  PROVE  S = {}
  <1>. SUFFICES ASSUME NEW d \in S PROVE FALSE
    OBVIOUS
  <1>1. S \subseteq Nat
    BY DEF Days
  <1>2. \E m \in S : \A k \in S : m <= k
    BY <1>1, LeastNatural
  <1>. QED  BY <1>2 DEF FirstOf, Days

(* What every search does: it gives days from start on that the rule     *)
(* means, and among them one no later than any such day before the last  *)
(* it gives.                                                             *)
Searches(S, r, anchor, start) ==
  /\ \A d \in S \cap Days : d >= start /\ Occurs(r, anchor, d)
  /\ \A d \in S \cap Days : \A e \in start..(d - 1) :
       Occurs(r, anchor, e) => \E f \in S \cap Days : f <= e

(* And it gives one if the rule means any as far as the weekly search    *)
(* looks.                                                                *)
Reaches(S, r, anchor, start) ==
  SearchesReach =>
    \A e \in start..(start + MAX_SEARCH_DAYS) :
      e <= LastDay /\ Occurs(r, anchor, e) => S \cap Days # {}

(* The valid rules, by frequency.                                        *)
DailyRules   == [frequency : {"daily"}, interval : 1..366]
WeeklyRules  == [frequency : {"weekly"}, interval : 1..366, weekdays : SUBSET (0..6) \ {{}}]
MonthlyRules == [frequency : {"monthly"}, interval : 1..366, dayOfMonth : 1..31]
YearlyRules  == [frequency : {"yearly"}, interval : 1..366, dayOfMonth : 1..31, month : 0..11]

(* So does the daily search, which rounds up to the interval.            *)
LEMMA DailySearches ==
  ASSUME NEW r \in DailyRules, NEW anchor \in Days, NEW start \in Days, anchor <= start
  PROVE  /\ Searches(NextDaily(r, anchor, start), r, anchor, start)
         /\ Reaches(NextDaily(r, anchor, start), r, anchor, start)
  <1>. DEFINE b == r.interval
              c == Ceil(start - anchor, b)
              o == anchor + c * b
  <1>1. b \in Nat \ {0} /\ anchor \in Nat /\ start \in Nat /\ r.frequency = "daily"
    BY DEF DailyRules, Days
  <1>2. c \in Int /\ start - anchor <= c * b /\ c * b < (start - anchor) + b
    <2>. HIDE DEF b
    <2>1. start - anchor \in Int
      BY <1>1
    <2>. QED  BY <1>1, <2>1, CeilIs
  <1>3. NextDaily(r, anchor, start) = {o}
    BY DEF NextDaily
  <1>4. \A d \in Int : Occurs(r, anchor, d) <=> d >= anchor /\ (d - anchor) % b = 0
    BY <1>1 DEF Occurs
  <1>. HIDE DEF b, c
  <1>5. o \in Int /\ o >= start /\ o - anchor = c * b
    BY <1>1, <1>2
  <1>. HIDE DEF o
  <1>6. Occurs(r, anchor, o)
    BY <1>1, <1>2, <1>4, <1>5, Product
  <1>7. ASSUME NEW e \in start..(o - 1), Occurs(r, anchor, e) PROVE FALSE
    <2>1. e \in Int /\ e >= start /\ e < o
      BY <1>1, <1>5
    <2>2. e - anchor \in Int /\ (e - anchor) % b = 0
      BY <1>1, <1>4, <1>7, <2>1
    <2>3. PICK q \in Int : e - anchor = q * b
      BY <1>1, <2>2, Quotient
    <2>4. q * b < c * b
      BY <1>1, <1>5, <2>1, <2>3
    <2>5. q * b + b <= c * b
      BY <1>1, <1>2, <2>4, MultiplesApart
    <2>. QED  BY <1>1, <1>2, <2>1, <2>3, <2>5
  <1>8. o \in Days
    BY <1>1, <1>5 DEF Days, NoDay
  <1>. QED  BY <1>3, <1>5, <1>6, <1>7, <1>8 DEF Searches, Reaches

(* So does the monthly search, which skips the months without the day.   *)
LEMMA MonthlySearches ==
  ASSUME NEW r \in MonthlyRules, NEW anchor \in Days, NEW start \in Days, anchor <= start
  PROVE  /\ Searches(NextMonthly(r, anchor, start), r, anchor, start)
         /\ Reaches(NextMonthly(r, anchor, start), r, anchor, start)
  <1>. DEFINE b == r.interval
              dom == r.dayOfMonth
              MA == MonthOf(anchor)
              MS == MonthOf(start)
              apart == MS - MA - (IF dayOf(start) <= dom THEN 1 ELSE 0)
              step == AtLeast0(Ceil(apart, b) * b)
              ks == {MA + step + n * b : n \in 0..(MAX_MONTHS - 1)}
  <1>1. /\ b \in Nat \ {0} /\ dom \in 1..31 /\ anchor \in Nat /\ start \in Nat
        /\ r.frequency = "monthly" /\ MAX_MONTHS \in Nat \ {0} /\ LastDay \in Int
    <2>1. b \in Nat \ {0} /\ dom \in 1..31 /\ r.frequency = "monthly"
      BY DEF MonthlyRules
    <2>2. MAX_MONTHS \in Nat \ {0} /\ LastDay \in Int
      BY CalendarAssumption, FirstDays DEF LastDay
    <2>. QED  BY <2>1, <2>2 DEF Days
  <1>2. MA \in Nat /\ MS \in Nat /\ MA <= MS
    BY MonthOfIs, MonthsInOrder
  <1>3. NextMonthly(r, anchor, start) = DaysIn(ks, dom, start)
    BY DEF NextMonthly
  <1>4. apart \in Int /\ apart <= MS - MA /\ MS - MA - 1 <= apart
    <2>. HIDE DEF MA, MS, dom
    <2>. QED  BY <1>2
  <1>5. \A d \in Int : Occurs(r, anchor, d) <=>
          d >= anchor /\ dayOf(d) = dom /\ (MonthOf(d) - MA) % b = 0
    BY <1>1 DEF Occurs
  <1>. HIDE DEF b, dom, MA, MS, apart
  <1>6. PICK c \in Nat : step = c * b /\ apart <= c * b /\ (c = 0 \/ c * b < apart + b)
    <2>1. /\ Ceil(apart, b) \in Int /\ Ceil(apart, b) * b < apart + b
          /\ apart <= Ceil(apart, b) * b
      BY <1>1, <1>4, CeilIs
    <2>. DEFINE k == Ceil(apart, b)
    <2>. HIDE DEF k
    <2>2. k \in Int /\ k * b < apart + b /\ apart <= k * b /\ step = AtLeast0(k * b)
      BY <2>1 DEF k
    <2>3. CASE k * b < 0
      <3>1. step = 0 * b
        BY <1>1, <2>2, <2>3 DEF AtLeast0
      <3>. QED  BY <1>1, <1>4, <2>2, <2>3, <3>1
    <2>4. CASE ~(k * b < 0)
      <3>1. k \in Nat /\ step = k * b
        BY <1>1, <2>2, <2>4 DEF AtLeast0
      <3>. QED  BY <2>2, <3>1
    <2>. QED  BY <2>3, <2>4
  <1>7. \A k : k \in ks <=> \E n \in 0..(MAX_MONTHS - 1) : k = MA + c * b + n * b
    BY <1>6
  <1>. HIDE DEF step, ks
  <1>8. ks \subseteq Nat
    <2>1. \A n \in 0..(MAX_MONTHS - 1) : MA + c * b + n * b \in Nat
      BY <1>1, <1>2, <1>6
    <2>. QED  BY <1>7, <2>1
  <1>9. \A d : d \in DaysIn(ks, dom, start) <=>
                 d \in start..LastDay /\ MonthOf(d) \in ks /\ dayOf(d) = dom
    BY <1>1, <1>8, DaysInAre
  <1>10. ASSUME NEW d \in DaysIn(ks, dom, start)
         PROVE  d \in Days /\ d >= start /\ Occurs(r, anchor, d)
    <2>1. d \in Days /\ d >= start /\ dayOf(d) = dom
      BY <1>1, <1>9 DEF Days, NoDay
    <2>2. PICK n \in 0..(MAX_MONTHS - 1) : MonthOf(d) = MA + c * b + n * b
      BY <1>7, <1>9
    <2>. DEFINE q == c + n
    <2>3. MonthOf(d) - MA = q * b /\ q \in Int
      BY <1>1, <1>2, <1>6, <2>2
    <2>. HIDE DEF q
    <2>4. (MonthOf(d) - MA) % b = 0
      BY <1>1, <2>3, Product
    <2>. QED  BY <1>1, <1>5, <2>1, <2>4 DEF Days
  <1>11. ASSUME NEW e \in start..LastDay, Occurs(r, anchor, e),
                NEW n \in 0..(MAX_MONTHS - 1), MonthOf(e) <= MA + c * b + n * b
         PROVE  e \in DaysIn(ks, dom, start)
    <2>1. e \in Days /\ anchor <= e /\ start <= e
      BY <1>1 DEF Days, NoDay
    <2>2. dayOf(e) = dom /\ (MonthOf(e) - MA) % b = 0
      BY <1>5, <1>11, <2>1 DEF Days
    <2>. DEFINE ME == MonthOf(e)
    <2>3. ME \in Nat /\ MS <= ME /\ MA <= ME
      <3>1. ME \in Nat
        BY <2>1, MonthOfIs
      <3>2. MS <= ME
        BY <2>1, MonthsInOrder DEF MS
      <3>3. MA <= ME
        BY <2>1, MonthsInOrder DEF MA
      <3>. QED  BY <3>1, <3>2, <3>3
    <2>4. PICK q \in Int : ME - MA = q * b
      <3>1. (ME - MA) % b = 0
        BY <2>2
      <3>. HIDE DEF ME
      <3>2. ME - MA \in Int
        BY <1>2, <2>3
      <3>. DEFINE x == ME - MA
      <3>. HIDE DEF x
      <3>3. \E q \in Int : x = q * b
        BY <1>1, <3>1, <3>2, Quotient DEF x
      <3>. QED  BY <3>3 DEF x
    <2>5. ME <= MA + c * b + n * b
      BY <1>11
    <2>. HIDE DEF ME
    <2>6. c <= q
      <3>. SUFFICES ASSUME q < c PROVE FALSE
        BY <1>6
      <3>1. q * b < c * b
        BY <1>1, <1>6
      <3>2. q * b + b <= c * b
        BY <1>1, <1>6, <3>1, MultiplesApart
      <3>3. c # 0
        <4>1. q * b >= 0
          BY <1>2, <2>3, <2>4
        <4>. QED  BY <1>1, <3>1, <4>1
      <3>4. q * b < apart
        BY <1>1, <1>4, <1>6, <3>2, <3>3
      <3>. QED  BY <1>2, <1>4, <2>3, <2>4, <3>4
    <2>7. q - c \in Nat /\ ME = MA + c * b + (q - c) * b
      BY <1>1, <1>2, <1>6, <2>3, <2>4, <2>6
    <2>8. q - c <= n
      <3>. SUFFICES ASSUME n < q - c PROVE FALSE
        BY <2>7
      <3>1. n * b < (q - c) * b
        BY <1>1, <2>7
      <3>. QED  BY <1>1, <1>2, <1>6, <2>3, <2>5, <2>7, <3>1
    <2>9. q - c \in 0..(MAX_MONTHS - 1)
      BY <1>1, <2>7, <2>8
    <2>10. MonthOf(e) \in ks
      BY <1>7, <2>7, <2>9 DEF ME
    <2>. QED  BY <1>9, <1>11, <2>2, <2>10
  <1>12. ASSUME NEW d \in DaysIn(ks, dom, start), NEW e \in start..(d - 1), Occurs(r, anchor, e)
         PROVE  \E f \in DaysIn(ks, dom, start) \cap Days : f <= e
    <2>1. e \in DaysIn(ks, dom, start)
      <3>1. d \in Days /\ e \in Days /\ e <= d /\ e \in start..LastDay
        BY <1>1, <1>9, <1>10 DEF Days, NoDay
      <3>2. PICK n \in 0..(MAX_MONTHS - 1) : MonthOf(d) = MA + c * b + n * b
        BY <1>7, <1>9
      <3>3. MonthOf(e) <= MonthOf(d)
        BY <3>1, MonthsInOrder
      <3>. QED  BY <1>11, <1>12, <3>1, <3>2, <3>3
    <2>2. e \in Days /\ e <= e
      BY <1>10, <2>1 DEF Days
    <2>. QED  BY <2>1, <2>2
  <1>13. ASSUME SearchesReach, NEW e \in start..(start + MAX_SEARCH_DAYS), e <= LastDay,
                Occurs(r, anchor, e)
         PROVE  DaysIn(ks, dom, start) \cap Days # {}
    <2>. DEFINE ME == MonthOf(e)
                N == MAX_MONTHS - 1
    <2>1. e \in Days /\ e \in start..LastDay /\ start <= e /\ MAX_SEARCH_DAYS \in Nat
      BY <1>1, <1>13, CalendarAssumption DEF Days, NoDay
    <2>2. ME \in Nat /\ 28 * (ME - MS - 1) <= e - start
      BY <1>13, <2>1, MonthOfIs, MonthsApart DEF MS
    <2>3. MAX_SEARCH_DAYS <= 28 * (MAX_MONTHS - 4)
      BY <1>13 DEF SearchesReach
    <2>. HIDE DEF ME
    <2>4. ME <= MS + MAX_MONTHS - 3
      BY <1>1, <1>2, <1>13, <2>1, <2>2, <2>3
    <2>5. N \in 0..(MAX_MONTHS - 1) /\ N <= N * b /\ N * b \in Nat
      <3>1. N \in Nat /\ N = MAX_MONTHS - 1
        BY <1>1
      <3>. HIDE DEF N
      <3>2. N <= N * b /\ N * b \in Nat
        BY <1>1, <3>1
      <3>. QED  BY <1>1, <3>1, <3>2
    <2>6. ME <= MA + c * b + N * b
      <3>1. MS - 1 <= MA + c * b /\ c * b \in Nat
        BY <1>1, <1>2, <1>4, <1>6
      <3>2. ME <= MS - 1 + N
        BY <1>1, <1>2, <2>2, <2>4
      <3>. HIDE DEF N
      <3>. QED  BY <1>1, <1>2, <2>2, <2>5, <3>1, <3>2
    <2>. HIDE DEF N
    <2>7. e \in DaysIn(ks, dom, start)
      BY <1>11, <1>13, <2>1, <2>5, <2>6 DEF ME
    <2>. QED  BY <2>1, <2>7
  <1>. QED  BY <1>3, <1>10, <1>12, <1>13 DEF Searches, Reaches

(* Which week a day is in.                                               *)
Week(d) == (d - 1 + Weekday1) \div 7

(* A day is its week and its weekday.                                    *)
LEMMA WeekIs ==
  ASSUME NEW d \in Int
  PROVE  /\ Week(d) \in Int /\ weekdayOf(d) \in 0..6
         /\ d - 1 + Weekday1 = 7 * Week(d) + weekdayOf(d)
         /\ weekStart(d) = 7 * Week(d) + 1 - Weekday1
  BY CalendarAssumption DEF Week, weekdayOf, weekStart

(* A day has one week and one weekday.                                   *)
LEMMA WeekUnique ==
  ASSUME NEW d \in Int, NEW q \in Int, NEW j \in 0..6, d - 1 + Weekday1 = 7 * q + j
  PROVE  Week(d) = q /\ weekdayOf(d) = j
  BY CalendarAssumption DEF Week, weekdayOf

(* Days whole weeks apart fall on the same weekday.                      *)
LEMMA SameWeek ==
  ASSUME NEW d \in Int, NEW e \in Int, NEW x \in Int, d - e = 7 * x
  PROVE  Week(d) - Week(e) = x /\ weekdayOf(d) = weekdayOf(e)
  <1>. DEFINE p == Week(d)
              q == Week(e)
              j == weekdayOf(d)
              k == weekdayOf(e)
  <1>1. /\ Weekday1 \in Int /\ p \in Int /\ q \in Int /\ j \in 0..6 /\ k \in 0..6
        /\ d - 1 + Weekday1 = 7 * p + j /\ e - 1 + Weekday1 = 7 * q + k
    BY CalendarAssumption, WeekIs
  <1>. HIDE DEF p, q, j, k
  <1>2. p - q = x /\ j = k
    BY <1>1
  <1>. QED  BY <1>2 DEF p, q, j, k

(* A weekly rule counts whole weeks from the week of the anchor: the     *)
(* reference and the search agree on each day.                           *)
LEMMA WeeklyMeans ==
  ASSUME NEW r \in WeeklyRules, NEW anchor \in Days, NEW d \in Days, anchor <= d
  PROVE  Occurs(r, anchor, d) <=>
           /\ weekdayOf(d) \in r.weekdays
           /\ LET weeksApart == (weekStart(d) - weekStart(anchor)) \div 7
              IN weeksApart >= 0 /\ weeksApart % r.interval = 0
  <1>. DEFINE b == r.interval
              w == r.weekdays
              a0 == weekStart(anchor)
              apart == (weekStart(d) - a0) \div 7
  <1>0. b \in Nat \ {0} /\ w \subseteq 0..6 /\ r.frequency = "weekly"
    BY DEF WeeklyRules
  <1>1. anchor \in Int /\ d \in Int /\ Weekday1 \in Int
    BY CalendarAssumption DEF Days
  <1>2. Occurs(r, anchor, d) <=> \E e \in a0..(a0 + 6) : weekdayOf(e) \in w /\ (d - e) % (7 * b) = 0
    BY <1>0 DEF Occurs
  <1>3. /\ Week(anchor) \in Int /\ weekdayOf(anchor) \in 0..6
        /\ anchor - 1 + Weekday1 = 7 * Week(anchor) + weekdayOf(anchor)
        /\ a0 = 7 * Week(anchor) + 1 - Weekday1
        /\ Week(d) \in Int /\ weekdayOf(d) \in 0..6
        /\ d - 1 + Weekday1 = 7 * Week(d) + weekdayOf(d)
        /\ weekStart(d) = 7 * Week(d) + 1 - Weekday1
    BY <1>1, WeekIs
  <1>. DEFINE Qa == Week(anchor)
              Qd == Week(d)
  <1>4. apart = Qd - Qa /\ apart >= 0
    <2>. HIDE DEF Qa, Qd
    <2>1. weekStart(d) - a0 = 7 * (Qd - Qa) /\ Qd \in Int /\ Qa \in Int
      <3>. HIDE DEF a0
      <3>. QED  BY <1>1, <1>3 DEF Qa, Qd
    <2>2. Qd >= Qa
      BY <1>1, <1>3 DEF Qa, Qd
    <2>3. apart = Qd - Qa
      <3>. HIDE DEF a0
      <3>. QED  BY <2>1
    <2>. QED  BY <2>1, <2>2, <2>3
  <1>. HIDE DEF b, w, a0, apart, Qa, Qd
  <1>5. ASSUME NEW e \in a0..(a0 + 6), weekdayOf(e) \in w, (d - e) % (7 * b) = 0
        PROVE  weekdayOf(d) \in w /\ apart % b = 0
    <2>1. e \in Int /\ e - a0 \in 0..6 /\ e - 1 + Weekday1 = 7 * Qa + (e - a0)
      BY <1>1, <1>3 DEF Qa
    <2>2. Week(e) = Qa
      BY <1>3, <2>1, WeekUnique DEF Qa
    <2>3. 7 * b \in Nat \ {0} /\ d - e \in Int
      BY <1>0, <1>1, <2>1
    <2>4. PICK q \in Int : d - e = q * (7 * b)
      BY <1>5, <2>3, Quotient
    <2>. DEFINE x == q * b
    <2>5. x \in Int /\ d - e = 7 * x
      BY <1>0, <2>4
    <2>. HIDE DEF x
    <2>6. x = apart /\ weekdayOf(e) = weekdayOf(d)
      <3>0. d \in Int /\ e \in Int /\ x \in Int /\ d - e = 7 * x
        BY <1>1, <2>1, <2>5
      <3>1. Week(d) - Week(e) = x /\ weekdayOf(d) = weekdayOf(e)
        BY <3>0, SameWeek, Zenon
      <3>. QED  BY <1>4, <2>2, <3>1 DEF Qd
    <2>7. x % b = 0
      BY <1>0, Product DEF x
    <2>. QED  BY <1>5, <2>6, <2>7
  <1>6. ASSUME weekdayOf(d) \in w, apart % b = 0
        PROVE  \E e \in a0..(a0 + 6) : weekdayOf(e) \in w /\ (d - e) % (7 * b) = 0
    <2>. DEFINE e == a0 + weekdayOf(d)
    <2>1. e \in Int /\ e \in a0..(a0 + 6) /\ e - 1 + Weekday1 = 7 * Qa + weekdayOf(d)
      BY <1>1, <1>3 DEF Qa
    <2>2. weekdayOf(e) = weekdayOf(d)
      <3>. HIDE DEF e
      <3>. QED  BY <1>3, <2>1, WeekUnique DEF Qa
    <2>3. d - e = 7 * (Qd - Qa)
      BY <1>1, <1>3 DEF Qa, Qd
    <2>4. apart \in Int
      BY <1>3, <1>4 DEF Qa, Qd
    <2>5. PICK q \in Int : apart = q * b
      BY <1>0, <1>6, <2>4, Quotient
    <2>6. 7 * (q * b) = q * (7 * b) /\ 7 * b \in Nat \ {0}
      BY <1>0
    <2>. HIDE DEF e
    <2>7. d - e = q * (7 * b)
      BY <1>4, <2>3, <2>5, <2>6
    <2>8. (d - e) % (7 * b) = 0
      <3>1. (q * (7 * b)) % (7 * b) = 0
        BY <2>6, Product
      <3>. QED  BY <2>7, <3>1
    <2>. QED  BY <1>6, <2>1, <2>2, <2>8
  <1>7. Occurs(r, anchor, d) <=> weekdayOf(d) \in w /\ apart >= 0 /\ apart % b = 0
    BY <1>2, <1>4, <1>5, <1>6
  <1>. QED  BY <1>7 DEF w, apart, b, a0

(* So does the weekly search, which looks at each day.                   *)
LEMMA WeeklySearches ==
  ASSUME NEW r \in WeeklyRules, NEW anchor \in Days, NEW start \in Days, anchor <= start
  PROVE  /\ Searches(NextWeekly(r, anchor, start), r, anchor, start)
         /\ Reaches(NextWeekly(r, anchor, start), r, anchor, start)
  <1>1. MAX_SEARCH_DAYS \in Nat /\ start \in Nat /\ anchor \in Nat
    BY CalendarAssumption DEF Days
  <1>2. ASSUME NEW d \in start..(start + MAX_SEARCH_DAYS)
        PROVE  d \in Days /\ (d \in NextWeekly(r, anchor, start) <=> Occurs(r, anchor, d))
    <2>1. d \in Days /\ anchor <= d
      BY <1>1 DEF Days, NoDay
    <2>2. Occurs(r, anchor, d) <=>
            /\ weekdayOf(d) \in r.weekdays
            /\ LET weeksApart == (weekStart(d) - weekStart(anchor)) \div 7
               IN weeksApart >= 0 /\ weeksApart % r.interval = 0
      BY <2>1, WeeklyMeans
    <2>. QED  BY <2>1, <2>2 DEF NextWeekly
  <1>3. NextWeekly(r, anchor, start) \subseteq start..(start + MAX_SEARCH_DAYS)
    BY DEF NextWeekly
  <1>4. ASSUME NEW d \in NextWeekly(r, anchor, start), NEW e \in start..(d - 1),
               Occurs(r, anchor, e)
        PROVE  e \in NextWeekly(r, anchor, start) \cap Days /\ e <= e
    <2>1. e \in start..(start + MAX_SEARCH_DAYS)
      BY <1>1, <1>3
    <2>. QED  BY <1>1, <1>2, <1>4, <2>1
  <1>. HIDE DEF NextWeekly
  <1>5. ASSUME NEW d \in NextWeekly(r, anchor, start)
        PROVE  d >= start /\ Occurs(r, anchor, d)
    BY <1>1, <1>2, <1>3
  <1>6. Reaches(NextWeekly(r, anchor, start), r, anchor, start)
    BY <1>2 DEF Reaches
  <1>. QED  BY <1>4, <1>5, <1>6 DEF Searches

(* A month is its year and its place in it.                              *)
LEMMA YearIs ==
  ASSUME NEW d \in Days
  PROVE  yearOf(d) \in Nat /\ MonthOf(d) % 12 \in 0..11
         /\ MonthOf(d) = 12 * yearOf(d) + (MonthOf(d) % 12)
  <1>1. MonthOf(d) \in Nat
    BY MonthOfIs, CalendarAssumption
  <1>. QED  BY <1>1 DEF yearOf

(* A day is in one year only.                                            *)
LEMMA YearUnique ==
  ASSUME NEW d \in Days, NEW y \in Int, NEW m \in 0..11, MonthOf(d) = 12 * y + m
  PROVE  yearOf(d) = y /\ MonthOf(d) % 12 = m
  BY DEF yearOf

(* Later days are in later years or in the same.                         *)
LEMMA YearsInOrder ==
  ASSUME NEW d \in Days, NEW e \in Days, d <= e
  PROVE  yearOf(d) <= yearOf(e)
  <1>1. MonthOf(d) \in Nat /\ MonthOf(e) \in Nat /\ MonthOf(d) <= MonthOf(e)
    BY MonthOfIs, MonthsInOrder, CalendarAssumption
  <1>. QED  BY <1>1 DEF yearOf

(* So does the yearly search, which skips the years without the day.     *)
LEMMA YearlySearches ==
  ASSUME NEW r \in YearlyRules, NEW anchor \in Days, NEW start \in Days, anchor <= start
  PROVE  /\ Searches(NextYearly(r, anchor, start), r, anchor, start)
         /\ Reaches(NextYearly(r, anchor, start), r, anchor, start)
  <1>. DEFINE b == r.interval
              dom == r.dayOfMonth
              mon == r.month
              YA == yearOf(anchor)
              YS == yearOf(start)
              off == (YS - YA) % b
              first == IF off = 0 THEN YS ELSE YS + b - off
              tries == IF off = 0 THEN MAX_YEARS ELSE MAX_YEARS - 1
              ks == {12 * (first + n * b) + mon : n \in 0..(tries - 1)}
              given == DaysIn(ks, dom, start)
  <1>1. /\ b \in Nat \ {0} /\ dom \in 1..31 /\ mon \in 0..11 /\ anchor \in Nat /\ start \in Nat
        /\ r.frequency = "yearly" /\ MAX_YEARS \in Nat \ {0} /\ LastDay \in Int
    <2>1. b \in Nat \ {0} /\ dom \in 1..31 /\ mon \in 0..11 /\ r.frequency = "yearly"
      BY DEF YearlyRules
    <2>2. MAX_YEARS \in Nat \ {0} /\ LastDay \in Int
      BY CalendarAssumption, FirstDays DEF LastDay
    <2>. QED  BY <2>1, <2>2 DEF Days
  <1>2. YA \in Nat /\ YS \in Nat /\ YA <= YS
    BY YearIs, YearsInOrder
  <1>3. NextYearly(r, anchor, start) = given
    BY DEF NextYearly
  <1>4. \A d \in Int : Occurs(r, anchor, d) <=>
          /\ d >= anchor /\ dayOf(d) = dom /\ MonthOf(d) % 12 = mon
          /\ (yearOf(d) - YA) % b = 0
    BY <1>1 DEF Occurs
  <1>. HIDE DEF b, dom, mon, YA, YS
  <1>5. /\ off \in 0..(b - 1) /\ YS - YA \in Int
        /\ \E k \in Int : YS - YA = k * b + off
    <2>. DEFINE x == YS - YA
    <2>1. x \in Int
      BY <1>2
    <2>. HIDE DEF x
    <2>2. x \div b \in Int /\ x % b \in 0..(b - 1) /\ x = b * (x \div b) + (x % b)
      BY <1>1, <2>1, Division
    <2>. DEFINE k == x \div b
    <2>3. k \in Int /\ x = k * b + (x % b)
      <3>. HIDE DEF k
      <3>1. k \in Int /\ x = b * k + (x % b)
        BY <2>2 DEF k
      <3>. QED  BY <1>1, <2>2, <3>1
    <2>. QED  BY <2>1, <2>2, <2>3 DEF x
  <1>. HIDE DEF off
  <1>6. first \in Int /\ YS <= first /\ first < YS + b /\ tries \in {MAX_YEARS - 1, MAX_YEARS}
    BY <1>1, <1>2, <1>5
  <1>7. PICK p \in Int : first = YA + p * b
    <2>1. PICK k \in Int : YS - YA = k * b + off
      BY <1>5
    <2>2. CASE off = 0
      BY <1>1, <1>2, <2>1, <2>2
    <2>3. CASE off # 0
      <3>1. (k + 1) * b = k * b + b
        BY <1>1
      <3>2. first = YA + (k + 1) * b /\ k + 1 \in Int
        BY <1>1, <1>2, <1>5, <2>1, <2>3, <3>1
      <3>. QED  BY <3>2
    <2>. QED  BY <2>2, <2>3
  <1>. HIDE DEF first, tries
  <1>8. \A k : k \in ks <=> \E n \in 0..(tries - 1) : k = 12 * (first + n * b) + mon
    OBVIOUS
  <1>. HIDE DEF ks
  <1>9. ks \subseteq Nat
    <2>1. \A n \in 0..(tries - 1) : 12 * (first + n * b) + mon \in Nat
      BY <1>1, <1>2, <1>6
    <2>. QED  BY <1>8, <2>1
  <1>10. \A d : d \in given <=> d \in start..LastDay /\ MonthOf(d) \in ks /\ dayOf(d) = dom
    BY <1>1, <1>9, DaysInAre
  <1>. HIDE DEF given
  <1>11. ASSUME NEW d \in given
         PROVE  /\ d \in Days /\ d >= start /\ dayOf(d) = dom /\ MonthOf(d) % 12 = mon
                /\ \E n \in 0..(tries - 1) : yearOf(d) = first + n * b
    <2>1. d \in Days /\ d >= start /\ dayOf(d) = dom
      BY <1>1, <1>10 DEF Days, NoDay
    <2>2. PICK n \in 0..(tries - 1) : MonthOf(d) = 12 * (first + n * b) + mon
      BY <1>8, <1>10
    <2>. DEFINE y == first + n * b
    <2>3. y \in Int
      BY <1>1, <1>6
    <2>. HIDE DEF y
    <2>4. yearOf(d) = y /\ MonthOf(d) % 12 = mon
      BY <1>1, <2>1, <2>2, <2>3, YearUnique DEF y
    <2>. QED  BY <2>1, <2>4 DEF y
  <1>12. ASSUME NEW d \in given PROVE Occurs(r, anchor, d)
    <2>1. PICK n \in 0..(tries - 1) : yearOf(d) = first + n * b
      BY <1>11
    <2>2. yearOf(d) - YA = (p + n) * b /\ p + n \in Int
      BY <1>1, <1>2, <1>6, <1>7, <2>1
    <2>. DEFINE q == p + n
    <2>3. q \in Int /\ yearOf(d) - YA = q * b
      BY <2>2
    <2>. HIDE DEF q
    <2>4. (q * b) % b = 0
      BY <1>1, <2>3, Product
    <2>5. d \in Int /\ d >= anchor /\ dayOf(d) = dom /\ MonthOf(d) % 12 = mon
      BY <1>1, <1>11 DEF Days
    <2>6. (yearOf(d) - YA) % b = 0
      BY <2>3, <2>4
    <2>. QED  BY <1>4, <2>5, <2>6
  <1>13. ASSUME NEW e \in start..LastDay, Occurs(r, anchor, e),
                NEW n \in 0..(tries - 1), yearOf(e) <= first + n * b
         PROVE  e \in given
    <2>1. e \in Days /\ start <= e
      BY <1>1 DEF Days, NoDay
    <2>2. dayOf(e) = dom /\ MonthOf(e) % 12 = mon /\ (yearOf(e) - YA) % b = 0
      BY <1>4, <1>13, <2>1 DEF Days
    <2>. DEFINE YE == yearOf(e)
    <2>3. YE \in Nat /\ YS <= YE
      BY <2>1, YearIs, YearsInOrder DEF YS
    <2>4. PICK q \in Int : YE - YA = q * b
      <3>1. (YE - YA) % b = 0
        BY <2>2
      <3>. HIDE DEF YE
      <3>2. YE - YA \in Int
        BY <1>2, <2>3
      <3>. DEFINE x == YE - YA
      <3>. HIDE DEF x
      <3>3. \E q \in Int : x = q * b
        BY <1>1, <3>1, <3>2, Quotient DEF x
      <3>. QED  BY <3>3 DEF x
    <2>5. YE <= first + n * b
      BY <1>13
    <2>6. MonthOf(e) = 12 * YE + mon
      BY <2>1, <2>2, YearIs
    <2>. HIDE DEF YE
    <2>7. p <= q
      <3>. SUFFICES ASSUME q < p PROVE FALSE
        OBVIOUS
      <3>1. q * b < p * b
        BY <1>1
      <3>2. q * b + b <= p * b
        BY <1>1, <3>1, MultiplesApart
      <3>. QED  BY <1>1, <1>2, <1>6, <1>7, <2>3, <2>4, <3>2
    <2>8. q - p \in Nat /\ YE = first + (q - p) * b
      BY <1>1, <1>2, <1>7, <2>3, <2>4, <2>7
    <2>9. q - p <= n
      <3>. SUFFICES ASSUME n < q - p PROVE FALSE
        BY <1>6, <2>8
      <3>1. n * b < (q - p) * b
        BY <1>1, <1>6, <2>8
      <3>. QED  BY <1>1, <1>6, <2>3, <2>5, <2>8, <3>1
    <2>10. q - p \in 0..(tries - 1)
      BY <1>6, <2>8, <2>9
    <2>11. MonthOf(e) \in ks
      BY <1>8, <2>6, <2>8, <2>10
    <2>. QED  BY <1>10, <1>13, <2>2, <2>11
  <1>14. ASSUME NEW d \in given, NEW e \in start..(d - 1), Occurs(r, anchor, e)
         PROVE  \E f \in given \cap Days : f <= e
    <2>1. e \in given
      <3>1. d \in Days /\ e \in Days /\ e <= d /\ e \in start..LastDay
        BY <1>1, <1>10, <1>11 DEF Days, NoDay
      <3>2. PICK n \in 0..(tries - 1) : yearOf(d) = first + n * b
        BY <1>11
      <3>3. yearOf(e) <= yearOf(d)
        BY <3>1, YearsInOrder
      <3>. QED  BY <1>13, <1>14, <3>1, <3>2, <3>3
    <2>2. e \in Days /\ e <= e
      BY <1>11, <2>1 DEF Days
    <2>. QED  BY <2>1, <2>2
  <1>15. ASSUME SearchesReach, NEW e \in start..(start + MAX_SEARCH_DAYS), e <= LastDay,
                Occurs(r, anchor, e)
         PROVE  given \cap Days # {}
    <2>. DEFINE YE == yearOf(e)
                N == tries - 1
    <2>1. e \in Days /\ e \in start..LastDay /\ start <= e /\ MAX_SEARCH_DAYS \in Nat
      BY <1>1, <1>15, CalendarAssumption DEF Days, NoDay
    <2>2. YE \in Nat /\ 12 * YE <= MonthOf(e) /\ MonthOf(e) \in Nat
      BY <2>1, YearIs, MonthOfIs
    <2>3. MonthOf(start) < 12 * YS + 12 /\ MonthOf(start) \in Nat
      BY YearIs, MonthOfIs DEF YS
    <2>4. 28 * (MonthOf(e) - MonthOf(start) - 1) <= e - start
      BY <1>15, <2>1, MonthsApart
    <2>5. MAX_SEARCH_DAYS <= 12 * 28 * (MAX_YEARS - 3)
      BY <1>15 DEF SearchesReach
    <2>. HIDE DEF YE
    <2>6. MonthOf(e) - MonthOf(start) - 1 <= 12 * (MAX_YEARS - 3)
      BY <1>1, <1>15, <2>1, <2>2, <2>3, <2>4, <2>5
    <2>7. YE <= YS + MAX_YEARS - 2
      BY <1>1, <1>2, <2>2, <2>3, <2>6
    <2>8. N \in Nat /\ MAX_YEARS - 2 <= N
      <3>1. MAX_YEARS > 3
        BY <1>1, <2>1, <2>5, CalendarAssumption
      <3>. QED  BY <1>1, <1>6, <3>1
    <2>9. N \in 0..(tries - 1) /\ N <= N * b /\ N * b \in Nat
      <3>1. N = tries - 1 /\ tries \in Nat
        BY <1>1, <1>6, <2>8
      <3>. HIDE DEF N
      <3>2. N <= N * b /\ N * b \in Nat
        BY <1>1, <2>8
      <3>. QED  BY <2>8, <3>1, <3>2
    <2>10. YE <= first + N * b
      <3>. HIDE DEF N
      <3>. QED  BY <1>1, <1>2, <1>6, <2>2, <2>7, <2>8, <2>9
    <2>. HIDE DEF N
    <2>11. e \in given
      BY <1>13, <1>15, <2>1, <2>9, <2>10 DEF YE
    <2>. QED  BY <2>1, <2>11
  <1>. QED  BY <1>3, <1>11, <1>12, <1>14, <1>15 DEF Searches, Reaches

(* What one search asks for, if anything, is the first day the rule      *)
(* means from the given day on; and it asks for none only if there is    *)
(* none as far as the weekly search looks (nextOccurrenceOnOrAfter).     *)
LEMMA NextIsFirst ==
  ASSUME NEW r, isValidRule(r), NEW anchor \in Days, NEW from \in Days
  PROVE  LET o == nextOccurrenceOnOrAfter(r, anchor, from)
         IN /\ o \in Days \cup {NoDay}
            /\ o # NoDay => /\ o >= from /\ Occurs(r, anchor, o)
                            /\ \A e \in from..(o - 1) : ~Occurs(r, anchor, e)
            /\ SearchesReach /\ o = NoDay =>
                 \A e \in from..(from + MAX_SEARCH_DAYS) :
                   e <= LastDay => ~Occurs(r, anchor, e)
  <1>. DEFINE start == IF from < anchor THEN anchor ELSE from
              S == CASE r.frequency = "daily"   -> NextDaily(r, anchor, start)
                     [] r.frequency = "weekly"  -> NextWeekly(r, anchor, start)
                     [] r.frequency = "monthly" -> NextMonthly(r, anchor, start)
                     [] r.frequency = "yearly"  -> NextYearly(r, anchor, start)
                     [] OTHER                   -> {}
              o == nextOccurrenceOnOrAfter(r, anchor, from)
  <1>1. start \in Days /\ anchor <= start /\ from <= start /\ (start = from \/ start = anchor)
    BY DEF Days
  <1>2. o = FirstOf(S \cap Days)
    BY DEF nextOccurrenceOnOrAfter
  <1>. HIDE DEF start, o
  <1>3. Searches(S, r, anchor, start) /\ Reaches(S, r, anchor, start)
    <2>1. CASE r \in DailyRules
      <3>1. S = NextDaily(r, anchor, start)
        BY <2>1 DEF DailyRules
      <3>. QED  BY <1>1, <2>1, <3>1, DailySearches
    <2>2. CASE r \in WeeklyRules
      <3>1. S = NextWeekly(r, anchor, start)
        BY <2>2 DEF WeeklyRules
      <3>. QED  BY <1>1, <2>2, <3>1, WeeklySearches
    <2>3. CASE r \in MonthlyRules
      <3>1. S = NextMonthly(r, anchor, start)
        BY <2>3 DEF MonthlyRules
      <3>. QED  BY <1>1, <2>3, <3>1, MonthlySearches
    <2>4. CASE r \in YearlyRules
      <3>1. S = NextYearly(r, anchor, start)
        BY <2>4 DEF YearlyRules
      <3>. QED  BY <1>1, <2>4, <3>1, YearlySearches
    <2>. QED  BY <2>1, <2>2, <2>3, <2>4
         DEF isValidRule, DailyRules, WeeklyRules, MonthlyRules, YearlyRules
  <1>. HIDE DEF S
  <1>4. o \in Days \cup {NoDay}
    BY <1>2 DEF FirstOf
  <1>5. ASSUME o # NoDay
        PROVE  o >= from /\ Occurs(r, anchor, o) /\ \A e \in from..(o - 1) : ~Occurs(r, anchor, e)
    <2>1. o \in S \cap Days /\ \A f \in S \cap Days : o <= f
      BY <1>2, <1>5, FirstOfIs
    <2>2. o >= start /\ Occurs(r, anchor, o)
      BY <1>3, <2>1 DEF Searches
    <2>3. ASSUME NEW e \in from..(o - 1), Occurs(r, anchor, e) PROVE FALSE
      <3>1. e >= anchor
        BY <2>3 DEF Occurs
      <3>2. e \in Nat /\ e >= start /\ e < o
        BY <1>1, <2>1, <3>1 DEF Days
      <3>3. e \in start..(o - 1)
        BY <1>1, <2>1, <3>2 DEF Days
      <3>4. PICK f \in S \cap Days : f <= e
        BY <1>3, <2>1, <2>3, <3>3 DEF Searches
      <3>. QED  BY <2>1, <3>2, <3>4 DEF Days
    <2>. QED  BY <1>1, <2>1, <2>2, <2>3 DEF Days
  <1>6. ASSUME SearchesReach, o = NoDay, NEW e \in from..(from + MAX_SEARCH_DAYS),
               e <= LastDay, Occurs(r, anchor, e)
        PROVE  FALSE
    <2>1. S \cap Days = {}
      BY <1>2, <1>6, NoFirst
    <2>2. e >= anchor
      BY <1>6 DEF Occurs
    <2>3. MAX_SEARCH_DAYS \in Nat
      BY CalendarAssumption
    <2>4. e \in start..(start + MAX_SEARCH_DAYS)
      BY <1>1, <1>6, <2>2, <2>3 DEF Days
    <2>. QED  BY <1>3, <1>6, <2>1, <2>4 DEF Reaches
  <1>. QED  BY <1>4, <1>5, <1>6 DEF o

-----------------------------------------------------------------------------
(* The walk over what is done.                                           *)

(* A walk: each step asks again from the day after the last.             *)
IsWalk(f, r, anchor, from) ==
  /\ f \in [Nat -> Nat]
  /\ f[0] = nextOccurrenceOnOrAfter(r, anchor, from)
  /\ \A n \in Nat : f[n + 1] = nextOccurrenceOnOrAfter(r, anchor, f[n] + 1)

(* Where it may stop: at what is not done, with everything before done.  *)
Stops(f, closed) ==
  {n \in 0..(MAX_SKIPS - 1) : f[n] \notin closed /\ \A m \in 0..(n - 1) : f[m] \in closed}

(* And what it answers there.                                            *)
Answer(f, closed) == FirstOf({f[n] : n \in Stops(f, closed)} \cap Days)

(* The walk that is asked for exists, and the answer is where it stops.  *)
LEMMA WalkExists ==
  ASSUME NEW r, isValidRule(r), NEW anchor \in Days, NEW from \in Days, NEW closed \in SUBSET Days
  PROVE  \E f : /\ IsWalk(f, r, anchor, from)
                /\ currentOccurrence(r, anchor, from, closed) = Answer(f, closed)
  <1>. DEFINE next(d) == nextOccurrenceOnOrAfter(r, anchor, d)
              is(f) == f = [n \in Nat |-> next(IF n = 0 THEN from ELSE f[n - 1] + 1)]
              asked == CHOOSE f : is(f)
  <1>1. currentOccurrence(r, anchor, from, closed) = Answer(asked, closed)
    BY DEF currentOccurrence, Stops, Answer
  <1>2. ASSUME NEW d \in Days PROVE next(d) \in Nat
    BY NextIsFirst DEF Days, NoDay
  <1>. HIDE DEF next
  <1>3. PICK f \in [Nat -> Nat] : f[0] = next(from) /\ \A n \in Nat : f[n + 1] = next(f[n] + 1)
    <2>. DEFINE g == [n \in Nat |-> [x \in Nat |-> next(x + 1)]]
    <2>1. \A x \in Nat : next(x + 1) \in Nat
      BY <1>2 DEF Days, NoDay
    <2>2. g \in [Nat -> [Nat -> Nat]]
      BY <2>1
    <2>3. \A n \in Nat, x \in Nat : g[n][x] = next(x + 1)
      OBVIOUS
    <2>. HIDE DEF g
    <2>4. \A c \in Nat : \E f \in [Nat -> Nat] : f[0] = c /\ \A n \in Nat : f[n + 1] = g[n][f[n]]
      BY <2>2, RecursionExists
    <2>5. next(from) \in Nat
      BY <1>2
    <2>6. PICK f \in [Nat -> Nat] : f[0] = next(from) /\ \A n \in Nat : f[n + 1] = g[n][f[n]]
      BY <2>4, <2>5
    <2>. QED  BY <2>3, <2>6
  <1>4. is(f)
    <2>1. \A n \in Nat : f[n] = next(IF n = 0 THEN from ELSE f[n - 1] + 1)
      <3>. SUFFICES ASSUME NEW n \in Nat, n # 0 PROVE f[n] = next(f[n - 1] + 1)
        BY <1>3
      <3>1. n - 1 \in Nat /\ (n - 1) + 1 = n
        OBVIOUS
      <3>. QED  BY <1>3, <3>1
    <2>. QED  BY <2>1
  <1>5. is(asked)
    BY <1>4
  <1>. HIDE DEF asked
  <1>6. \A n \in Nat : asked[n] = next(IF n = 0 THEN from ELSE asked[n - 1] + 1)
    BY <1>5
  <1>7. asked[0] = next(from) /\ \A n \in Nat : asked[n + 1] = next(asked[n] + 1)
    <2>1. \A n \in Nat : n + 1 \in Nat /\ n + 1 # 0 /\ (n + 1) - 1 = n
      OBVIOUS
    <2>. QED  BY <1>6, <2>1
  <1>8. asked \in [Nat -> Nat]
    <2>. DEFINE T == {n \in Nat : asked[n] \in Nat}
    <2>1. 0 \in T
      BY <1>2, <1>7
    <2>2. ASSUME NEW n \in Nat, n \in T PROVE n + 1 \in T
      <3>1. asked[n] + 1 \in Days
        BY <2>2 DEF Days, NoDay
      <3>. QED  BY <1>2, <1>7, <3>1
    <2>3. Nat \subseteq T
      <3>. HIDE DEF T
      <3>. QED  BY <2>1, <2>2, Induction
    <2>4. \A n \in Nat : asked[n] \in Nat
      BY <2>3
    <2>. QED  BY <1>5, <2>4
  <1>9. IsWalk(asked, r, anchor, from)
    BY <1>7, <1>8 DEF IsWalk, next
  <1>. QED  BY <1>1, <1>9

(* The day a walk asks from next.                                        *)
AskedFrom(f, from, n) == IF n = 0 THEN from ELSE f[n - 1] + 1

(* A walk that has met only what is done has gone forward, a day or more *)
(* at a time, and left nothing open behind.                              *)
LEMMA WalkLeavesNothing ==
  ASSUME NEW r, isValidRule(r), NEW anchor \in Days, NEW from \in Days, NEW closed \in SUBSET Days,
         NEW f, IsWalk(f, r, anchor, from), NEW n \in Nat, \A m \in 0..(n - 1) : f[m] \in closed
  PROVE  LET x == AskedFrom(f, from, n)
         IN /\ x \in Days /\ x >= from /\ f[n] = nextOccurrenceOnOrAfter(r, anchor, x)
            /\ \A m \in 0..(n - 1) : f[m] < x
            /\ \A e \in from..(x - 1) : Occurs(r, anchor, e) => e \in closed
  <1>. DEFINE next(d) == nextOccurrenceOnOrAfter(r, anchor, d)
              At(k) == AskedFrom(f, from, k)
              Left(k) == /\ At(k) \in Days /\ At(k) >= from /\ f[k] = next(At(k))
                         /\ \A m \in 0..(k - 1) : f[m] < At(k)
                         /\ \A e \in from..(At(k) - 1) : Occurs(r, anchor, e) => e \in closed
              T == {k \in Nat : k <= n => Left(k)}
  <1>0. /\ f \in [Nat -> Nat] /\ f[0] = next(from)
        /\ \A k \in Nat : f[k + 1] = next(f[k] + 1)
    BY DEF IsWalk
  <1>1. ASSUME NEW d \in Days
        PROVE  next(d) # NoDay => /\ next(d) >= d
                                  /\ \A e \in d..(next(d) - 1) : ~Occurs(r, anchor, e)
    BY NextIsFirst
  <1>. HIDE DEF next
  <1>2. 0 \in T
    <2>1. At(0) = from
      BY DEF AskedFrom
    <2>. QED  BY <1>0, <2>1 DEF Days
  <1>3. ASSUME NEW k \in Nat, k \in T PROVE k + 1 \in T
    <2>. SUFFICES ASSUME k + 1 <= n PROVE Left(k + 1)
      OBVIOUS
    <2>. DEFINE a == At(k)
                b == f[k]
    <2>1. At(k + 1) = b + 1
      BY DEF AskedFrom
    <2>2. b \in closed /\ b \in Days /\ b \in Nat
      <3>1. k \in 0..(n - 1)
        OBVIOUS
      <3>. QED  BY <1>0, <3>1
    <2>3. Left(k)
      BY <1>3
    <2>4. /\ a \in Days /\ a >= from /\ b = next(a)
          /\ \A m \in 0..(k - 1) : f[m] < a
          /\ \A e \in from..(a - 1) : Occurs(r, anchor, e) => e \in closed
      BY <2>3
    <2>. HIDE DEF a, T
    <2>5. b >= a /\ \A e \in a..(b - 1) : ~Occurs(r, anchor, e)
      BY <1>1, <2>2, <2>4 DEF Days
    <2>6. b + 1 \in Days /\ b + 1 >= from /\ f[k + 1] = next(b + 1)
      BY <1>0, <2>2, <2>4, <2>5 DEF Days, NoDay
    <2>7. ASSUME NEW m \in 0..((k + 1) - 1) PROVE f[m] < b + 1
      <3>1. CASE m = k
        BY <2>2, <3>1
      <3>2. CASE m # k
        <4>1. m \in 0..(k - 1) /\ f[m] \in Nat
          BY <1>0, <3>2
        <4>. QED  BY <2>2, <2>4, <2>5, <4>1 DEF Days
      <3>. QED  BY <3>1, <3>2
    <2>8. ASSUME NEW e \in from..((b + 1) - 1), Occurs(r, anchor, e) PROVE e \in closed
      <3>1. e \in from..(a - 1) \/ e \in a..(b - 1) \/ e = b
        BY <2>2, <2>4 DEF Days
      <3>. QED  BY <2>2, <2>4, <2>5, <2>8, <3>1
    <2>. HIDE DEF b
    <2>. QED  BY <2>1, <2>6, <2>7, <2>8
  <1>4. n \in T
    <2>. HIDE DEF T
    <2>. QED  BY <1>2, <1>3, Induction
  <1>5. Left(n)
    BY <1>4
  <1>. QED  BY <1>5 DEF next

(* The walk stops, if anywhere, at the first day the rule means that is  *)
(* not done (currentOccurrence).                                         *)
LEMMA CurrentIsFirst ==
  ASSUME NEW r, isValidRule(r), NEW anchor \in Days, NEW from \in Days, NEW closed \in SUBSET Days,
         currentOccurrence(r, anchor, from, closed) # NoDay
  PROVE  LET o == currentOccurrence(r, anchor, from, closed)
         IN /\ o \in Days /\ o >= from /\ Occurs(r, anchor, o) /\ o \notin closed
            /\ \A e \in from..(o - 1) : Occurs(r, anchor, e) => e \in closed
  <1>1. PICK f : /\ IsWalk(f, r, anchor, from)
                 /\ currentOccurrence(r, anchor, from, closed) = Answer(f, closed)
    BY WalkExists
  <1>. DEFINE o == currentOccurrence(r, anchor, from, closed)
              S == {f[n] : n \in Stops(f, closed)} \cap Days
  <1>2. o # NoDay
    OBVIOUS
  <1>. HIDE DEF o
  <1>3. o \in S
    <2>1. S \subseteq Days /\ FirstOf(S) # NoDay /\ o = FirstOf(S)
      BY <1>1, <1>2 DEF o, Answer
    <2>. HIDE DEF S
    <2>. QED  BY <2>1, FirstOfIs
  <1>4. PICK n \in Stops(f, closed) : o = f[n] /\ o \in Days
    BY <1>3
  <1>5. n \in Nat /\ o \notin closed /\ \A m \in 0..(n - 1) : f[m] \in closed
    BY <1>4 DEF Stops
  <1>6. PICK x \in Days : /\ x >= from /\ f[n] = nextOccurrenceOnOrAfter(r, anchor, x)
                          /\ \A e \in from..(x - 1) : Occurs(r, anchor, e) => e \in closed
    BY <1>1, <1>5, WalkLeavesNothing
  <1>7. /\ o >= x /\ Occurs(r, anchor, o)
        /\ \A e \in x..(o - 1) : ~Occurs(r, anchor, e)
    BY <1>2, <1>4, <1>6, NextIsFirst
  <1>8. ASSUME NEW e \in from..(o - 1), Occurs(r, anchor, e) PROVE e \in closed
    <2>1. e \in from..(x - 1) \/ e \in x..(o - 1)
      BY <1>4, <1>6 DEF Days
    <2>. QED  BY <1>6, <1>7, <1>8, <2>1
  <1>9. o >= from
    BY <1>4, <1>6, <1>7 DEF Days
  <1>. QED  BY <1>4, <1>5, <1>7, <1>8, <1>9 DEF o

(* It stops nowhere only if nothing is open as far as a search looks,    *)
(* unless more is done than it walks past.                               *)
LEMMA NoneIsOpen ==
  ASSUME NEW r, isValidRule(r), NEW anchor \in Days, NEW from \in Days, NEW closed \in SUBSET Days,
         IsFiniteSet(closed), Cardinality(closed) < MAX_SKIPS, SearchesReach,
         currentOccurrence(r, anchor, from, closed) = NoDay
  PROVE  \A e \in from..(from + MAX_SEARCH_DAYS) :
           e <= LastDay /\ Occurs(r, anchor, e) => e \in closed
  <1>0. MAX_SKIPS \in Nat \ {0} /\ MAX_SEARCH_DAYS \in Nat
    BY CalendarAssumption
  <1>1. PICK f : IsWalk(f, r, anchor, from) /\ Answer(f, closed) = NoDay
    BY WalkExists
  <1>2. \A n \in Stops(f, closed) : f[n] \notin Days
    <2>. DEFINE S == {f[n] : n \in Stops(f, closed)} \cap Days
    <2>1. S = {}
      <3>1. S \subseteq Days /\ FirstOf(S) = NoDay
        BY <1>1 DEF Answer
      <3>. HIDE DEF S
      <3>. QED  BY <3>1, NoFirst
    <2>. QED  BY <2>1
  <1>w. ASSUME NEW n \in Nat, \A m \in 0..(n - 1) : f[m] \in closed
        PROVE  LET x == AskedFrom(f, from, n)
               IN /\ x \in Days /\ x >= from /\ f[n] = nextOccurrenceOnOrAfter(r, anchor, x)
                  /\ \A m \in 0..(n - 1) : f[m] < x
                  /\ \A e \in from..(x - 1) : Occurs(r, anchor, e) => e \in closed
    <2>1. IsWalk(f, r, anchor, from)
      BY <1>1
    <2>. QED  BY <1>w, <2>1, WalkLeavesNothing
  <1>. DEFINE K == 0..(MAX_SKIPS - 1)
              Open == {n \in K : f[n] \notin closed}
  <1>3. Open # {}
    <2>. SUFFICES ASSUME \A n \in K : f[n] \in closed PROVE FALSE
      OBVIOUS
    <2>1. f \in [Nat -> Nat]
      BY <1>1 DEF IsWalk
    <2>2. ASSUME NEW m \in K, NEW n \in K, m < n PROVE f[m] < f[n]
      <3>1. n \in Nat /\ m \in 0..(n - 1) /\ \A k \in 0..(n - 1) : f[k] \in closed
        BY <1>0, <2>2
      <3>2. PICK x \in Days : /\ f[n] = nextOccurrenceOnOrAfter(r, anchor, x)
                              /\ \A k \in 0..(n - 1) : f[k] < x
        BY <1>w, <3>1
      <3>3. f[n] \in Days /\ f[m] \in Days
        BY <2>2
      <3>4. f[n] >= x
        BY <3>2, <3>3, NextIsFirst DEF Days
      <3>. QED  BY <3>1, <3>2, <3>3, <3>4 DEF Days
    <2>. DEFINE g == [n \in K |-> f[n]]
    <2>3. g \in [K -> closed]
      OBVIOUS
    <2>4. IsFiniteSet(K) /\ Cardinality(K) = MAX_SKIPS
      BY <1>0, FS_Interval
    <2>5. ASSUME NEW m \in K, NEW n \in K, m # n PROVE g[m] # g[n]
      <3>1. m < n \/ n < m
        BY <1>0, <2>5
      <3>2. f[m] \in Nat /\ f[n] \in Nat
        BY <1>0, <2>1
      <3>. QED  BY <2>2, <3>1, <3>2
    <2>. HIDE DEF g, K
    <2>. QED  BY <2>3, <2>4, <2>5, FS_PigeonHole
  <1>4. PICK n \in Open : \A m \in Open : n <= m
    <2>1. Open \subseteq Nat
      BY <1>0
    <2>. HIDE DEF Open
    <2>. QED  BY <1>3, <2>1, LeastNatural
  <1>5. /\ n \in Nat /\ n \in Stops(f, closed)
        /\ \A m \in 0..(n - 1) : f[m] \in closed
    <2>1. ASSUME NEW m \in 0..(n - 1) PROVE f[m] \in closed
      <3>1. m \in K /\ ~(n <= m)
        BY <1>0
      <3>. QED  BY <1>4, <3>1
    <2>. QED  BY <1>0, <2>1 DEF Stops
  <1>. HIDE DEF K, Open
  <1>6. PICK x \in Days : /\ x >= from /\ f[n] = nextOccurrenceOnOrAfter(r, anchor, x)
                          /\ \A e \in from..(x - 1) : Occurs(r, anchor, e) => e \in closed
    BY <1>1, <1>5, WalkLeavesNothing
  <1>7. nextOccurrenceOnOrAfter(r, anchor, x) = NoDay
    <2>1. nextOccurrenceOnOrAfter(r, anchor, x) \in Days \cup {NoDay}
      BY <1>6, NextIsFirst
    <2>. QED  BY <1>2, <1>5, <1>6, <2>1
  <1>8. \A e \in x..(x + MAX_SEARCH_DAYS) : e <= LastDay => ~Occurs(r, anchor, e)
    BY <1>6, <1>7, NextIsFirst
  <1>9. ASSUME NEW e \in from..(from + MAX_SEARCH_DAYS), e <= LastDay, Occurs(r, anchor, e)
        PROVE  e \in closed
    <2>1. e \in from..(x - 1) \/ e \in x..(x + MAX_SEARCH_DAYS)
      BY <1>0, <1>6 DEF Days
    <2>. QED  BY <1>6, <1>8, <1>9, <2>1
  <1>. QED  BY <1>9

-----------------------------------------------------------------------------
(* The day asked for.                                                      *)

(* An action that repeats and asks for a day asks for the first day its    *)
(* rule means, from today on, that is not done.                            *)
LEMMA AskedStep == TypeOK => AskedIsFirstOpen
<1> SUFFICES ASSUME TypeOK, NEW i \in Stored, Repeats(i), occurrenceFor(i) # NoDay
             PROVE  /\ occurrenceFor(i) >= today /\ IsOpen(i, occurrenceFor(i))
                    /\ \A d \in today..(occurrenceFor(i) - 1) : ~IsOpen(i, d)
  BY DEF AskedIsFirstOpen
<1>1. i \in Ids /\ acts[i] \in Action /\ today \in Days /\ done[i] \in SUBSET Days
  BY DEF TypeOK, Stored
<1>2. isValidRule(acts[i].rule)
  BY <1>1, ActionsAssumption DEF Action, Repeats
<1>3. Anchor(i) \in Days
  BY <1>1 DEF Action, Anchor
<1>4. /\ occurrenceFor(i) >= today
      /\ Occurs(acts[i].rule, Anchor(i), occurrenceFor(i)) /\ occurrenceFor(i) \notin done[i]
      /\ \A d \in today..(occurrenceFor(i) - 1) :
           Occurs(acts[i].rule, Anchor(i), d) => d \in done[i]
  BY <1>1, <1>2, <1>3, CurrentIsFirst DEF occurrenceFor
<1> QED BY <1>4 DEF IsOpen

(* However a repeating action came to its rule, its anchor and the days it *)
(* was done on, the day it asks for is the first open one: no occurrence   *)
(* is passed over and none that is done is asked for again.                *)
THEOREM AskedCorrect == Spec => []AskedIsFirstOpen
<1> QED BY AskedStep, TypeCorrect, PTL

(* The calendar reaches as far as a search from today looks, and no more   *)
(* is done than a walk goes past.                                          *)
ReachInv ==
  /\ today \in StartDays \/ today <= MaxDay
  /\ \A i \in Ids : IsFiniteSet(done[i]) /\ Cardinality(done[i]) <= MaxDone

LEMMA ReachInit == Init => ReachInv
BY FS_EmptySet, ActionsAssumption DEF Init, ReachInv

LEMMA ReachStep == TypeOK /\ ReachInv /\ [Next]_vars => ReachInv'
<1> SUFFICES ASSUME TypeOK, ReachInv, [Next]_vars PROVE ReachInv'
  OBVIOUS
<1>0. MaxDone \in Nat /\ MaxDay \in Nat /\ Repeating \subseteq Ids
  BY ActionsAssumption
<1>1. ASSUME NEW i \in Ids, completeOccurrence(i) PROVE ReachInv'
  <2>1. PICK day : done' = [done EXCEPT ![i] = @ \cup {day}]
    BY <1>1 DEF completeOccurrence
  <2>2. /\ IsFiniteSet(done[i]) /\ Cardinality(done[i]) < MaxDone /\ today' = today
        /\ Cardinality(done[i]) \in Nat
    BY <1>1, FS_CardinalityType DEF completeOccurrence, ReachInv
  <2>3. IsFiniteSet(done[i] \cup {day}) /\ Cardinality(done[i] \cup {day}) <= MaxDone
    <3>1. /\ IsFiniteSet(done[i] \cup {day})
          /\ Cardinality(done[i] \cup {day})
               = IF day \in done[i] THEN Cardinality(done[i]) ELSE Cardinality(done[i]) + 1
      BY <2>2, FS_AddElement
    <3> QED BY <1>0, <2>2, <3>1
  <2> QED BY <2>1, <2>2, <2>3 DEF ReachInv, TypeOK
<1>2. ASSUME NEW i \in Ids, uncompleteOccurrence(i) PROVE ReachInv'
  <2>1. PICK day \in done[i] : done' = [done EXCEPT ![i] = @ \ {day}]
    BY <1>2 DEF uncompleteOccurrence
  <2>2. /\ IsFiniteSet(done[i]) /\ Cardinality(done[i]) <= MaxDone /\ today' = today
        /\ Cardinality(done[i]) \in Nat
    BY <1>2, FS_CardinalityType DEF uncompleteOccurrence, ReachInv
  <2>3. IsFiniteSet(done[i] \ {day}) /\ Cardinality(done[i] \ {day}) <= MaxDone
    <3>1. /\ IsFiniteSet(done[i] \ {day})
          /\ Cardinality(done[i] \ {day})
               = IF day \in done[i] THEN Cardinality(done[i]) - 1 ELSE Cardinality(done[i])
      BY <2>2, FS_RemoveElement
    <3> QED BY <1>0, <2>2, <3>1
  <2> QED BY <2>1, <2>2, <2>3 DEF ReachInv, TypeOK
<1>3. ASSUME NEW i \in Ids, deleteAction(i) PROVE ReachInv'
  <2>1. IsFiniteSet({}) /\ Cardinality({}) <= MaxDone
    BY <1>0, FS_EmptySet
  <2> QED BY <1>3, <2>1 DEF deleteAction, ReachInv, TypeOK
<1>4. CASE NextDay
  BY <1>0, <1>4 DEF NextDay, ReachInv, TypeOK, Days
<1>5. CASE UNCHANGED <<today, done>>
  BY <1>5 DEF ReachInv
<1> QED BY <1>0, <1>1, <1>2, <1>3, <1>4, <1>5
  DEF Next, vars, createAction, startAction, pauseAction, completeAction, markActionWaiting,
      stopWaiting, deferAction, cancelAction, reopenAction, restoreAction, setActionDueDate,
      addActionDependency, removeActionDependency, setActionRecurrence, stopActionRecurrence,
      batchAction, LeaveSession, returnDueActions

(* An action that repeats asks for no day only if its rule gives none that *)
(* is open as far as the weekly search looks, provided the bounds are      *)
(* within reach of each other.                                             *)
LEMMA UnaskedStep ==
  ASSUME WithinReach, TypeOK, ReachInv, NEW i \in Stored, Repeats(i), occurrenceFor(i) = NoDay,
         NEW d \in today..(today + MAX_SEARCH_DAYS)
  PROVE  ~IsOpen(i, d)
<1>1. i \in Ids /\ acts[i] \in Action /\ today \in Days /\ done[i] \in SUBSET Days
  BY DEF TypeOK, Stored
<1>2. isValidRule(acts[i].rule)
  BY <1>1, ActionsAssumption DEF Action, Repeats
<1>3. Anchor(i) \in Days
  BY <1>1 DEF Action, Anchor
<1>4. IsFiniteSet(done[i]) /\ Cardinality(done[i]) < MAX_SKIPS
  BY <1>1, FS_CardinalityType, ActionsAssumption, CalendarAssumption DEF ReachInv, WithinReach
<1>5. d <= LastDay
  <2>1. MAX_SEARCH_DAYS \in Nat /\ LastDay \in Int /\ MaxDay \in Nat
    BY CalendarAssumption, FirstDays, ActionsAssumption DEF LastDay
  <2>2. today + MAX_SEARCH_DAYS <= LastDay
    <3>1. \A e \in StartDays \cup {MaxDay} : e + MAX_SEARCH_DAYS <= LastDay
      BY DEF WithinReach
    <3>2. CASE today \in StartDays
      BY <3>1, <3>2
    <3>3. CASE today <= MaxDay
      BY <1>1, <2>1, <3>1, <3>3 DEF Days
    <3> QED BY <3>2, <3>3 DEF ReachInv
  <2> QED BY <1>1, <2>1, <2>2 DEF Days
<1>6. SearchesReach
  BY DEF WithinReach
<1>7. \A e \in today..(today + MAX_SEARCH_DAYS) :
        e <= LastDay /\ Occurs(acts[i].rule, Anchor(i), e) => e \in done[i]
  BY <1>1, <1>2, <1>3, <1>4, <1>6, NoneIsOpen DEF occurrenceFor
<1> QED BY <1>5, <1>7 DEF IsOpen

(* With searches that look as far as each other, as those of the code do,  *)
(* a walk longer than what is done and a calendar that does not end, a     *)
(* repeating action asks for the first open day if there is any, and for   *)
(* none otherwise.                                                         *)
THEOREM FirstOpenCorrect == ASSUME WithinReach PROVE Spec => []AsksForFirstOpen
<1>1. TypeOK /\ ReachInv => AsksForFirstOpen
  BY AskedStep, UnaskedStep DEF AsksForFirstOpen
<1> QED BY <1>1, ReachInit, ReachStep, TypeCorrect, PTL DEF Spec
=============================================================================
