------------------------------ MODULE Recurrence ------------------------------
(***************************************************************************)
(* The schedule of a repeating action (src/lib/time/recurrence.ts): which  *)
(* day it asks for, given its rule, its anchor and the days already done.  *)
(*                                                                         *)
(* A day is its ordinal: day 1 is January 1 of the year Year0 and falls on *)
(* Weekday1.  A month is numbered from January of Year0, month 0.  The     *)
(* calendar reaches Months months; the code's reaches as far as Date does. *)
(***************************************************************************)
EXTENDS Integers, FiniteSets

CONSTANTS
  Year0, Weekday1,
  Months,           \* bound: the calendar ends here
  MAX_SEARCH_DAYS,  \* how far the weekly search looks, 366 * 8 in the code
  MAX_MONTHS,       \* how many months the monthly search tries, 200
  MAX_YEARS,        \* how many years the yearly search tries, 12
  MAX_SKIPS         \* how many done occurrences are walked over, 400

ASSUME CalendarAssumption ==
  /\ Year0 \in Nat /\ Weekday1 \in 0..6
  /\ {Months, MAX_SEARCH_DAYS, MAX_MONTHS, MAX_YEARS, MAX_SKIPS} \subseteq Nat \ {0}

NoDay == 0          \* null, undefined: no day at all
Days  == Nat \ {NoDay}

-----------------------------------------------------------------------------
(* The calendar.                                                           *)

isLeap(y) == (y % 4 = 0 /\ y % 100 # 0) \/ y % 400 = 0

daysInMonth(k) ==
  LET m == k % 12
  IN IF m = 1 THEN IF isLeap(Year0 + k \div 12) THEN 29 ELSE 28
     ELSE IF m \in {3, 5, 8, 10} THEN 30 ELSE 31

(* What Date.UTC and getUTCDay know: the first day of each month, the      *)
(* month a day is in, its place in it, and its weekday.  The days after    *)
(* the calendar are in the month after its last.                           *)
FirstDay ==
  LET first[k \in 0..Months] == IF k = 0 THEN 1 ELSE first[k - 1] + daysInMonth(k - 1)
  IN [k \in 0..Months |-> first[k]]
LastDay == FirstDay[Months] - 1

Month == [d \in 1..LastDay |->
            CHOOSE k \in 0..(Months - 1) : FirstDay[k] <= d /\ d < FirstDay[k + 1]]
MonthOf(d) == IF d <= LastDay THEN Month[d] ELSE Months
dayOf(d)     == d - FirstDay[MonthOf(d)] + 1
yearOf(d)    == MonthOf(d) \div 12
weekdayOf(d) == (d - 1 + Weekday1) % 7
weekStart(d) == d - weekdayOf(d)

-----------------------------------------------------------------------------
(* Rules.                                                                  *)

NoRule == [frequency |-> "none"]
Longest == <<31, 29, 31, 30, 31, 30, 31, 31, 30, 31, 30, 31>>

isValidRule(r) ==
  \/ r \in [frequency : {"daily"}, interval : 1..366]
  \/ r \in [frequency : {"weekly"}, interval : 1..366, weekdays : SUBSET (0..6) \ {{}}]
  \/ r \in [frequency : {"monthly"}, interval : 1..366, dayOfMonth : 1..31]
  \/ /\ r \in [frequency : {"yearly"}, interval : 1..366, dayOfMonth : 1..31, month : 0..11]
     /\ r.dayOfMonth <= Longest[r.month + 1]

-----------------------------------------------------------------------------
(* The search.                                                             *)

FirstOf(S) == IF \E d \in S : \A e \in S : d <= e
              THEN CHOOSE d \in S : \A e \in S : d <= e
              ELSE NoDay

Ceil(a, b) == -((-a) \div b)
AtLeast0(n) == IF n < 0 THEN 0 ELSE n

(* Mutant: a month without the day takes its last.                         *)
DaysClamped(ks, dom, start) ==
  {d \in {FirstDay[k] + (IF dom <= daysInMonth(k) THEN dom ELSE daysInMonth(k)) - 1 :
             k \in {j \in ks : j < Months}} : d >= start}

(* Day dom of each of these months, the months without it skipped.         *)
DaysIn(ks, dom, start) ==
  {d \in {FirstDay[k] + dom - 1 : k \in {j \in ks : j < Months /\ dom <= daysInMonth(j)}} :
     d >= start}

NextDaily(r, anchor, start) ==
  {anchor + Ceil(start - anchor, r.interval) * r.interval}

NextWeekly(r, anchor, start) ==
  {d \in start..(start + MAX_SEARCH_DAYS) :
     /\ weekdayOf(d) \in r.weekdays
     /\ LET weeksApart == (weekStart(d) - weekStart(anchor)) \div 7
        IN weeksApart >= 0 /\ weeksApart % r.interval = 0}

NextMonthly(r, anchor, start) ==
  LET apart == MonthOf(start) - MonthOf(anchor) - (IF dayOf(start) <= r.dayOfMonth THEN 1 ELSE 0)
      step  == AtLeast0(Ceil(apart, r.interval) * r.interval)
  IN DaysIn({MonthOf(anchor) + step + n * r.interval : n \in 0..(MAX_MONTHS - 1)},
            r.dayOfMonth, start)

NextYearly(r, anchor, start) ==
  LET off   == (yearOf(start) - yearOf(anchor)) % r.interval
      first == IF off = 0 THEN yearOf(start) ELSE yearOf(start) + r.interval - off
      tries == IF off = 0 THEN MAX_YEARS ELSE MAX_YEARS - 1
  IN DaysIn({12 * (first + n * r.interval) + r.month : n \in 0..(tries - 1)},
            r.dayOfMonth, start)

nextOccurrenceOnOrAfter(r, anchor, from) ==
  LET start == IF from < anchor THEN anchor ELSE from
  IN FirstOf((CASE r.frequency = "daily"   -> NextDaily(r, anchor, start)
                          [] r.frequency = "weekly"  -> NextWeekly(r, anchor, start)
                          [] r.frequency = "monthly" -> NextMonthly(r, anchor, start)
                          [] r.frequency = "yearly"  -> NextYearly(r, anchor, start)
                          [] OTHER                   -> {}) \cap Days)

(* The walk over what is done already: each step asks again from the day   *)
(* after a done occurrence, at most MAX_SKIPS times.                       *)
currentOccurrence(r, anchor, from, done) ==
  LET asked[n \in Nat] ==
        nextOccurrenceOnOrAfter(r, anchor, IF n = 0 THEN from ELSE asked[n - 1] + 1)
      stops == {n \in 0..(MAX_SKIPS - 1) :
                  /\ asked[n] \notin done
                  /\ \A m \in 0..(n - 1) : asked[m] \in done}
  IN FirstOf({asked[n] : n \in stops} \cap Days)

-----------------------------------------------------------------------------
(* What the rule means, said without a search: the reference the search is *)
(* checked against.  Every other Tuesday counts the weeks from the         *)
(* anchor's own; a month without the day has no occurrence.                *)
Occurs(r, anchor, d) ==
  /\ d >= anchor
  /\ \/ r.frequency = "daily" /\ (d - anchor) % r.interval = 0
     \/ /\ r.frequency = "weekly"
        /\ \E e \in weekStart(anchor)..(weekStart(anchor) + 6) :
             weekdayOf(e) \in r.weekdays /\ (d - e) % (7 * r.interval) = 0
     \/ /\ r.frequency = "monthly"
        /\ dayOf(d) = r.dayOfMonth
        /\ (MonthOf(d) - MonthOf(anchor)) % r.interval = 0
     \/ /\ r.frequency = "yearly"
        /\ dayOf(d) = r.dayOfMonth /\ MonthOf(d) % 12 = r.month
        /\ (yearOf(d) - yearOf(anchor)) % r.interval = 0

(* The searches by month and by year look no less far than the one by      *)
(* week, whatever the interval: 2928 days against 200 months and 12 years. *)
(* A month has at least 28 days, and a year twelve of them.                *)
SearchesReach ==
  /\ MAX_SEARCH_DAYS <= 28 * (MAX_MONTHS - 4)
  /\ MAX_SEARCH_DAYS <= 12 * 28 * (MAX_YEARS - 3)
=============================================================================
