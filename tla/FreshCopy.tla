----------------------------- MODULE FreshCopy -----------------------------
(***************************************************************************)
(* What a projection kept up to date by re-reading its source promises, as *)
(* src/lib/billing/sync.ts (lines 1-40) describes it.  Time is counted in  *)
(* the seconds the source stamps its events with.  The copy shows the      *)
(* source as it was at some second no earlier than a floor, and the floor  *)
(* never goes back; what the copy shows may, but never below the floor.    *)
(***************************************************************************)
EXTENDS Naturals

VARIABLES
  truth,   \* the second the source has reached
  floor,   \* the second of the newest event taken over
  copy     \* the second the source was read at

Init == truth = 0 /\ floor = 0 /\ copy = 0

Advance == truth' >= truth /\ UNCHANGED <<floor, copy>>

TakeOver ==
  /\ floor' >= floor /\ copy' >= floor' /\ copy' <= truth
  /\ UNCHANGED truth

Next == Advance \/ TakeOver

Spec == Init /\ [][Next]_<<truth, floor, copy>>
=============================================================================
