------------------------------ MODULE MCBilling ------------------------------
(* Billing for TLC: two clicks on Subscribe, a subscription made in the    *)
(* dashboard, two webhook requests at a time.                              *)
EXTENDS Billing

CONSTANTS c1, c2, o1, h1, h2

MCCheckouts == {c1, c2}
MCOutside   == {o1}
MCHandlers  == {h1, h2}
=============================================================================
