--------------------------- MODULE MCSessionGate ---------------------------
(* SessionGate for TLC: two accounts, one of them subscribed.              *)
EXTENDS SessionGate

CONSTANTS a, b

MCPersons    == {a, b}
MCSubscribed == {a}
=============================================================================
