---------------------------- MODULE MCAccountLink ----------------------------
(* AccountLink for TLC: two states, two callbacks, one reader.           *)
EXTENDS AccountLink

CONSTANTS s1, s2, c1, c2, r1

MCStates    == {s1, s2}
MCCallbacks == {c1, c2}
MCReaders   == {r1}
=============================================================================
