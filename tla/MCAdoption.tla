------------------------------ MODULE MCAdoption ------------------------------
(* Adoption for TLC: one recurring action, two completions of its          *)
(* occurrence.                                                             *)
EXTENDS Adoption, TLC

CONSTANTS d1, d2, p1, p2, a1, c1, c2

MCDevices == {d1, d2}
OneDevice == {d1}
MCPeople  == {p1, p2}
OnePerson == {p1}
MCSymmetry == Permutations(MCDevices) \cup Permutations(MCPeople) \cup Permutations({c1, c2})
MCActionOf == (c1 :> a1 @@ c2 :> a1)
=============================================================================
