--------------------------- MODULE MCGuardedPush ---------------------------
(* GuardedPush for TLC: two interchangeable devices of one account.       *)
EXTENDS GuardedPush, TLC

CONSTANTS d1, d2

MCDevices == {d1, d2}
DeviceSymmetry == Permutations(MCDevices)
=============================================================================
