-------------------------- MODULE MCOriginalBackup --------------------------
(* OriginalBackup for TLC: two uploads of one document's original.         *)
EXTENDS OriginalBackup

CONSTANTS r1, r2

MCRuns == {r1, r2}
=============================================================================
