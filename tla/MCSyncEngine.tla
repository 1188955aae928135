---------------------------- MODULE MCSyncEngine ----------------------------
(* SyncEngine for TLC: the constants of the runs.                          *)
EXTENDS SyncEngine

KindRowGuarded  == <<"row", "guarded">>
KindBulkGuarded == <<"bulk", "guarded">>
=============================================================================
