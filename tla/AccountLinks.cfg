\* Callbacks, refreshes and a disconnect at once, with failing calls and a crash.
SPECIFICATION Spec
CONSTANTS
  s1 = s1
  s2 = s2
  c1 = c1
  c2 = c2
  r1 = r1
  States <- MCStates
  Callbacks <- MCCallbacks
  Readers <- MCReaders
  Env = {"meta", "vault", "provider", "revoke", "crash"}
  MaxGrants = 2
  Null = Null
INVARIANTS
  TypeOK
  ConnectedIsWhole
  NoOrphanSecret
CHECK_DEADLOCK FALSE
