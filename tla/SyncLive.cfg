\* Failed calls, lost answers, a capability that comes late or never, and liveness.
SPECIFICATION FairSpec
CONSTANTS
  NDomains = 2
  Kind <- KindBulkGuarded
  Gateable = {2}
  Wiped = {1}
  OldServer = TRUE
  MaxAutoRetries = 1
  Env = {"remove", "net", "lost", "refresh", "upgrade", "probe"}
  MaxClock = 3
  MaxFaults = 2
  MaxSessions = 1
  MaxOrphans = 0
  Null = Null
INVARIANTS
  TypeOK
  BaselineConfirmed
PROPERTIES
  SyncedFlushIsConfirmed
  WorkArrivesOrIsReported
CHECK_DEADLOCK FALSE
