\* Session events, reloads, a wipe, failed local writes, tables that read as empty.
SPECIFICATION Spec
CONSTANTS
  NDomains = 2
  Kind <- KindBulkGuarded
  Gateable = {}
  Wiped = {1}
  OldServer = FALSE
  MaxAutoRetries = 1
  Env = {"refresh", "reload", "signout", "disk", "read", "wipe", "net"}
  MaxClock = 3
  MaxFaults = 1
  MaxSessions = 2
  MaxOrphans = 0
  Null = Null
INVARIANTS
  UnsentIsVisible
CHECK_DEADLOCK FALSE
