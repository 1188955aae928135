\* Convergence when sessions change only while the tab is quiet.
SPECIFICATION Spec
CONSTANTS
  NDomains = 2
  Kind <- KindRowGuarded
  Gateable = {2}
  Wiped = {1}
  OldServer = TRUE
  MaxAutoRetries = 1
  Env = {"remove", "offline", "net", "upgrade", "manual", "probe", "other", "refresh", "reload"}
  MaxClock = 4
  MaxFaults = 1
  MaxSessions = 1
  MaxOrphans = 0
  Null = Null
ACTION_CONSTRAINT CalmSessions
INVARIANTS
  AgreesAtRest
  NeverStranded
PROPERTIES
  PushErasesNothing
  AdoptionKeepsLocalOnly
CHECK_DEADLOCK FALSE
