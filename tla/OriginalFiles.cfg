\* Uploads, retries and a removal, with failing calls, lost answers and a reload.
SPECIFICATION FairSpec
CONSTANTS
  r1 = r1
  r2 = r2
  Runs <- MCRuns
  Env = {"fail", "lost", "auth", "reload"}
  MaxStarts = 4
  MaxFaults = 4
  Null = Null
INVARIANTS
  TypeOK
  StoredIsBacked
  RemovedLeavesNothing
PROPERTIES
  UploadsEnd
CHECK_DEADLOCK FALSE
