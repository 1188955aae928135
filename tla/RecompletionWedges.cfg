\* An occurrence undone and completed again on one device.
SPECIFICATION FairSpec
CONSTANTS
  d1 = d1
  d2 = d2
  p1 = p1
  p2 = p2
  a1 = a1
  c1 = c1
  c2 = c2
  Devices <- OneDevice
  People <- OnePerson
  Actions = {a1}
  Completions = {c1, c2}
  ActionOf <- MCActionOf
  Env = {"complete", "undo"}
  MaxClock = 4
  MaxFaults = 0
  MaxSessions = 0
  Null = Null
PROPERTIES
  QueuedArrives
CHECK_DEADLOCK FALSE
