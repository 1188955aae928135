\* One recurring action on two devices, two people, everything that can fail.
SPECIFICATION Spec
CONSTANTS
  d1 = d1
  d2 = d2
  p1 = p1
  p2 = p2
  a1 = a1
  c1 = c1
  c2 = c2
  Devices <- MCDevices
  People <- MCPeople
  Actions = {a1}
  Completions = {c1, c2}
  ActionOf <- MCActionOf
  Env = {"complete", "edit", "remove", "undo", "net", "half", "load", "ledger", "refresh", "signout", "reload"}
  MaxClock = 3
  MaxFaults = 1
  MaxSessions = 2
  Null = Null
INVARIANTS
  TypeOK
  PushedHaveActions
PROPERTIES
  DeletedStaysDeleted
  OwnAccountOnly
SYMMETRY MCSymmetry
CHECK_DEADLOCK FALSE
