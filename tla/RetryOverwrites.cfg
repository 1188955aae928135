\* A push that fails once and is tried again.
SPECIFICATION Spec
CONSTANTS
  d1 = d1
  d2 = d2
  Devices <- MCDevices
  Env = {"net"}
  MaxClock = 3
  MaxFaults = 1
  MaxSessions = 0
  Null = Null
PROPERTIES
  StaleWriteNeverLands
SYMMETRY DeviceSymmetry
CHECK_DEADLOCK FALSE
