\* One guarded row and two devices, with everything that can fail.
SPECIFICATION Spec
CONSTANTS
  d1 = d1
  d2 = d2
  Devices <- MCDevices
  Env = {"remove", "net", "late", "load", "read", "reload", "refresh"}
  MaxClock = 3
  MaxFaults = 1
  MaxSessions = 1
  Null = Null
INVARIANTS
  TypeOK
  LevelOrTold
PROPERTIES
  IsSharedText
  NothingReplacedUnseen
  OwnWritesInOrder
  NoSelfRefusal
SYMMETRY DeviceSymmetry
CHECK_DEADLOCK FALSE
