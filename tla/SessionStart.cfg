\* Startup, changes of account, and the paid boundary behind them.
SPECIFICATION FairSpec
CONSTANTS
  a = a
  b = b
  Persons <- MCPersons
  Subscribed <- MCSubscribed
  MaxChanges = 3
  MaxFaults = 1
  Null = Null
INVARIANTS
  TypeOK
  StartupHandledOnce
  SyncIsShown
  GateIsRight
PROPERTIES
  GateDecides
CHECK_DEADLOCK FALSE
