\* Checkouts, changes, repeated and concurrent deliveries, failed calls and lost answers.
SPECIFICATION FairSpec
CONSTANTS
  c1 = c1
  c2 = c2
  o1 = o1
  h1 = h1
  h2 = h2
  Checkouts <- MCCheckouts
  Outside <- MCOutside
  Handlers <- MCHandlers
  MaxClock = 2
  MaxEvents = 2
  MaxFaults = 2
  Null = Null
INVARIANTS
  TypeOK
  SettledIsCurrent
  OneCustomer
PROPERTIES
  IsFreshCopy
  DeliveriesEnd
CHECK_DEADLOCK FALSE
