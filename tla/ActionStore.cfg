\* Three plain actions, or one that repeats around February 29.
SPECIFICATION MCSpec
CONSTANTS
  a1 = a1
  a2 = a2
  a3 = a3
  r1 = r1
  Ids <- MCIds
  Repeating = {r1}
  Dated = {r1}
  Rules <- MCRules
  Offered <- MCOffered
  DueDays = {60}
  Skews = {0}
  StartDays = {58}
  MaxDay = 61
  Ahead = 32
  MaxDone = 2
  NoAction = NoAction
  Year0 = 2024
  Weekday1 = 1
  Months = 62
  MAX_SEARCH_DAYS = 28
  MAX_MONTHS = 15
  MAX_YEARS = 12
  MAX_SKIPS = 4
INVARIANTS
  TypeOK
  Acyclic
  NextNeverStarves
  AsksForFirstOpen
SYMMETRY MCSymmetry
CHECK_DEADLOCK FALSE
