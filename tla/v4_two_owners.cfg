SPECIFICATION Spec
CONSTANTS
  Profiles <- Direct
  MaxConnects = 3
  MaxStops = 1
  MaxPids = 2
  Crashes = FALSE
  DeadlinePasses = FALSE
  CallsFail = FALSE
  UserStops = FALSE
CHECK_DEADLOCK FALSE
INVARIANTS
  OneOwner
