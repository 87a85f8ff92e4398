SPECIFICATION Spec
CONSTANTS
  Profiles <- AutoTwice
  MaxConnects = 1
  MaxStops = 1
  MaxPids = 2
  Crashes = FALSE
  DeadlinePasses = FALSE
  CallsFail = FALSE
  UserStops = TRUE
CHECK_DEADLOCK FALSE
INVARIANTS
  DisconnectStopsEngine
