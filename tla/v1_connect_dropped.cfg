SPECIFICATION Spec
CONSTANTS
  Profiles <- Direct
  MaxConnects = 2
  MaxStops = 1
  MaxPids = 2
  Crashes = FALSE
  DeadlinePasses = FALSE
  CallsFail = FALSE
  UserStops = TRUE
CHECK_DEADLOCK FALSE
INVARIANTS
  ConnectSurvivesStop
