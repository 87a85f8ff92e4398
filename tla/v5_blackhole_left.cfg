SPECIFICATION Spec
CONSTANTS
  Profiles <- Killing
  MaxConnects = 1
  MaxStops = 2
  MaxPids = 2
  Crashes = TRUE
  DeadlinePasses = FALSE
  CallsFail = FALSE
  UserStops = TRUE
CHECK_DEADLOCK FALSE
INVARIANTS
  DisconnectReleasesInterface
