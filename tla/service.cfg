SPECIFICATION ServiceSpec
CONSTANTS
  Profiles <- AnyMode
  MaxConnects = 2
  MaxStops = 1
  MaxPids = 2
  Crashes = TRUE
  DeadlinePasses = TRUE
  CallsFail = TRUE
  UserStops = TRUE
CHECK_DEADLOCK FALSE
INVARIANTS
  EngineOwned
  LockdownBlocks
  HandOver
PROPERTIES
  RestartMovesOn
  NobodyWaitsForEver
