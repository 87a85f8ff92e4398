SPECIFICATION LoopsSpec
CONSTANTS
  Peers = {p1, p2}
  None = None
  MaxFails = 2
  MaxRestarts = 1
  MaxAttempts = 2
  HttpAttempts = {1}
  LaterKinds = {"wireguard"}
  Ranges <- RangeLists
  Ports <- TwoPorts
  Excluded <- OneExcluded
  BuiltInSeeds <- OneSeed
  Strategies <- ThreeStrategies
  Wants = {1, 2}
  PerWanted = 3
  Concurrency = 2
  Rtts = {1, 2}
  MaxSize = 4
  MaxJobs = 2
CHECK_DEADLOCK FALSE
INVARIANTS
  CooldownRespected
  OnlyFoundRemembered
  ScanSound
  PortHandedOn
  RegistriesSound
PROPERTIES
  RestsAfterTwoFailures
  KeepsTrying
  ScanEnds
  
  CancelledJobEnds
