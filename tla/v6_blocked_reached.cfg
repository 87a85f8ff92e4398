SPECIFICATION StreamsSpec
CONSTANTS
  Conns <- TwoConns
  UpBytes <- Uploads
  DownBytes <- Downloads
  MaxRead = 2
  QueueSize = 1
  MaxPending = 1
  TcpBuf = 2
  Rough = {1}
  Clients = {1, 2}
  Names = {"n1", "n2", "n3"}
  Spelled <- WrittenOut
  Addresses = {"a1"}
  WebPorts = {"443"}
  OtherPorts = {"25"}
  RuleSets <- TwoRuleSets
  HasGateway = TRUE
  Streams <- ThreeStreams
  MaxChunk = 3
  BufCap = 5
  ToStack = 1
  MaxStarts = 3
  MaxStops = 2
  BindFails = TRUE
  Fronts = {"cli", "ffi"}
  MaxFaults = 0
  MaxRevokes = 0
  MaxYears = 0
CHECK_DEADLOCK FALSE
INVARIANTS
  BlockedNeverReached
