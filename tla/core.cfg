SPECIFICATION CoreSpec
CONSTANTS
  DataCheck = TRUE
  Required = 2
  Window = 2
  WgRequired = 2
  WgDataChecks = {TRUE, FALSE}
  Stale = 3
  MaxTransient = 2
  InboundSize = 1
  Conns <- OneConn
  UpBytes <- Upload
  DownBytes <- Download
  MaxRead = 2
  QueueSize = 1
  MaxPending = 1
  TcpBuf = 1
  Rough = {1}
  Sources <- ThreeSources
  ExpectedIp = "app"
  Resolvers = 2
  MaxDatagrams = 3
  Fronts = {"cli", "ffi"}
  MaxFaults = 2
  MaxRevokes = 1
  MaxYears = 0
CHECK_DEADLOCK FALSE
INVARIANTS
  StaleOnlyIfSilent
  RelaysItsOwn
PROPERTIES
  HandshakeResolves
  SilentEdgeNoticed
  DeadEdgeEnds
  RelaysResolve
  AssociationEnds
  RefusedReplaced
