SPECIFICATION TunSpec
CONSTANTS
  MaxSessions = 2
  MaxSegments = 2
  MaxChunks = 1
  QueueSize = 1
  Overflow = TRUE
  WebPort = TRUE
  SeqSpace = 5
  InitialSeq = 3
CHECK_DEADLOCK FALSE
INVARIANTS
  UploadInOrder
  DownloadContiguous
  Replacement
PROPERTIES
  FinPropagates
