CONSTANTS
  NumPeers = 2
  NumStreams = 1
  NumSegs = 2
  MaxFaults = 2
SPECIFICATION FairSpec
CHECK_DEADLOCK FALSE
INVARIANTS
  SocketsExclusive
  SegmentsOnce
  CompleteIsWhole
  RequestsIntact
  FreedByLast
PROPERTIES
  DownloadCompletes
