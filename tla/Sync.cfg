SPECIFICATION FairSpec
CONSTANTS
  Names <- MCNames
  DotNames <- MCDotNames
  Extending <- MCExtending
  Addrs <- MCAddrs
  Times <- MCTimes
  Sizes <- MCSizes
  Peers <- MCPeers
  Restarting = {1, 2}
  MaxStarts = 2
  MaxWrites = 3
  MaxSeconds = 4
  MaxActs = 2
CHECK_DEADLOCK FALSE
INVARIANTS
  TypeOK
  Converged
  HoldersHold
  TurnsAreSafe
PROPERTY Settles
