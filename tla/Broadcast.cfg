SPECIFICATION FairSpec
CONSTANTS
  a = a
  b = b
  c = c
  Nobody = Nobody
  Peers = {a, b, c}
  Order <- MCOrder
  Tables <- MCTables
  Merged <- MCMerged
  DownCap = 1
  UpCap = 1
  MaxReports <- MCMaxReports
  Late = {a}
CHECK_DEADLOCK FALSE
INVARIANTS
  TypeOK
  TablesAsSent
PROPERTY BroadcastEnds
