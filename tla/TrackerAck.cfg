CONSTANTS
  c1 = c1
  c2 = c2
  Nobody = Nobody
  Conns = {c1, c2}
  Names <- MCNames
  DotNames <- MCDotNames
  Extending <- MCExtending
  Addrs <- MCAddrs
  AddrOf <- MCAddrOf
  Times <- MCTimes
  Sizes <- MCSizes
  FileLists <- OneFileLists
  EventLists <- OneEventLists
  MaxMessages = 4
  MaxScans = 2
SPECIFICATION Spec
CHECK_DEADLOCK FALSE
INVARIANTS
  RegisterAckFirst
