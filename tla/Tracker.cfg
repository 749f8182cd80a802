CONSTANTS
  c1 = c1
  c2 = c2
  Nobody = Nobody
  Conns = {c1, c2}
  Names <- MCNames
  DotNames <- MCDotNames
  Extending <- MCExtending
  Addrs <- MCAddrs
  AddrOf <- MCAddrOf
  Times <- MCTimes
  Sizes <- MCSizes
  FileLists <- MCFileLists
  EventLists <- MCEventLists
  MaxMessages = 3
  MaxScans = 2
SPECIFICATION FairSpec
CHECK_DEADLOCK FALSE
INVARIANTS
  TypeOK
  CriticalSection
  OneLostPerBroadcast
  HoldersAccounted
  PeerListSound
PROPERTIES
  SerialSpec
  LockGranted
  BroadcastComplete
