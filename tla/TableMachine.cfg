CONSTANTS
  Names <- MCNames
  DotNames <- MCDotNames
  Extending <- MCExtending
  Inside <- MCInside
  Addrs <- MCAddrs
  Times <- MCTimes
  Sizes <- MCSizes
  FileLists <- MCFileLists
  EventLists <- MCEventLists
SPECIFICATION CSpec
INVARIANTS
  TypeOK
  CountsMatchLists
  HoldersHaveDistinctIps
PROPERTIES
  RegisterNeverRegresses
  MergeIsUnion
