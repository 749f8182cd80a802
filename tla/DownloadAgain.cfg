SPECIFICATION Spec
CONSTANTS
  Names <- MCNames
  DotNames <- MCDotNames
  Extending <- MCExtending
  Addrs <- MCThreeAddrs
  Times <- MCTimes
  Sizes <- MCSizes
  Peers <- MCThree
  Restarting = {}
  MaxStarts = 2
  MaxWrites = 3
  MaxSeconds = 4
  MaxActs = 1
CHECK_DEADLOCK FALSE
INVARIANT OnlyWhenOff
