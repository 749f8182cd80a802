SPECIFICATION Spec
CONSTANTS
  d = d
  g = g
  Root = Root
  Dirs = {d}
  Files = {g}
  Parent <- MCParent
  Prompt = TRUE
  MaxUser = 3
  MaxOrders = 2
INVARIANTS
  TypeOK
  OwnChangesIgnored
  LastWord
  MarksAccounted
CHECK_DEADLOCK FALSE
