CONSTANTS
  Main = "main"
  Reporters = {"reader", "download"}
  MaxFiles = 2
  MaxEvents = 3
  MaxBeats = 1
SPECIFICATION FairSpec
CHECK_DEADLOCK FALSE
INVARIANTS
  ReadAsSent
PROPERTIES
  MessagesHandled
  HangUpNoticed
