CONSTANT MaxEvents = 4
SPECIFICATION QueueFairSpec
CHECK_DEADLOCK FALSE
INVARIANTS
  ApartUntilStray
  IntactUntilStray
  SafeUntilStray
PROPERTY SentOrStray
