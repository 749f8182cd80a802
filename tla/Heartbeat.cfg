SPECIFICATION HeartbeatSpec
CONSTANTS
  INTERVAL = 5
  Second = 2
  MaxDelay = 2
  MaxLag = 1
  MaxWire = 1
INVARIANT HeardOrEvicted
PROPERTY EvictedForCause
