CONSTANTS
  RequestedCapacity = 2
  IndexBits = 3
  StoreBufferDepth = 3
  SemMax = 2
  Places = {p0, p1}
  Wild = Wild
SPECIFICATION FairSpec
INVARIANTS QueueInv RunsTheTaskOfTheTurn WakeupLostOnlyToStoreBuffers
PROPERTIES QueuedTaskGetsItsTurn
CHECK_DEADLOCK FALSE
