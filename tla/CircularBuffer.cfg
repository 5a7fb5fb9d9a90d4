CONSTANTS
  PageSize = 2
  RequestedCapacity = 3
  IndexBits = 3
  StoreBufferDepth = 3
SPECIFICATION FairSpec
INVARIANTS RingInv ReadableHoldsStream PiecesDisjoint
PROPERTIES PushNeverShort ImplementsChannel StreamAdvances
