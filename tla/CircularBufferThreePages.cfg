CONSTANTS
  PageSize = 2
  RequestedCapacity = 6
  IndexBits = 4
  StoreBufferDepth = 3
SPECIFICATION Spec
INVARIANT ReadableHoldsStream
