CONSTANTS
  Keys = {k1, k2, k3}
  MaxTime = 2
  Timeout = 1
  InitialBuckets = 1
SPECIFICATION Spec
INVARIANTS CacheInv OnlyOwnNodeIsTaboo
PROPERTIES NoExpiredLeft
SYMMETRY KeysSymmetry
CHECK_DEADLOCK FALSE
