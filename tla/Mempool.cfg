CONSTANTS
    IntBits = 6
    WordBits = 8
    HeaderSize = 32
    ArenaSize = 192
    Requests = {0, 5, 20, 32, 40, 230}
SPECIFICATION Spec
INVARIANTS PoolInv BlockHoldsRequest
PROPERTIES FaultsOnlyOnTheOldest
CHECK_DEADLOCK FALSE
