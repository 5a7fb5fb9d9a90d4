CONSTANTS
    Procs = {p1, p2}
    MaxObjects = 2
    PageSize = 4
    HeaderSize = 3
    Capacities = {3, 8}
    PrivateSizes = {0, 2}
SPECIFICATION Spec
INVARIANTS AttachReturns
CHECK_DEADLOCK FALSE
