CONSTANTS
  LoopClients = {l1, l2, l3}
  Freed = Freed
  Listeners = {t1, t2}
  Intervals = {0, 1, 2}
  MaxTime = 2
  MaxEntries = 3
  None = None
SPECIFICATION MCSpec
INVARIANTS VectorInv UndisturbedRoundCallsAll HeapInv
PROPERTIES FiredEntryIsReplaced NothingDueIsLeft OnTimeoutEnds
