CONSTANTS
  Listeners = {l1, l2, l3}
  MaxEvents = 2
SPECIFICATION Spec
INVARIANTS DispatchInv CallsLiveListeners EdgesAreKept
SYMMETRY ListenersSymmetry
CHECK_DEADLOCK FALSE
