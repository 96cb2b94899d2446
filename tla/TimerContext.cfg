SPECIFICATION Spec
CONSTANTS
  Ops = {o1, o2}
  Delays <- TheDelays
  Limit = 3
  MaxTime = 2
  Slice = 1
  AllocFails = TRUE
  Waiters = {}
  Destroyers = {"client", "worker", "starter"}
  None = None
SYMMETRY Symmetry
INVARIANTS TimersExact
PROPERTIES CompletesOnce
CHECK_DEADLOCK FALSE
