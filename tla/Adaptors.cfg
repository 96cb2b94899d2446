SPECIFICATION Spec
CONSTANTS
  N = 3
  Subs = {s1, s2, s3}
  Tasks = {t1, t2, t3}
  Caller = caller
  None = None
  Boxes = {b1, b2, b3}
  MaxMade = 3
INVARIANTS DeletedOnce
PROPERTIES WhenAllRight SplitReachesAll FutureSettles FusedStopEnds SyncWaitReturns ErasedOutlives
CHECK_DEADLOCK FALSE
