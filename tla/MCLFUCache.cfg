SPECIFICATION Spec
CONSTANTS
  Threads = {t1, t2}
  Keys = {a, b, c}
  capacity = 2
  MaxOps = 7
  NULL = NULL
INVARIANT CacheIntegrity
PROPERTY EvictsLeastUsed
CHECK_DEADLOCK FALSE
