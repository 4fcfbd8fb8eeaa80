SPECIFICATION RedisSpec
CONSTANTS
  Threads = {t1, t2}
  Lengths = {1, 2}
  MaxUses = 1
  MaxCreated = 2
  MaxClears = 1
  MaxStale = 2
  Watched = 1
  NULL = NULL
SYMMETRY Symmetry
CONSTRAINT Open
INVARIANTS
  TypeOK
  Exclusive
  StrayOnlyIfCleared
  OwnAnswer
CHECK_DEADLOCK FALSE
