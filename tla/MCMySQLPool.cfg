SPECIFICATION Spec
CONSTANTS
  Threads = {t1, t2, t3}
  Addresses = {a1, a2, a3}
  Sizes = {1, 2}
  MaxRounds = 2
  MaxInits = 2
  MaxDestroys = 1
  NULL = NULL
INVARIANTS
  LentToOne
  FailsOnlyIfMisused
PROPERTY
  EveryoneServed
CHECK_DEADLOCK FALSE
