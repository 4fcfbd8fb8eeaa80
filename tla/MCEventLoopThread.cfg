SPECIFICATION ELTSpec
CONSTANTS
  loop = loop
  main = main
  t1 = t1
  t2 = t2
  f1 = f1
  f2 = f2
  f3 = f3
  c1 = c1
  LoopThread = loop
  Owner = main
  Threads <- MCThreads
  Functors <- MCFunctors
  Channels <- MCChannels
INVARIANTS
  TypeOK
  QueueIntegrity
  NoLostWakeup
  ThreadOutlivedByOwner
  FailsOnlyOutsideLoop
PROPERTIES
  StartLoopGivesLoop
  DestructorReturns
  QuitEndsLoop
  ImplementsFunctorQueue
CHECK_DEADLOCK FALSE
