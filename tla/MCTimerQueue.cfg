SPECIFICATION Spec
CONSTANTS
  Addrs <- MCAddrs
  Whens <- MCWhens
  Intervals <- MCIntervals
  MaxTimers = 2
  MaxTime = 3
INVARIANTS
  SameTimers
  TimerAsserts
  TimerfdArmed
PROPERTIES
  RunsOnce
  CancelledIsGone
  ExpiredIsRun
CHECK_DEADLOCK FALSE
