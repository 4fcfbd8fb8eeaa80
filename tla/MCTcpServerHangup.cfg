SPECIFICATION Spec
CONSTANTS
  c1 = c1
  Conns <- OneConn
  Shared = {}
  MaxThreads = 1
  Senders <- OneConn
  CanFill = TRUE
  UserOps = {}
  MaxCalls = 0
  MaxFailures = 0
INVARIANT HandleCloseAssertHolds
CHECK_DEADLOCK FALSE
