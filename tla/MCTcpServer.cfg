SPECIFICATION Spec
CONSTANTS
  c1 = c1
  Conns <- OneConn
  Shared <- OneConn
  MaxThreads = 1
  Senders <- OneConn
  CanFill = TRUE
  UserOps = {"send", "shutdown", "forceClose"}
  MaxCalls = 2
  MaxFailures = 1
INVARIANTS
  NoDanglingChannel
  CalledOnce
  OnlyHangupFails
PROPERTIES
  ClosedIsDeleted
  BacklogServed
  ImplementsConnLife
CHECK_DEADLOCK FALSE
