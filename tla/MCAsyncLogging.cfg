SPECIFICATION Spec
CONSTANTS
  SIZE = 4
  Sizes = {1, 3}
  RollSize = 6
  MaxRecords = 6
  NULL = NULL
INVARIANTS
  BufferAsserts
  NoRecordLost
PROPERTIES
  RecordsWritten
  StopReturns
CHECK_DEADLOCK FALSE
