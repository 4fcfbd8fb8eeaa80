SPECIFICATION Spec
CONSTANTS
  Byte = {0, 1}
  kCheapPrepend = 1
  initialSize = 2
  kExtraBufferSize = 2
  MaxContent = 4
INVARIANTS
  TypeOK
  AppendAsserts
  SpaceBounded
PROPERTIES
  ImplementsByteQueue
