SPECIFICATION Spec
CONSTANTS
  Bytes = {0, 1}
  Zero = 0
  CheapPrepend = 1
  InitialSize = 2
  ExtraSize = 2
  MaxReadable = 5
INVARIANTS
  IndicesOK
  SizeBounded
PROPERTIES
  ImplementsByteQueue
