SPECIFICATION Spec
CONSTANTS
  Byte = {0, 1}
  Zero = 0
  kCheapPrepend = 1
  kInitialSize = 2
  ExtraBuf = 2
  MaxReadable = 4
INVARIANTS TypeOK SizeBounded
PROPERTY ImplementsQueue
