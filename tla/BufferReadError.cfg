SPECIFICATION ErrorSpec
CONSTANTS
  Byte = {0, 1}
  Zero = 0
  kCheapPrepend = 1
  kInitialSize = 2
  ExtraBuf = 2
  MaxReadable = 4
  Word = 64
INVARIANT IndexOrder
CHECK_DEADLOCK FALSE
