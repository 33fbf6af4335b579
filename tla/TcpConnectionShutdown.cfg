SPECIFICATION FairSpec
CONSTANTS
  Thread = {t1}
  Loop = loop
  Lens = {1, 2}
  MaxBytes = 2
  MaxInput = 1
  SendBuf = 1
  HighWaterMark = 2
  ThreadsShutdown = FALSE
  ServerDies = FALSE
PROPERTY SentBeforeShutdown
CHECK_DEADLOCK FALSE
