SPECIFICATION FairSpec
CONSTANTS
  Thread = {t1}
  Loop = loop
  Lens = {2}
  MaxBytes = 2
  MaxInput = 1
  SendBuf = 1
  HighWaterMark = 2
  ThreadsShutdown = TRUE
  ServerDies = TRUE
INVARIANT ShutdownFlushes
PROPERTIES BacklogDrains ShutdownCompletes CloseIsServed
CHECK_DEADLOCK FALSE
