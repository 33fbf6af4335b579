SPECIFICATION Spec
CONSTANTS
  Thread = {t1}
  Loop = loop
  Lens = {1}
  MaxBytes = 2
  MaxInput = 1
  SendBuf = 1
  HighWaterMark = 2
  ThreadsShutdown = TRUE
  ServerDies = FALSE
INVARIANT CloseOnce
CHECK_DEADLOCK FALSE
