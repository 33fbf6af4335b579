SPECIFICATION Spec
CONSTANTS
  Thread = {t1}
  Loop = loop
  Lens = {1, 2}
  MaxBytes = 2
  MaxInput = 2
  SendBuf = 1
  HighWaterMark = 2
  ThreadsShutdown = FALSE
  ServerDies = FALSE
INVARIANTS TypeOK StreamIntact WriteInterestTracksBacklog FlowControl DataBeforeEnd CloseOnce GoneForGood
PROPERTY NothingAfterClose
CHECK_DEADLOCK FALSE
