SPECIFICATION FairSpec
CONSTANTS
  Task = {t1}
  NoTask = NoTask
  Creator = creator
  MaxQueued = 2
  EventFdMax = 2
INVARIANTS TypeOK LoopUsable OnlyEarlyQuitLost ThreadOutlived
PROPERTIES StartReturns JoinEnds
CHECK_DEADLOCK FALSE
