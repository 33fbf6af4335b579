SPECIFICATION Spec
CONSTANTS
  Task = {t1}
  NoTask = NoTask
  Creator = creator
  MaxQueued = 2
  EventFdMax = 2
INVARIANT LoopsWhenStarted
CHECK_DEADLOCK FALSE
