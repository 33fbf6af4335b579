SPECIFICATION FairSpec
CONSTANTS
  Task = {t1, t2}
  NoTask = NoTask
  Poster = {p1, p2}
  MaxQueued = 3
  EventFdMax = 2
INVARIANTS TypeOK NoLostWakeup
PROPERTIES FifoService QueuedIsServed QuitStopsLoop BatchEnds
