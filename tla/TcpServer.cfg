SPECIFICATION FairServerSpec
CONSTANTS
  MaxThreads = 2
  MaxConns = 3
  MaxOpen = 2
  MaxWaiting = 1
  MaxSends = 1
  MaxKept = 1
INVARIANTS ServerTypeOK RoundRobin RegisteredAreOwned RemovedForGood QueuedSendIsSafe
PROPERTIES ImplementsLife AcceptResumes DestructorFreesAll
CHECK_DEADLOCK FALSE
