SPECIFICATION FairSpec
CONSTANTS
  Worker <- MCOneWorker
  Capacity = 2
  MaxTask = 3
  Creators <- MCNested
  Captures <- MCFirstCaptures
  Synchronous <- MCNobody
  UninitParent <- MCNegativeOrUnused
INVARIANTS
  AckMatches
  ReplyReachesThread
  IdReachesCreator
\* the program ends, and can wait for ever
CHECK_DEADLOCK FALSE
