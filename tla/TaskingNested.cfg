SPECIFICATION FairSpec
CONSTANTS
  Worker <- MCTwoWorkers
  Capacity = 1
  MaxTask = 3
  Creators <- MCNested
  Captures <- MCAllCapture
  Synchronous <- MCFirstCaptures
  UninitParent <- MCNegative
INVARIANTS
  CapacityRespected
  OriginKnowsTask
  WriteBackIntact
  ResultsKept
PROPERTIES
  RuntimeSpec
  NestedEndsOrStuck
  AckArrives
\* the program ends, and can wait for ever
CHECK_DEADLOCK FALSE
