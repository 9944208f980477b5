SPECIFICATION RuntimeSpec
CONSTANTS
  Worker <- MCWorker
  Capacity = 1
  MaxTask = 3
  Creators <- MCFlat
  UninitParent <- MCGarbage
INVARIANTS
  ExitMeansAllDone
\* the runtime process ends, and can wait for ever
CHECK_DEADLOCK FALSE
