SPECIFICATION RuntimeFairSpec
CONSTANTS
  Worker <- MCWorker
  Capacity = 2
  MaxTask = 5
  Creators <- MCNested
  UninitParent <- MCGarbage
INVARIANTS
  RuntimeInv
  CapacityConserved
  ExitSound
  FlatEndDetected
PROPERTIES
  ImplementsTaskPool
  Termination
\* the runtime process ends, and can wait for ever
CHECK_DEADLOCK FALSE
