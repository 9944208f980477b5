SPECIFICATION FairSpec
CONSTANTS
  Worker <- MCOneWorker
  Capacity = 1
  MaxTask = 2
  Creators <- MCNested
  UninitCapacity <- MCGarbage
PROPERTIES
  EndsOrWaitsInVain
\* the program ends, and can wait for ever
CHECK_DEADLOCK FALSE
