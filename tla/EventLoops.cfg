SPECIFICATION Spec
CONSTANTS
  Worker <- MCTwoWorkers
  Capacity = 1
  MaxTask = 2
  Creators <- MCUpper
  UninitCapacity <- MCZero
INVARIANTS
  EventLoopsTypeOK
  CountersExact
  ExitWhenAllEnded
  WakeupFindsTask
  ChildrenWaitedFor
  AccountDrifts
PROPERTIES
  CapacityKept
  AllWaitedFor
\* the program ends, and can wait for ever
CHECK_DEADLOCK FALSE
