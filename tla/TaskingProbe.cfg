SPECIFICATION Spec
CONSTANTS
  Worker <- MCOneWorker
  Capacity = 1
  MaxTask = 1
  Creators <- MCFlat
  Captures <- MCAllCapture
  Synchronous <- MCNobody
  UninitParent <- MCNegative
INVARIANTS
  ProbeHolds
\* the program ends, and can wait for ever
CHECK_DEADLOCK FALSE
