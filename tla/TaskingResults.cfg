SPECIFICATION Spec
CONSTANTS
  Worker <- MCTwoWorkers
  Capacity = 1
  MaxTask = 2
  Creators <- MCFlat
  Captures <- MCAllCapture
  Synchronous <- MCNobody
  UninitParent <- MCNegative
INVARIANTS
  ResultsArrive
\* the program ends, and can wait for ever
CHECK_DEADLOCK FALSE
