SPECIFICATION FairSpec
CONSTANTS
  Worker <- MCThreeWorkers
  Capacity = 1
  MaxTask = 3
  Creators <- MCFlat
  Captures <- MCSomeCapture
  Synchronous <- MCFirstCaptures
  UninitParent <- MCNegative
INVARIANTS
  TaskingTypeOK
  ReplyMatches
  ResultsKept
PROPERTIES
  EndsOrStuck
\* the program ends, and can wait for ever
CHECK_DEADLOCK FALSE
