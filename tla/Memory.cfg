SPECIFICATION Spec
CONSTANTS
  Worker <- MCWorker
  MaxTask = 3
  Creators <- MCNested
  Value <- MCValue
INVARIANTS
  MemoryTypeOK
  ResultAtOrigin
  ResultHandedOn
  Undisturbed
\* the program ends
CHECK_DEADLOCK FALSE
