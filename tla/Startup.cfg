SPECIFICATION FairSpec
CONSTANTS
  WorldSize <- MCWorldSize
  PerRuntime <- MCPerRuntime
INVARIANTS
  EveryOrNoWorkerKnown
PROPERTIES
  StartsIfOneRuntime
\* all reports are received, or the runtime process waits for ever
CHECK_DEADLOCK FALSE
