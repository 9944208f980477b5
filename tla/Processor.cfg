CONSTANTS
  Region <- MCRegion
  Block <- MCBlock
  Garbage <- MCGarbage
  StackLimit = 500
  AddressSpace = 4096
  Unit <- MCUnit

SPECIFICATION Spec

INVARIANTS
  ProcessorTypeOK
  WhatIsReplaced
  HeaderPrecedesUse
  VariablesReached
  SizesFit

CHECK_DEADLOCK FALSE
