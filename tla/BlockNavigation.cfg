SPECIFICATION FairSpec
CONSTANTS
  b1 = b1
  b2 = b2
  None = None
  Blocks <- TwoBlocks
  NumApproaches = 2
  MaxTargetAttempts = 2
  TopupLowWater = 1
  MaxGeneration = 2
INVARIANTS
  TypeOK
  PursuesOpenTarget
  NoSilentStall
PROPERTIES
  GivesUpOnlyWhenExhausted
  MarksForCause
  ImplementsSearch
  LegIsDecided
