SPECIFICATION Spec
CONSTANTS
  MaxScoops = 1
  Columns <- MCColumns
  MinHits = 1
  MaxHits = 1
  Deadline = 2
INVARIANTS
  GuardHasAnOwner
  GuardIsBrief
  LeavesNothingOn
  AimEndsWithTheClutch

  
