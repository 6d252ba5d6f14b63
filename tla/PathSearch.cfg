SPECIFICATION Spec
CONSTANTS
  Width = 4
  Height = 5
  Depth = 2
  Terrains <- MCTerrains
  Start <- MCStart
  Target <- MCTarget
  GoalRadius = 0
  Costs <- DefaultCosts
  Policy <- DefaultPolicy
  Hostiles <- OneHostile
  MaxNodes = 12
  None = None
INVARIANTS
  ParentsLeadBack
  PartialIsNearest
  SafeFooting
CHECK_DEADLOCK FALSE
