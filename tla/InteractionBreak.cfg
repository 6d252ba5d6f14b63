SPECIFICATION Spec
CONSTANTS
  b1 = b1
  b2 = b2
  None = None
  Somewhere = Somewhere
  Blocks <- TwoBlocks
  NumApproaches = 1
  RetryLimit = 1
  MaxProbes = 2
  MaxItems = 0
  Appearing = {"stone", "air", "unloaded"}
  Commands = {"break", "mine", "stopinteraction", "look", "lookstop"}
SYMMETRY Symmetry
INVARIANTS
  TypeOK
  BoundedSends
  FreshDispatch
  AimIsOwn
  QuietAfterwards
