SPECIFICATION Spec
CONSTANTS
  b1 = b1
  b2 = b2
  None = None
  Somewhere = Somewhere
  Blocks <- TwoBlocks
  NumApproaches = 1
  RetryLimit = 1
  MaxProbes = 1
  MaxItems = 1
  Appearing = {"log", "air", "unloaded"}
  Commands = {"place", "interact", "testoaklog", "stopinteraction", "stopmovement"}
SYMMETRY Symmetry
INVARIANTS
  QuietAfterwards
  WalksToOwn
