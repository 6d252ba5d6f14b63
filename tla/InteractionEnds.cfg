SPECIFICATION FairSpec
CONSTANTS
  b1 = b1
  b2 = b2
  None = None
  Somewhere = Somewhere
  Blocks <- OneBlock
  NumApproaches = 1
  RetryLimit = 1
  MaxProbes = 2
  MaxItems = 1
  Appearing = {"stone", "log", "air"}
  Commands = {"break", "interact", "stopinteraction"}
PROPERTIES
  EndsOrWalks
