SPECIFICATION Spec
CONSTANTS
  Items <- ThingsToBuild
  HotbarSteps <- BlockAndBucket
  Starts <- OneOfEach
  MainSlots = 1
  Margin = 1
  DropGroups = {}
  Protected = {}
  MaxEvents = 0
  Nothing = Nothing
PROPERTIES EventuallyStocked
