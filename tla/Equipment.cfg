SPECIFICATION Spec
CONSTANTS
  Items <- ThingsToWear
  HotbarSteps <- ToolsAndBucket
  Starts <- OneOfEach
  MainSlots = 1
  Margin = 1
  DropGroups = {"sword", "pickaxe"}
  Protected = {}
  MaxEvents = 1
  Nothing = Nothing
PROPERTIES EventuallyStocked
