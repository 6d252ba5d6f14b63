SPECIFICATION Spec
CONSTANTS
  Typed <- AllTyped
  Lines <- AFewLines
  Players = {"friend", "stranger"}
  Allowed = {"friend"}
  ChatCapacity = 2
  MaxFailures = 2
  MayLose = TRUE
  None = None
INVARIANTS TypeOK FightsAlone QuietAfterStop NeverDeaf
PROPERTIES ActionsWaitTheirTurn StopOvertakes
CHECK_DEADLOCK FALSE
