SPECIFICATION Spec
CONSTANTS
  c1 = c1
  None = None
  Chests <- OneChest
  Fillings <- Telling
  ChestSlots = 2
  PlayerSlots = 2
  MaxStack = 3
  Counts = {1, 4}
  MaxWindows = 2
  MaxRevision = 2
  MaxAsked = 2
INVARIANTS
  TypeOK
  TransferIsExact
  OwnedWhileSetUp
PROPERTIES
  ClicksInTheirWindow
