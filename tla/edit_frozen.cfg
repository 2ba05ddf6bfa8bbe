SPECIFICATION EditorsSpec
CONSTANTS
  Row = {"r1"}
  Backing = {"r1"}
  PanelId = {1, 2, 3}
  SaveCap = 2
  ListWrites = 2
PROPERTY TypedIsSent
CHECK_DEADLOCK FALSE
