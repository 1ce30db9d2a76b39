SPECIFICATION Spec
CONSTANTS
  Values = {"x", "y"}
  MaxRows = 3
  MaxCommands = 4
  MaxSaves = 2
  MaxFaults = 1
CHECK_DEADLOCK FALSE
PROPERTIES DroppedEditsAreDeletes
