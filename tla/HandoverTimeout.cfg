SPECIFICATION Spec
CONSTANTS
  Alias = Alias
  None = None
  MaxContainers = 4
  MaxFaults = 0
  MaxInterruptions = 1
CHECK_DEADLOCK FALSE
INVARIANTS SuccessServes
