SPECIFICATION Spec
CONSTANTS
  Capacity = 8
  StepLines = 2
  PageLines = 2
  MaxSteps = 2
  MaxLines = 3
  MaxFaults = 2
CHECK_DEADLOCK FALSE
INVARIANTS NothingLostInBetween
