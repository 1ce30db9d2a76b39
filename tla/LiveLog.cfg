SPECIFICATION Spec
CONSTANTS
  Capacity = 3
  StepLines = 2
  PageLines = 2
  MaxSteps = 2
  MaxLines = 3
  MaxFaults = 2
CHECK_DEADLOCK FALSE
INVARIANTS TypeOK ScreenMatchesRecord ClosedScreenIsFinal OnlyTheOpenStepIsMissing
