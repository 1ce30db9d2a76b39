SPECIFICATION Spec
CONSTANTS
  Kept = 1
  MaxRuns = 2
  MaxFaults = 0
  MaxDeadlines = 1
  MaxCrashes = 0
  MaxEdits = 0
CHECK_DEADLOCK FALSE
INVARIANTS NeverPilesUp
