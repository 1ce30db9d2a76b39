SPECIFICATION Spec
CONSTANTS
  Old = "v1"
  New = "v2"
  MaxStarts = 2
  MaxFaults = 1
  MaxTimeouts = 0
  MaxStale = 0
  MaxCrashes = 0
CHECK_DEADLOCK FALSE
INVARIANTS EveryFailureRollsBack
