SPECIFICATION FairSpec
CONSTANTS
  vhost = vhost  auth = auth  good = good  bad = bad
  Absent = Absent
  Files <- MCFiles
  Bodies <- MCBodies
  Bad <- MCBad
  MaxEdits = 1
  MaxFaults = 0
  MaxInterruptions = 1
CHECK_DEADLOCK FALSE
PROPERTIES SelfHeals
