SPECIFICATION ManagerSpec
CONSTANTS
  vhost = vhost  auth = auth  good = good  bad = bad
  Absent = Absent
  Files <- MCFiles
  Bodies <- MCBodies
  Bad <- MCBad
  MaxEdits = 3
  ProxyFaults = 2
  ProxyInterruptions = 1
  MaxFaults = 2
  MaxInterruptions = 1
  Alias = Alias
  None = None
  MaxContainers = 4
  r1 = r1  r2 = r2  r4 = r4
  web = web  db = db  api = api  prod = prod  staging = staging  test = test
CHECK_DEADLOCK FALSE
INVARIANTS TypeOK OneBuild KeepsServing FailureRestores
  ProxyTypes AheadIsRemembered SafeToRestart
PROPERTIES PinWithdrawn Converges QueuedSettles LearnsTheEnd
