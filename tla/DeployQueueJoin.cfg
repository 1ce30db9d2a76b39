SPECIFICATION FairSpec
CONSTANTS
  r1 = r1  r2 = r2  r3 = r3  r4 = r4
  web = web  db = db  api = api  prod = prod  staging = staging  test = test
  None = None
  Requests <- MCFewRequests
  Targets <- MCTargets
  Envs <- MCEnvs
  TargetOf <- MCFewTargetOf
  EnvOf <- MCCrowded
  MaxConcurrent = 1
  MaxRestarts = 0
  MaxDbErrors = 0
CHECK_DEADLOCK FALSE
PROPERTIES JoinedCanStillRun
