SPECIFICATION Spec
CONSTANTS
  r1 = r1  r2 = r2  r3 = r3  r4 = r4
  web = web  db = db  api = api  prod = prod  staging = staging  test = test
  None = None
  Requests <- MCRequests
  Targets <- MCTargets
  Envs <- MCEnvs
  TargetOf <- MCTargetOf
  EnvOf <- MCApart
  MaxConcurrent = 2
  MaxRestarts = 1
  MaxDbErrors = 1
CHECK_DEADLOCK FALSE
INVARIANTS TypeOK OnePipelinePerEnvironment SlotCap GuardsAccounted UnfinishedOwned
PROPERTIES KeepsPromise
SYMMETRY MCSymmetry
