CONSTANTS
  OldVersion = "v1"
  NewVersion = "v2"
  MaxStarts = 2
  MaxTimeouts = 1
  MaxStale = 1
  UpdateFaults = 2
  Kept = 1
  TaskRuns = 3
  MaxDeadlines = 1
  TaskEdits = 1
  Apps = {"app"}
  Composes = {"stack"}
  Databases = {"db"}
  MaxWrites = 2
  MaxFailures = 2
  ProgramFaults = 1
  ProgramCrashes = 1
  Capacity = 2
  Delay = 2
  Ceiling = 3
  MaxChanges = 4
  MaxBreaks = 2
  Limits = {1, 3}
  MaxLines = 6
  MaxConnections = 3
  Tabs = {"t1", "t2"}
  Projects = {{1, 4}, {2, 3, 5}}
  ListedRows = 2
  Keep = 5
  MaxDeployments = 5
  StreamFaults = 1
  StreamCommands = 3
  Domains = {"a", "b"}
  MaxReads = 1
  EnvKeys = {"A"}
  EnvValues = {"y"}
  MaxEdits = 2
  EditorSaves = 2
  MaxFocus = 1
  MaxRivals = 1
  min_number = 1
  max_number = 9
  step_number = 3
  large_number = 6
  Drafts = {0, 2, 4, 7, 8, 9, 12}
  MaxTyped = 4
  EditorFaults = 1
  EditorCommands = 3
  Kinds = {"start", "deploy", "delete", "duplicate", "move"}
  BulkRuns = 2
  MaxServices = 6
  Cells = {"x", "y"}
  MaxRows = 3
  TableCommands = 3
  TableSaves = 2
  GateFaults = 2
  MaxVisits = 2
  TableFaults = 1
SPECIFICATION Spec
CHECK_DEADLOCK FALSE
INVARIANTS
  TypeOK
  QuietMeansStored
  CleanMeansStored
  NothingRepeatedOrSkipped
  ValueIsReachable
  ErrorNamesWhatWasDone
  CopiesGetFreeNames
  DeepLinkSurvives
  NothingWrittenTwice
  RecordedVersionRuns
  QuietMeansCurrent
  NoStarvation
  MarksSurvive
  RunsAreAccounted
  NothingLeftBehind
  EveryValueRoundTrips
PROPERTIES
  RemovalKeepsTheHostname
  TypingSurvives
  ClaimProtectsTheUpdater
