SPECIFICATION Spec
CONSTANTS
  None = None
  k1 = k1
  k2 = k2
  submit = submit
  read = read
  sentinel = sentinel
  d1 = d1
  Keys <- MCKeys
  Submit = submit
  ToolOf <- MCToolOf
  Capabilities <- MCCapabilities
  Digests <- MCDigests
  Files <- MCFiles
  Trees <- MCFiles
  Prompts <- MCPrompts
  Usages <- MCUsages
  Delays <- MCDelays
  IDENTICAL_WINDOW = 3
  IDENTICAL_LIMIT = 2
  EDIT_CHURN_LIMIT = 2
  NO_PROGRESS_LIMIT = 4
  DENIAL_LIMIT = 2
  StepLimit = 4
  TokenLimit = 7
  WallLimit = 3
  CostLimit = 4
  FormatErrorLimit = 4
  RepairLimit = 1
  InputPrice = 0
  OutputPrice = 1
  MaxU64 = 99
INVARIANTS
  TypeOK
  EvidencePairs
  NothingStartsUnpermitted
  ConditionsAreCurrent
  ExhaustionStopsTheRun
  ToldBeforeStopped
PROPERTY Terminates
CHECK_DEADLOCK FALSE
