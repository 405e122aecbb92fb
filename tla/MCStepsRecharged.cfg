CONSTANTS
  Processes = {p}
  Calls = {"read"}
  Results = {"text"}
  Delays = {0}
  StepLimit = 2
  WallLimit = 5
  MaxAttempts = 3
  Verbs = {"resume"}
  None = None
SPECIFICATION Spec
INVARIANT StepsRecharged
CHECK_DEADLOCK FALSE
