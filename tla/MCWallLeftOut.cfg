CONSTANTS
  Processes = {p}
  Calls = {"read"}
  Results = {"text"}
  Delays = {0, 4}
  StepLimit = 2
  WallLimit = 5
  MaxAttempts = 1
  Verbs = {"audit"}
  None = None
SPECIFICATION Spec
INVARIANT WallLeftOut
CHECK_DEADLOCK FALSE
