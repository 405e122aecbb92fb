CONSTANTS
  Processes = {p}
  Calls = {"read"}
  Results = {"text"}
  Delays = {1}
  StepLimit = 3
  WallLimit = 6
  MaxAttempts = 2
  Verbs = {"resume", "audit"}
  None = None
SPECIFICATION Spec
INVARIANTS CursorsAgree RepeatsTheRecord AuditConfirms
CHECK_DEADLOCK FALSE
