CONSTANTS
  Processes = {p, q}
  Calls = {}
  Results = {}
  Delays = {4}
  StepLimit = 1
  WallLimit = 5
  MaxAttempts = 3
  Verbs = {"resume"}
  None = None
SPECIFICATION Spec
SYMMETRY Symmetry
INVARIANTS TypeOK OneWriter WallIsCarried
CHECK_DEADLOCK FALSE
