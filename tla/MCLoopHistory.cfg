SPECIFICATION Spec
CONSTANTS
  a = a
  b = b
  c = c
  Keys <- Pair
  Files <- Single
  Digests <- Pair
  Trees <- Single
  Capabilities <- Pair
  IDENTICAL_WINDOW = 3
  IDENTICAL_LIMIT = 2
  EDIT_CHURN_LIMIT = 2
  NO_PROGRESS_LIMIT = 4
  DENIAL_LIMIT = 2
  MaxEvents = 7
SYMMETRY Symmetry
INVARIANTS
  TypeOK
  FollowsTheRules
  DroppedSignalIsNoStop
CHECK_DEADLOCK FALSE
