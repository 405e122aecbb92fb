\* The thresholds of the code; two actions and steps without one.
SPECIFICATION Spec
CONSTANTS
  a = a
  b = b
  c = c
  Keys <- Pair
  Files <- Nothing
  Digests <- Nothing
  Trees <- Nothing
  Capabilities <- Nothing
  IDENTICAL_WINDOW = 6
  IDENTICAL_LIMIT = 3
  EDIT_CHURN_LIMIT = 8
  NO_PROGRESS_LIMIT = 10
  DENIAL_LIMIT = 3
  MaxEvents = 9
INVARIANT RepeatIsWithinSixSteps
CHECK_DEADLOCK FALSE
