SPECIFICATION Spec
CONSTANTS
  None = None
  Gate = "harness"
  OtherGate = "tests"
  Replies = {"r1"}
  Hosts <- MCHosts
  MaxReports = 3
  MaxSteps = 1
INVARIANTS
  TypeOK
  ReadsTheChild
  PassIsEarned
  StartsOnALocalDisk
  DamageIsSeen
  AnchorPinsTheRun
  VerdictIsTheWorst
CHECK_DEADLOCK FALSE
