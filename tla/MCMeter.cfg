SPECIFICATION Spec
CONSTANTS
  None = None
  MaxU64 = 7
  StepLimit = 1
  TokenLimit = 6
  WallLimit = 3
  CostLimit = 5
  FormatErrorLimit = 2
  RepairLimit = 1
  InputPrice = 2
  OutputPrice = 1
  Amounts <- MCAmounts
  Bytes <- MCBytes
  Carried <- MCCarried
  MaxSpend = 12
  MaxClock = 4
  MaxBack = 2
INVARIANTS
  TypeOK
  NoHiddenOverrun
  OnlyWorkingTime
PROPERTY
  FirstExhaustionStands
