SPECIFICATION Spec
CONSTANTS
  c1 = c1
  c2 = c2
  p1 = p1
  None = None
  Calls <- MCCalls
  Payloads <- MCPayloads
  Outcomes <- MCOutcomes
  MaxLines = 4
INVARIANTS
  TypeOK
  WriteAhead
  CommitPoint
  EvidenceReadable
PROPERTY
  ImplementsEvidenceLog
