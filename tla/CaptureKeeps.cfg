SPECIFICATION CaptureSpec
CONSTANTS
  None = None
  p1 = p1
  c1 = c1
  d2 = d2
  d1 = d1
  Request = {c1, d1, d2}
  Charge = {c1}
  Drainer = {d1, d2}
  Proc = {p1}
  ProcOf <- OneProcess
  MaxOwners <- TwoOwners
  RetryLimit = 2
INVARIANTS
  CaptureTypeOK
  NothingLost
  NeverLeftBehind
  HandlesEnd
PROPERTIES
  EvidenceKept
