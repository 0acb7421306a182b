SPECIFICATION Spec
CONSTANTS
  r1 = r1
  c1 = c1
  Detached = TRUE
  Reader = {}
  Canceller = {c1}
  Flaky = {"executor", "launcher"}
CHECK_DEADLOCK FALSE
INVARIANTS
  TypeOK
  LedgerFollows
  RowFollows
PROPERTIES
  EndStands
  RowStands
  LossIsOfTheDead
