SPECIFICATION Spec
CONSTANTS
  t1 = t1
  t2 = t2
  d1 = d1
  d2 = d2
  c1 = c1
  NoTask = NoTask
  Task = {t1}
  IntentOf <- OneIntent
  Priority = {0}
  Sla = {"none", "open"}
  Dedup = {TRUE, FALSE}
  Drain = {d1, d2}
  Caller = {}
  LeaseBatch = 1
  Id <- Two
  MaxAttempts = 2
  MaxParks = 1
  Outcomes <- WithBatches
SYMMETRY Symmetry
INVARIANTS
  TypeOK
  RetryBudget
  ExecutionBudget
PROPERTIES
  SettledStays
