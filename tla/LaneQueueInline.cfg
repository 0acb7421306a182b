SPECIFICATION Spec
CONSTANTS
  t1 = t1
  t2 = t2
  d1 = d1
  d2 = d2
  c1 = c1
  NoTask = NoTask
  Task = {t1, t2}
  IntentOf <- OneIntent
  Priority = {0, 1}
  Sla = {"none"}
  Dedup = {TRUE, FALSE}
  Drain = {d1}
  Caller = {c1}
  LeaseBatch = 2
  Id <- Two
  MaxAttempts = 2
  MaxParks = 1
  Outcomes <- Answers
SYMMETRY ContentSymmetry
INVARIANTS
  ExecutionBudget
  OneRowPerContent
  DoneWasServed
PROPERTIES
  NoTwinLeftWaiting
  KeepsItsWord
