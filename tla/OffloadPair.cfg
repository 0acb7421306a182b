SPECIFICATION TrackerSpec
CONSTANTS
  t1 = t1
  t2 = t2
  d1 = d1
  b1 = b1
  b2 = b2
  NoTask = NoTask
  NoBatch = NoBatch
  Task = {t1, t2}
  IntentOf <- OneIntent
  Priority = {0}
  Sla = {"none"}
  Dedup = {FALSE}
  Drain = {d1}
  Caller = {}
  Batch = {b1, b2}
  LeaseBatch = 2
  Id <- Two
  MaxAttempts = 2
  MaxParks = 1
  Outcomes <- Answered
  PlannerSteady = FALSE
SYMMETRY Interchangeable
CONSTRAINT PairTwice
INVARIANTS
  KeyBoughtOnce
  TrackerTypeOK
PROPERTIES
  SettledStays
  KeepsItsWord
