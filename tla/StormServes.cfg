SPECIFICATION Spec
CONSTANTS
  r1 = r1
  r2 = r2
  r3 = r3
  Req = {r1, r2}
  Budget = 1
  Concurrency = 1
  RefillDepth = 1
  Closers = {"drain", "evict"}
CHECK_DEADLOCK FALSE
INVARIANTS
  TypeOK
  NoOneStranded
  DrainedCloseAnswersAll
  OnlyRealtimeHoldsClose
PROPERTIES
  KeepsPromise
