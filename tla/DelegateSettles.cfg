SPECIFICATION FairSpec
CONSTANTS
  r1 = r1
  c1 = c1
  Detached = TRUE
  Reader = {r1}
  Canceller = {}
  Flaky = {"executor"}
CHECK_DEADLOCK FALSE
PROPERTIES
  RowSettles
  EveryEndIsLogged
