SPECIFICATION Spec
CONSTANTS
  p1 = p1
  p2 = p2
  a = a
  b = b
  c = c
  Thread = {a, b, c}
  Proc = {p1, p2}
  ProcOf <- ThreeThreads
  SkipsOf <- Skips
  LaneLimit = 1
  VendorLimit = 2
  GlobalLimit = 2
  RateMax = 1
  MaxTariff = 1
  MaxSpells = 1
SYMMETRY Symmetry
INVARIANTS
  TypeOK
  SharedCapHeld
  SlotsExact
  GlobalExact
  PermitsReturn
PROPERTY
  LearnedCapStays
