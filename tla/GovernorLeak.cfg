SPECIFICATION Spec
CONSTANTS
  p1 = p1
  p2 = p2
  a = a
  b = b
  c = c
  Thread = {a}
  Proc = {p1}
  ProcOf <- OneThread
  SkipsOf <- OneSkips
  LaneLimit = 1
  VendorLimit = 2
  GlobalLimit = 2
  RateMax = 2
  MaxTariff = 1
  MaxSpells = 1
INVARIANT QuietMeansFree
