SPECIFICATION Spec
CONSTANTS
  c1 = c1  c2 = c2  c3 = c3  p1 = p1  p2 = p2
  Phones = {p1, p2}
  Cids = {c1, c2, c3}
  Type <- OneOfEach
  Qty <- TwoOneOne
  Bulks = {"close", "suspend", "split"}
  MaxSends = 3
  MaxBulks = 1
  Crashes = 1
SYMMETRY PhoneSymmetry
INVARIANTS OneOrderPerId FilledIffComplete CloseLeavesNone
PROPERTY RefinesOrderLife
