CONSTANTS
  Call = {c1, c2}
  Ip = {a}
  Cost = 2
  Capacity = 4
  Rate = 2
  MaxBuckets = 2
  IdleWindow = 2
  MaxTime = 3
  MaxGrants = 6
SPECIFICATION Spec
SYMMETRY Symmetry
CHECK_DEADLOCK FALSE
INVARIANTS RateHonoured
