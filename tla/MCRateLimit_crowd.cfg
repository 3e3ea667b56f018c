\* Three clients over two buckets; a tick refills a token and a half, and a
\* bucket that may be dropped as idle is full by then.
CONSTANTS
  Call = {c1, c2}
  Ip = {a, b, c}
  Cost = 2
  Capacity = 4
  Rate = 3
  MaxBuckets = 2
  IdleWindow = 2
  MaxTime = 3
  MaxGrants = 3
SPECIFICATION Spec
SYMMETRY Symmetry
CHECK_DEADLOCK FALSE
INVARIANTS TypeOK BucketsBounded RateHonouredInOrder
PROPERTIES RetryAfterIsEnough
