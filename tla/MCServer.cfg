\* Four slots, three permits: a connection is refused, sessions outlive their
\* connections, and the drain meets every mix of stages.  The slots are told
\* apart, since symmetry is not sound for liveness.
CONSTANTS
  Conn = {c1, c2, c3, c4}
  MaxConnections = 3
  Tls = TRUE
SPECIFICATION Spec
CHECK_DEADLOCK FALSE
INVARIANTS
  TypeOK
  PermitsConserved
  TrackerCoversWork
PROPERTIES
  EmptyStaysEmpty
  ShutdownReturns
  UpgradeResolves
  WorkDrains
  KeepsPromise
