CONSTANTS
  Conn = {c1, c2}
  MaxConnections = 1
  Tls = TRUE
SPECIFICATION Spec
SYMMETRY Symmetry
CHECK_DEADLOCK FALSE
INVARIANT FatalErrorDrains
