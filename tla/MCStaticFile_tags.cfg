\* A file that nobody changes, served with and without its sibling.
CONSTANTS
  Req = {r1, r2}
  Nobody = Nobody
  MaxInt = 3
  Accept <- Accepts
  Kind <- RequestKinds
  Size = {1, 2}
  Time = {0, 3}
  Deployed = {"plain", "br"}
  MaxWrites = 0
SPECIFICATION Spec
SYMMETRY Symmetry
CHECK_DEADLOCK FALSE
INVARIANTS StrongTagNamesOneBody
