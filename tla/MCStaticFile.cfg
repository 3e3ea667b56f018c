\* Two requests to a file and its siblings, and a deployment at any point.
CONSTANTS
  Req = {r1, r2}
  Nobody = Nobody
  MaxInt = 3
  Accept <- Accepts
  Kind <- RequestKinds
  Size = {1, 2}
  Time = {0, 3}
  Deployed = {"plain", "br"}
  MaxWrites = 1
SPECIFICATION Spec
SYMMETRY Symmetry
CHECK_DEADLOCK FALSE
INVARIANTS
  TypeOK
  CopyMatchesTag
  ValidatorsHold
  NeverCutShort
  RangesExact
