\* Sessions in the cookie, of which some hold a value with a '|' in it.
CONSTANTS
  Req = {r1, r2}
  MaxId = 2
  MaxTime = 2
  MaxSessions = 2
  IdleEviction = 1
  MaxAge = 1
  StoreMode = FALSE
  Piped = {r1}
SPECIFICATION Spec
CHECK_DEADLOCK FALSE
INVARIANTS
  WrittenIsReadBack
