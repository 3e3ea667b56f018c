\* Three requests and three ids over a store of two: requests of one session
\* overlap, a save evicts another session, entries go idle, sessions expire.
CONSTANTS
  Req = {r1, r2, r3}
  MaxId = 3
  MaxTime = 2
  MaxSessions = 2
  IdleEviction = 1
  MaxAge = 1
  StoreMode = TRUE
  Piped = {r1, r2, r3}
SPECIFICATION Spec
SYMMETRY Symmetry
CHECK_DEADLOCK FALSE
INVARIANTS
  TypeOK
  StoreBounded
  OldIdSeesNoLogin
  CookieHasSession
  EndedUnlessShared
PROPERTIES
  NoImmortalSession
  EndedNotServed
