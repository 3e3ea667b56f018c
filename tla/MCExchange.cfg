CONSTANTS
  Addr = {"c1", "c2", "p1", "p2", "p3"}
  Garbage = "?"
  Dir <- MCDir
  Tree <- MCTree
  WithExtension <- MCWithExtension
  Exchanges = {"e1", "e2"}
  Workloads <- MCWorkloads
  Options <- MCOptions
  Renderers <- MCRenderers
  MaxReads = 2
SPECIFICATION Spec
CHECK_DEADLOCK FALSE
INVARIANTS
  TypeOK
  MetricsBalance
  ReadsHonest
  LimitInForce
  Dressed
  EncodedOnce
  ClientIpFromChain
PROPERTIES
  ServedInside
  TimeoutAnswers
