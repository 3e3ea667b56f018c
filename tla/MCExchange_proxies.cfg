\* A request through proxies that are trusted, with chains of every shape.
CONSTANTS
  Addr = {"c1", "c2", "p1", "p2", "p3"}
  Garbage = "?"
  Dir <- MCDir
  Tree <- MCTree
  WithExtension <- MCWithExtension
  Exchanges = {"e1", "e2"}
  Workloads <- ProxyWorkloads
  Options <- MCOptions
  Renderers <- MCRenderers
  MaxReads = 1
SPECIFICATION Spec
CHECK_DEADLOCK FALSE
INVARIANT FallsBackToPeer
