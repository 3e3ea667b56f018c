\* Files with precompressed siblings, some of which are links.
CONSTANTS
  Addr = {"c1", "c2", "p1", "p2", "p3"}
  Garbage = "?"
  Dir <- MCDir
  Tree <- MCTree
  WithExtension <- MCWithExtension
  Exchanges = {"e1", "e2"}
  Workloads <- SiblingWorkloads
  Options <- MCOptions
  Renderers <- MCRenderers
  MaxReads = 1
SPECIFICATION Spec
CHECK_DEADLOCK FALSE
PROPERTY NothingFromOutside
