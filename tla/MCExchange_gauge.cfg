\* Two requests behind a Timeout and a Metrics: one of them is dropped inside.
CONSTANTS
  Addr = {"c1", "c2", "p1", "p2", "p3"}
  Garbage = "?"
  Dir <- MCDir
  Tree <- MCTree
  WithExtension <- MCWithExtension
  Exchanges = {"e1", "e2"}
  Workloads <- GaugeWorkloads
  Options <- MCOptions
  Renderers <- MCRenderers
  MaxReads = 1
SPECIFICATION Spec
CHECK_DEADLOCK FALSE
INVARIANT InFlightIsLive
