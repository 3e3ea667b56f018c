\* One multipart upload above the server's limit, and a handler that gives up
\* on the first error it is handed.
CONSTANTS
  Addr = {"c1", "c2", "p1", "p2", "p3"}
  Garbage = "?"
  Dir <- MCDir
  Tree <- MCTree
  WithExtension <- MCWithExtension
  Exchanges = {"e1", "e2"}
  Workloads <- UploadWorkloads
  Options <- MCOptions
  Renderers <- MCRenderers
  MaxReads = 1
SPECIFICATION Spec
CHECK_DEADLOCK FALSE
PROPERTY OversizedUploadIs413
