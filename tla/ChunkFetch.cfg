\* Two callers, two peers. One chunk and the manifest.
CONSTANTS
  w1 = w1
  w2 = w2
  header = header
  bundle = bundle
  None = None
  Callers = {w1, w2}
  Manifest = manifest
  Chunks = {header}
  Plan <- MCPlan
  Peers = {p1, p2}
  MaxCalls = 2
  MaxCrashes = 1
SPECIFICATION Spec
INVARIANTS WaitersServed OutcomeComplete
PROPERTIES ChunksOnlyWhole FetchAnswered
CHECK_DEADLOCK FALSE
