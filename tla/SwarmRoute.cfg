\* A model of two ranges, one other peer, two nodes of the DHT.
CONSTANTS
  Ranges = {r1, r2}
  Envelope = envelope
  Refresher = refresher
  Host = host
  Watcher = watcher
  Tasks = {r1, r2, refresher, host, watcher}
  Keys = {r1, r2, envelope}
  Me = me
  Others = {p1}
  First = p1
  NoForward = {}
  Nodes = {n1, n2}
  QueueCap = 2
  MaxCandidates = 2
  MaxMint = 1
  MaxIdent = 1
  MaxCalls = 2
  None = None
SPECIFICATION Spec
INVARIANTS HopsServeTheirRange
PROPERTIES  RefreshEnds
CHECK_DEADLOCK FALSE
