\* Two turns, two models, one draft, a chain with or without a backup.
CONSTANTS
  a = a
  b = b
  d = d
  p = p
  q = q
  None = None
  Models = {a, b}
  Drafts = {d}
  Peers = {p, q}
  Targets <- MCTargets
  Target0 <- MCTarget
  Draft0 = d
  Mode0 = "chain"
  Model0 = a
  Turns = {1, 2}
  MaxTokens = 2
  MaxEdits = 1
SPECIFICATION Spec
INVARIANTS OwnPrefix LastReplyWhole NeverUnloaded
PROPERTY TurnEnds
CHECK_DEADLOCK FALSE
