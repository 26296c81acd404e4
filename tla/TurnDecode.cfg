CONSTANTS
  a = a
  b = b
  eos = eos
  None = None
  Tokens = {a, b, eos}
  Eos = eos
  Prompt <- ShortPrompt
  MaxNew = 4
  K = 2
  NumHops = 1
SPECIFICATION FairSpec
INVARIANTS CachesAgree DraftAgrees
PROPERTIES ImplementsGreedy TurnEnds
CHECK_DEADLOCK FALSE
