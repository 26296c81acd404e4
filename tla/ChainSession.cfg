CONSTANTS
    p1 = p1
    p2 = p2
    p3 = p3
    None = None
    Consumers = {c1}
    Peers = {p1, p2, p3}
    NumConns = 3
    NumInstances = 3
    Peer0 <- TwoPeers
    Alts0 <- Alternates
    PromptLen = 2
    DraftLen = 2
    MaxSteps = 3
    MaxTurns = 2
    MaxFailover = 1
    MaxFaults = 1
    Faults = {"break", "crash", "hang", "drain", "fail"}
SPECIFICATION FairSpec
INVARIANTS NoStaleReply InStep CacheExact
PROPERTIES TurnEnds GuardsReturn
CHECK_DEADLOCK FALSE
