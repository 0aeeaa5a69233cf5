SPECIFICATION PeersSpec
CONSTANTS
    None = None
    Me = Me
    n1 = n1
    n2 = n2
    n3 = n3
    Nodes = {n1, n2, n3}
    AutoNodes = {n1, n3}
    Modes = {}
    Known <- Everybody
    MaxEpoch = 2
    MaxClaims = 1
    MaxFaults = 0
    MaxSaves = 0
    Engines = {n1, n2}
    Writers = {w}
    MaxTime = 3
    MaxLosses = 2
    Conns = {c}
    Emitters = {emitter}
    SendCap = 1
    BroadcastCap = 1
    Burst = 1
    MaxChanges = 2
    MaxRequests = 2
    w = w
    c = c
    emitter = emitter
INVARIANTS
    PeersTypeOK
    MajorityElects
PROPERTIES
    NewerIsKept
    SlavesPull
    FeedIsGapless
    GoneClientsLeave
CHECK_DEADLOCK FALSE
