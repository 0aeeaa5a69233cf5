SPECIFICATION FairSpec
CONSTANTS
    keepalive = keepalive
    companion = companion
    Home = Home
    None = None
    c1 = c1
    paris = paris
    lyon = lyon
    Clients = {c1}
    Ops = {"set", "clear", "relance", "forget"}
    Monitors = {keepalive, companion}
    Places = {paris, lyon}
    Jitter = TRUE
    driftConfirmFailures = 2
    maxHistoryEntries = 1
    MaxCalls = 2
    MaxDrops = 1
INVARIANTS
    TypeOK
    NoRandomWalk
PROPERTIES
    DriftIsNotForgotten
    HoldHeals
