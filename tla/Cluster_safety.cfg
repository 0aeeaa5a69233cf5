SPECIFICATION MCSpec
CONSTANTS
    None = None
    Me = Me
    n1 = n1
    n2 = n2
    Nodes = {n1, n2}
    AutoNodes = {n1, n2}
    Modes = {"off", "auto"}
    Known <- NobodyYet
    MaxEpoch = 2
    MaxClaims = 2
    MaxFaults = 1
    MaxSaves = 1
PROPERTIES
    StaleClaimsAreFenced
    SlavesFollow
