SPECIFICATION FairSpec
CONSTANTS
    None = None
    Me = Me
    n1 = n1
    n2 = n2
    Nodes = {n1, n2}
    AutoNodes = {n1, n2}
    Modes = {}
    Known <- Everybody
    MaxEpoch = 3
    MaxClaims = 1
    MaxFaults = 1
    MaxSaves = 0
PROPERTIES
    FailoverHappens
