SPECIFICATION FairSpec
CONSTANTS
    boot = boot
    health = health
    None = None
    s2 = s2
    m1 = m1
    Switchers = {}
    Maintainers = {}
    InjectFailureThreshold = 1
    MaxFaults = 1
    MaxMoves = 0
    CanShutdown = FALSE
PROPERTY DaemonDeathIsRepaired
