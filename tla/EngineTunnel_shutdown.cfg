SPECIFICATION Spec
CONSTANTS
    boot = boot
    health = health
    None = None
    s1 = s1
    s2 = s2
    m1 = m1
    Switchers = {s1}
    Maintainers = {}
    InjectFailureThreshold = 1
    MaxFaults = 0
    MaxMoves = 0
    CanShutdown = TRUE
PROPERTY ShutdownStopsTheTunnel
CHECK_DEADLOCK FALSE
