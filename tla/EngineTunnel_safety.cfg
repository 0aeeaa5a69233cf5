SPECIFICATION Spec
CONSTANTS
    boot = boot
    health = health
    None = None
    s1 = s1
    s2 = s2
    m1 = m1
    Switchers = {s1, s2}
    Maintainers = {m1}
    InjectFailureThreshold = 1
    MaxFaults = 1
    MaxMoves = 0
    CanShutdown = TRUE
CONSTRAINT OneCompanion
CHECK_DEADLOCK FALSE
INVARIANTS
    TypeOK
    PublishesCurrentDriver
    FencedStartsAreCancelled
    StartingIsOwned
    OnlyCurrentDaemon
    OwnStartsEndWithTheRun
PROPERTIES
    StartsAreFenced
