SPECIFICATION FairSpec
CONSTANTS
    Injectors = {i1, i2}
    Patient = {i2}
    manager = m
    Ops = {"set", "clear", "start", "stop"}
    Endpoints = {e1, e2}
    InProcess = InProcess
    None = None
    outcomes = {"up", "fails"}
    garbles = TRUE
    MaxSessions = 2
    MaxCalls = 3
    MaxFaults = 1
    i1 = i1
    i2 = i2
    m = m
    e1 = e1
    e2 = e2
INVARIANT AnswersMatch
PROPERTY EveryCallReturns
CHECK_DEADLOCK FALSE
