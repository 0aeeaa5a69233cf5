SPECIFICATION DriversSpec
CONSTANTS
    owner = owner
    stopper = stopper
    Stoppers = {stopper}
    MaxDaemons = 3
    MaxStops = 2
    MaxManagers = 2
    MaxHandles = 1
    MaxNativeStops = 1
    Injectors = {i1, i2}
    Patient = {i2}
    manager = manager
    Ops = {"set", "clear", "start", "stop"}
    Endpoints = {e1, e2}
    InProcess = InProcess
    None = None
    outcomes = {"up", "fails"}
    garbles = TRUE
    MaxSessions = 3
    MaxCalls = 3
    MaxFaults = 1
    i1 = i1
    i2 = i2
    e1 = e1
    e2 = e2
INVARIANTS
    DriversTypeOK
    NoOrphanWorkers
    MountIsTrue
    NativeIsTrue
PROPERTIES
    MountIsPhased
CHECK_DEADLOCK FALSE
