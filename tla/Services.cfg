SPECIFICATION ServicesSpec
CONSTANTS
    c1 = c1
    c2 = c2
    here = here
    there = there
    phone = phone
    service = service
    place = place
    Callers = {c1, c2}
    Peers = {here, there}
    Local = {here}
    Devices = {phone}
    Burst = 1
    EntryTTL = 1
    StepLen = 1
    MaxTime = 2
    Restarters = {c1, c2}
    Services = {service}
    DelayMin = 1
    DelayMax = 2
    Threshold = 1
    MaxRuns = 2
    Clients = {c1, c2}
    Places = {place}
    MaxChanges = 2
    MaxFaults = 2
    Raw = {"google", "mapbox", "osrm", "other"}
    MaxRaw = 2
    Paths <- ShortPaths
    MaxUpdates = 1
INVARIANTS
    ServicesTypeOK
    ThrottleHolds
    OnlyTheEntitledPass
    QuietIsStored
    FallbackIsComplete
    PathIsKept
PROPERTIES
    StartReplaces
CHECK_DEADLOCK FALSE
