SPECIFICATION MCSpec
CONSTANTS
    c1 = c1
    guest = guest
    Players = {c1, guest}
    Controllers = {}
    Calls = {"play", "badplay", "patrol", "unpatrol", "stop", "pause", "resume", "switch"}
    Length = 1
    MaxCalls = 3
INVARIANTS
    TypeOK
    NoRunaway
PROPERTIES
    BornUnpaused
    StopWins
    SimsEnd
