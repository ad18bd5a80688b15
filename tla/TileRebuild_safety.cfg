SPECIFICATION Spec
CONSTANTS
    Requests = {r1, r2}
    MaxEdits = 2
    MaxExits = 1
    MaxStops = 1
    MaxFaults = 2
    Absent = Absent
    Partial = Partial
    Torn = Torn
    NoSource = NoSource
CHECK_DEADLOCK FALSE
SYMMETRY Symmetry
INVARIANTS
    TypeOK
    GraphNeverLost
    OneValhalla
    ServesLiveGraph
PROPERTY OkIsFresh
