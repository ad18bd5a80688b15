SPECIFICATION Spec
CONSTANTS
    Requests = {r1, r2}
    MaxEdits = 1
    MaxExits = 0
    MaxStops = 1
    MaxFaults = 0
    Absent = Absent
    Partial = Partial
    Torn = Torn
    NoSource = NoSource
CHECK_DEADLOCK FALSE
PROPERTY StartsKeepNetwork
