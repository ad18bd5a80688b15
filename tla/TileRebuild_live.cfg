SPECIFICATION FairSpec
CONSTANTS
    Requests = {r1, r2}
    MaxEdits = 1
    MaxExits = 1
    MaxStops = 0
    MaxFaults = 2
    Absent = Absent
    Partial = Partial
    Torn = Torn
    NoSource = NoSource
CHECK_DEADLOCK FALSE
PROPERTIES
    ImplementsStore
    ImplementsFairStore
    RoutingComesBack
