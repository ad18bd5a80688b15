SPECIFICATION Spec
CONSTANTS
    Jobs = {j1, j2}
    Ways = {w1, w2, a1}
    Anonymous = {a1}
    Known = {w1}
    MaxFails = 0
    MaxTimeouts = 0
    MaxCrashes = 0
    Base = Base
    NoWay = NoWay
    Torn = Torn
    NoSource = NoSource
CHECK_DEADLOCK FALSE
INVARIANT AcceptedIsRun
