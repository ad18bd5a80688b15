\* Any number of starts, two of them cut short, one chunk lost.
SPECIFICATION Spec
CONSTANTS
    c1 = c1  c2 = c2  a1 = a1  a2 = a2
    Chunks = {c1, c2}
    Areas = {a1, a2}
    Spans <- MCSpans
    MaxCuts = 2  MaxLost = 1
    Absent = Absent  Stub = Stub  Torn = Torn
CHECK_DEADLOCK FALSE
INVARIANTS
    TypeOK
    ServedWhole
    GraphComplete
    RebuildHeals
PROPERTIES
    EditsKept
    StartsSucceed
