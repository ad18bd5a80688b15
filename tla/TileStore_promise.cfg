SPECIFICATION FairSpec
CONSTANTS
    Requests = {r1, r2, r3}
    MaxEdits = 2
    Torn = Torn
    NoSource = NoSource
CHECK_DEADLOCK FALSE
INVARIANT ServedOneByOne
PROPERTY GraphNeverGoesBack
