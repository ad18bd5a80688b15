SPECIFICATION FairSpec
CONSTANTS
    Jobs = {j1, j2}
    Ways = {w1, w2, a1}
    Anonymous = {a1}
    Known = {w1}
    MaxFails = 1
    MaxTimeouts = 1
    MaxCrashes = 1
    Base = Base
    NoWay = NoWay
    Torn = Torn
    NoSource = NoSource
CHECK_DEADLOCK FALSE
INVARIANTS
    TypeOK
    OneJob
    LockHasOwner
    UpToDateMeansCurrent
    RegistryCoversNetwork
    BuildsReadWholeNetwork
PROPERTIES
    NoLostUpdate
    DoneMeansServed
    EveryJobEnds
