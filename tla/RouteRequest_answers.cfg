\* Two requests, one maintenance run, one fault of the database.
SPECIFICATION RouteSpec
CONSTANTS
    a1 = a1  a2 = a2  g1 = g1  g2 = g2  u1 = u1
    Attempts = {a1, a2}
    Maintainers = {m1}
    Cells = {g1, g2}
    Users = {u1}
    NoUser = NoUser
    Nobody = Nobody
    Asked <- Itineraries
    Responses <- ResponseOfEachClass
    NoNumber = NoNumber
    Unreachable = Unreachable
    Startup = Startup
    MaxTries = 2
    MaxAborts = 1
CHECK_DEADLOCK FALSE
INVARIANTS
    RouteTypeOK
    AttemptCountExact
    AnswersMatchLog
    StartupSafe
PROPERTY EveryRequestAnswered
