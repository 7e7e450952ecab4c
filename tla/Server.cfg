SPECIFICATION FairSpec
CONSTANTS
    Requests = {r1, r2}
    MaxConns = 1
    HandlerTimeout = 2
    ShutdownTimeout = 1
INVARIANTS
    TypeOK
    AnswersTellTheTruth
    PoolGoesOn
    StopsAreClean
PROPERTIES
    SignalsEndIt
