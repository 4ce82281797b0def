SPECIFICATION FairSpec
CONSTANTS
    c1 = c1
    c2 = c2
    c3 = c3
    Claims = {c1, c2, c3}
    Concurrency = 2
    Queries = 2
    Timeout = 1
    MaxErrors = 1
INVARIANTS
    TypeOK
    QueriesKeepTheirTime
    StopHoldsNothing
    ShutdownIsNoAnswer
PROPERTIES
    StopsInTheEnd
    ClaimsAreSettled
CHECK_DEADLOCK FALSE
