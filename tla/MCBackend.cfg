CONSTANTS
    c1 = c1
    c2 = c2
    c3 = c3
    Client = {c1, c2, c3}
    Shutdown = Shutdown
SPECIFICATION FairSpec
INVARIANTS
    ResultTellsTruth
    NoStrandedCaller
PROPERTIES
    NothingRunsAfterStop
    EveryCallReturns
    ImplementsService
CHECK_DEADLOCK FALSE
