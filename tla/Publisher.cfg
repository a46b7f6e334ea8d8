SPECIFICATION FairSpec
CONSTANTS
    c1 = c1
    c2 = c2
    Callers = {c1, c2}
    NoCaller = NoCaller
    Attempts = 2
    MaxCalls = 3
CHECK_DEADLOCK FALSE
INVARIANTS
    TypeOK
    NoConnectionLeak
    PublisherIsWhole
    RetriesOnItsOwnConnection
    ConnectionsBounded
    HiccupIsHidden
PROPERTIES
    ImplementsPort
    EveryCallReturns
