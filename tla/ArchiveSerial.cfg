SPECIFICATION FairSpec
CONSTANTS
    c1 = c1
    c2 = c2
    Clients <- OneClient
    Interval = 2
    MaxVersions = 2
    MaxTurns = 5
    MaxRequests = 2
    MaxLapses = 1
INVARIANTS
    TypeOK
    NumbersKept
    ActiveListed
    UnsavedBounded
PROPERTIES
    SlotsKept
    RequestsEnd
CHECK_DEADLOCK FALSE
