SPECIFICATION Spec
CONSTANTS
    c1 = c1
    c2 = c2
    Clients <- OneClient
    Interval = 2
    MaxVersions = 2
    MaxTurns = 1
    MaxRequests = 1
    MaxLapses = 0
INVARIANTS
    NewestIsCurrent
CHECK_DEADLOCK FALSE
