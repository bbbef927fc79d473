SPECIFICATION Spec
CONSTANTS
    c1 = c1
    c2 = c2
    Clients <- TwoClients
    Interval = 1
    MaxVersions = 2
    MaxTurns = 3
    MaxRequests = 1
    MaxLapses = 1
SYMMETRY ClientSymmetry
INVARIANTS
    CountersBounded
CHECK_DEADLOCK FALSE
