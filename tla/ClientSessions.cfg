SPECIFICATION Spec
CONSTANTS
    s1 = s1
    s2 = s2
    s3 = s3
    NoSession = NoSession
    Sessions <- ThreeSessions
    Initial <- TwoAtFirst
    Http = TRUE
    MaxActions = 3
    MaxAhead = 1
    MaxFailures = 1
INVARIANTS
    TypeOK
    ShownBelongsToCurrent
    NotificationsBelongToCurrent
    OfferedVersionsAreOwn
PROPERTIES
    BusyEnds
CHECK_DEADLOCK FALSE
