SPECIFICATION Spec
CONSTANTS
    MaxMessages = 2
    MaxProbes = 2
INVARIANT KeptUpToDate
CHECK_DEADLOCK FALSE
