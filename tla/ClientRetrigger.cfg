SPECIFICATION Spec
CONSTANTS
    MaxReconnect = 1
    Histories <- Played
    Commands = {"message", "retrigger"}
    MaxCommands = 1
    MaxBlocks = 1
    MaxLosses = 0
    MaxDeletes = 0
INVARIANTS
    RetriggerUpdatesInPlace
CHECK_DEADLOCK FALSE
