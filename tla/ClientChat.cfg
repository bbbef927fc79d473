SPECIFICATION Spec
CONSTANTS
    MaxReconnect = 1
    Histories <- NewOrPlayed
    Commands = {"message", "init_game", "response", "sheet", "guide", "regenerate", "retrigger"}
    MaxCommands = 2
    MaxBlocks = 1
    MaxLosses = 1
    MaxDeletes = 1
INVARIANTS
    TypeOK
    BlocksOfTheirTurn
    BlockShownOnce
    EndedTurnsFlushed
    ConnectionWatched
    DisconnectedIsFinal
PROPERTIES
    LeftForGood
    ReconnectSettles
    StreamingEnds
    PluginStageEnds
CHECK_DEADLOCK FALSE
