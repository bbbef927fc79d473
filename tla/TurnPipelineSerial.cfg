SPECIFICATION FairSpec
CONSTANTS
    w1 = w1
    w2 = w2
    sheet = sheet
    guide = guide
    state = state
    limited = limited
    free = free
    Workers <- OneWorker
    BlockTypes <- AllTypes
    OnceTypes = {sheet}
    InfraTypes = {state}
    MultiWrite = {state}
    SheetType = sheet
    GuideTypes = {guide}
    Plugins <- TwoPlugins
    MaxTriggers <- OnceEach
    MaxBlocks = 2
    MaxCommands = 2
    MaxAborts = 1
INVARIANTS
    TypeOK
    ShownBlocksStored
    TriggerLimit
PROPERTIES
    LedgerKept
    CommandsEnd
CHECK_DEADLOCK FALSE
