SPECIFICATION Spec
CONSTANTS
    w1 = w1
    w2 = w2
    sheet = sheet
    guide = guide
    state = state
    limited = limited
    free = free
    Workers <- OneWorker
    BlockTypes <- AllTypes
    OnceTypes = {sheet}
    InfraTypes = {state}
    MultiWrite = {state}
    SheetType = sheet
    GuideTypes = {guide}
    Plugins = {free}
    MaxTriggers <- NoLimit
    MaxBlocks = 2
    MaxCommands = 2
    MaxAborts = 0
INVARIANTS
    FailedDispatchRolledBack
CHECK_DEADLOCK FALSE
