SPECIFICATION Spec
CONSTANTS
    w1 = w1
    w2 = w2
    sheet = sheet
    guide = guide
    state = state
    limited = limited
    free = free
    Workers <- TwoWorkers
    BlockTypes = {sheet}
    OnceTypes = {sheet}
    InfraTypes = {}
    MultiWrite = {}
    SheetType = sheet
    GuideTypes = {}
    Plugins = {limited}
    MaxTriggers <- OnceEach
    MaxBlocks = 1
    MaxCommands = 3
    MaxAborts = 1
SYMMETRY WorkerSymmetry
INVARIANTS
    TurnCountBounded
    BlockCountsBounded
    ExecutionCountsBounded
CHECK_DEADLOCK FALSE
