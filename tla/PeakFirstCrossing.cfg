SPECIFICATION PeakSpec
CONSTANTS
    t1 = t1  t2 = t2  a1 = a1  a2 = a2  h1 = h1  h2 = h2  s1 = s1
    NoThread = NoThread  NoKey = NoKey  NoStack = NoStack
    NoRecord = NoRecord  NoBlock = NoBlock
    Threads <- TwoThreads
    Keys <- TwoKeys
    Shards <- TwoShards
    ShardFor <- SplitKeys
    Stacks <- OneStack
    Sizes = {3}
    BacktraceMinSize = 1
    MaxSize = 3
    MaxCalls = 2
    Features = {"realloc", "fail"}
    FirstCrossing = TRUE
    Floor = 1
    Step = 0
    MinPeakStep = 1
    SIZE_MAX = 100
    StepBudget = 2
    ProcReadable = TRUE
    MaxObserved = 2
INVARIANTS
    PeakTypeOK
    SnapInv
PROPERTIES
    ObservedIsLast
    NobodyStays
CHECK_DEADLOCK FALSE
