SPECIFICATION PeakSpec
CONSTANTS
    t1 = t1  t2 = t2  a1 = a1  a2 = a2  h1 = h1  h2 = h2  s1 = s1
    NoThread = NoThread  NoKey = NoKey  NoStack = NoStack
    NoRecord = NoRecord  NoBlock = NoBlock
    Threads <- TwoThreads
    Keys <- TwoKeys
    Shards <- TwoShards
    ShardFor <- SplitKeys
    Stacks <- OneStack
    Sizes = {1, 3}
    BacktraceMinSize = 1
    MaxSize = 3
    MaxCalls = 2
    Features = {"mmap", "mremap", "fixed", "direct"}
    FirstCrossing = FALSE
    Floor = 1
    Step = 4
    MinPeakStep = 1
    SIZE_MAX = 100
    StepBudget = 2
    ProcReadable = FALSE
    MaxObserved = 1
SYMMETRY Symmetry
INVARIANTS
    BooksBalance
    PeakCoversCurrent
    SnapshotConsistent
PROPERTIES
    NoLateContext
    TrackedNeverOverrides
CHECK_DEADLOCK FALSE
