SPECIFICATION Spec
CONSTANTS
    t1 = t1  t2 = t2  a1 = a1  a2 = a2  h1 = h1  h2 = h2  s1 = s1  s2 = s2
    NoThread = NoThread  NoKey = NoKey  NoStack = NoStack
    NoRecord = NoRecord  NoBlock = NoBlock
    Threads <- TwoThreads
    Keys <- TwoKeys
    Shards <- TwoShards
    ShardFor <- SplitKeys
    Stacks <- OneStack
    Sizes = {1, 3}
    BacktraceMinSize = 1
    MaxSize = 3
    MaxCalls = 3
    Features = {"realloc", "mmap", "fixed", "gpu", "fail", "untracked"}
SYMMETRY Symmetry
INVARIANTS
    KeysNameFrames
    RecordsExact
CHECK_DEADLOCK FALSE
