SPECIFICATION FairSpec
CONSTANTS
    c1 = c1  c2 = c2  p1 = p1  p2 = p2
    Nobody = Nobody  NoImage = NoImage  Evicted = Evicted
    Clients <- OneClient
    Stacks <- OneStack
    Images <- TwoImages
    Pcs <- TwoPcs
    ModuleLists <- TwoLists
    Capacity = 1
    MaxRetained = 1
    MaxId = 3
    MaxGeneration = 3
INVARIANTS
    TablesAgree
    OwnGeneration
    DrainedAtJoin
PROPERTIES
    NoRefreshAfterBarrier
    ImplementsStackResults
    AcceptedCompletes
    WaitsEnd
CHECK_DEADLOCK FALSE
