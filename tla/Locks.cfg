SPECIFICATION Spec
CONSTANTS
    t1 = t1  t2 = t2
    Sampler = Sampler  Dumper = Dumper  Finalizer = Finalizer  NoProc = NoProc
    Threads <- TwoThreads
    NumShards = 2
    Kinds = {"malloc", "free", "realloc", "munmap", "mremap", "mmapShared", "dmaIoctl", "close", "fork"}
    MaxCalls = 3
    PreferWriter = FALSE
SYMMETRY ThreadSymmetry
INVARIANTS
    LockInv
    NoCyclicWait
    FinalizerAlone
    ChildUnlocked
CHECK_DEADLOCK FALSE
