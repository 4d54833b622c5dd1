SPECIFICATION Spec
CONSTANTS
    t1 = t1  t2 = t2
    Sampler = Sampler  Dumper = Dumper  Finalizer = Finalizer  NoProc = NoProc
    Threads <- TwoThreads
    NumShards = 2
    Kinds = {"free", "fork"}
    MaxCalls = 0
    PreferWriter = TRUE
PROPERTIES
    EverybodyLeaves
CHECK_DEADLOCK FALSE
