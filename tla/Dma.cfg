SPECIFICATION Spec
CONSTANTS
    t1 = t1
    t2 = t2
    NoThread = NoThread
    Threads <- TwoThreads
    Fds <- TwoFds
    Handles <- OneHandle
    Sizes <- TwoSizes
    Environments <- OpenOrBoth
    MaxCalls = 5
SYMMETRY ThreadSymmetry
INVARIANTS
    RegistryExact
    BuffersCounted
    SharedSized
CHECK_DEADLOCK FALSE
