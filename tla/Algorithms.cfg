SPECIFICATION Spec
CONSTANTS
    ArmSpace = 1048576
    DwarfSpace = 65536
    PointerSize = 2
    MaxIterations = 20
    Paddings = {TRUE}
    SymbolSizes = {1, 2}
    PageSize = 4
    CachePage = 4
    CacheLimit = 4
    StringBlock = 3
    MaxIovecs = 2
    SizeSpace = 64
    Targets = {"fp", "forced", "compiler", "linux"}
    PeakKernels = {"plain", "ion"}
    FirstDigits = {TRUE}
    ReadBuffer = 8
    UnsignedSpace = 64
    DefaultPeakSampleMs = 50
    PeakMinSize = 10
    MiB = 4
    SizeMax = 255
    HeaderSize = 24
    HeaderAlign = 8
    PointerAlign = 4
    MapPage = 32
    MaxRaw = 6
    WordSize = 8
    PcAdjust = 4
    Slots = 6
    MaxDeduped = 3
    Generations = 3
    MapRefresh = 2
    StepFileUnit = 3
    StepListBudget = 4
INVARIANTS
    CallerRestored
    TablesRead
    AddressesPlaced
    MemoryExact
    StacksShown
    SamplesTrue
    ReportsTrue
    RequestsHeld
CHECK_DEADLOCK FALSE
