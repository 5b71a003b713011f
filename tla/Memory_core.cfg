SPECIFICATION MSpec
CONSTANTS
    PageSize = 1
    MaxPages = 9
    MemMap <- FlatMap
    LowPages = 1
    KernelBase = 1
    KernelSize = 4
    Requests = {2}
    Reclaims = {}
    Entries = 3
    BootTables <- KernelTables
    RangeCalls <- SmallCalls
    MaxSegs = 2
    ShmSizes = {0, 2, 9}
    ShmMaxSize = 4
    MaxAttach = 1
INVARIANTS
    TableTree
    RegionsApart
PROPERTIES
    MapSpec
CHECK_DEADLOCK FALSE
