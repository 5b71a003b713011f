SPECIFICATION Spec
CONSTANTS
    PageSize = 256
    HeapMin = 512
    HeapSize = 1024
    Sizes = {40, 150}
    OtherClients = {1}
    MaxPages = 5
INVARIANTS
    BlocksTile
    LiveMatchesUsed
    FreeNeighboursOnlyAtRuns
CHECK_DEADLOCK FALSE
