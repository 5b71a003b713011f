SPECIFICATION Spec
CONSTANTS
    PageSize = 256
    HeapMin = 512
    HeapSize = 1280
    Sizes = {8, 100, 150}
    OtherClients = {1}
    MaxPages = 8
INVARIANTS
    BlocksInHeapPages
CHECK_DEADLOCK FALSE
