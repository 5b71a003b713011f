SPECIFICATION Spec
CONSTANTS
    PageSize = 4
    MaxPages = 12
    MemMap <- SmallMap
    LowPages = 2
    KernelBase = 16
    KernelSize = 6
    Requests = {0, 1, 2, 3}
    Reclaims <- SmallReclaims
CHECK_DEADLOCK FALSE
INVARIANTS
    CountExact
    HeldSafe
    FreeEndsInRam
    HintIsLowerBound
    ReservedNeverHeld
PROPERTIES
    PanicOnlyWhenOut
