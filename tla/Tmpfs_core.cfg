SPECIFICATION Spec
CONSTANTS
    Paths <- SmallPaths
    Mounts <- SmallMounts
    MaxChildren = 2
    MaxMounts = 2
    Chunk = 2
    Offsets = {2, 6}
    Writes <- SmallWrites
    SizeMod = 8
    IdxMod = 3
    MaxInodes = 4
    MaxOpen = 2
INVARIANTS
    TreeSound
    RefCountExact
    DataCovered
PROPERTIES
    MadeIsFound
CHECK_DEADLOCK FALSE
