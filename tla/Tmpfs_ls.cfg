SPECIFICATION Spec
CONSTANTS
    Paths <- SmallPaths
    Mounts <- SmallMounts
    MaxChildren = 2
    MaxMounts = 2
    Chunk = 2
    Offsets = {}
    Writes = {}
    SizeMod = 8
    IdxMod = 4
    MaxInodes = 2
    MaxOpen = 1
PROPERTIES
    LsEnds
CHECK_DEADLOCK FALSE
