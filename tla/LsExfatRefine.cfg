SPECIFICATION Spec
CONSTANTS
    ClusterCount = 3
    SectorsPerCluster = 8
    HeapStart = 6
    Sizes <- SizesWide
    FirstCapacity = 1
    MallocMayFail = FALSE
    ReadMayFail = FALSE
INVARIANTS TableExact ErrorIsHonest WalkInv
PROPERTY ImplementsImageMap
CHECK_DEADLOCK FALSE
