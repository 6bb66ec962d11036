SPECIFICATION Spec
CONSTANTS
    ClusterCount = 4
    SectorsPerCluster = 2
    HeapStart = 6
    Sizes <- SizesSmall
    FirstCapacity = 1
    MallocMayFail = TRUE
    ReadMayFail = TRUE
INVARIANTS TypeOK TableFits RegionsTile
PROPERTY Terminates
CHECK_DEADLOCK FALSE
