SPECIFICATION Spec
CONSTANTS
    fileA = fileA
    fileB = fileB
    folder = folder
    nobody = nobody
    NoName = nobody
    Names <- MCNames
    NameEntries <- MCNameEntries
    Base <- MCBase
    FilePaths <- MCFilePaths
    DirPaths <- MCDirPaths
    Modes <- MCModes
    Handles <- MCHandles
    Types <- MCTypes
    ReadLengths <- MCReadLengths
    WriteLengths <- MCWriteLengths
    Seeks <- MCSeeks
    Entries = 8
    Clusters <- MCClusters
    SectorEntries = 4
    Buffers = 1
    ClusterSectors = 1
    SectorUnits = 2
    Slots = 4
    RootSectors = 2
    MaxFaults = 1
    MaxCalls = 7
    MaxCallsAfterFault = 1
INVARIANTS
    BuffersAreCoherent
    ChainsAreWhole
    NamesAreFound
    FilesKeepTheirText
PROPERTIES
    TableIsKept
    HandlesAreKept
CHECK_DEADLOCK FALSE
