SPECIFICATION Spec
CONSTANTS
    Root = Root
    d1 = d1
    f1 = f1
    short = short
    long = long
    Dot = Dot
    NoName = NoName
    NIL = NIL
    Directories = {d1}
    RegularFiles = {f1}
    Names = {short, long}
    Forbidden = {}
    NameEntries <- Lengths
    Paths <- PathsDeep
    ClusterSlots = 4
    Space = 3
    MaxFaults = 1
    MaxCalls = 7
CHECK_DEADLOCK FALSE
INVARIANTS
    TreeMatchesVolume
    RefsBalanced
PROPERTIES
    CleanMeansWhole
    AbortsOnlyFor
