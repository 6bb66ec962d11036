SPECIFICATION Spec
CONSTANTS
    f1 = f1
    f2 = f2
    Files = {f1, f2}
    ClusterCount = 4
    System = {2}
    Layouts <- TwoFiles
    MaxSize = 3
    Huge = 4
    ReadMayFail = TRUE
    WriteMayFail = TRUE
CHECK_DEADLOCK FALSE
INVARIANTS
    TypeOK
    NoLeak
    FptrCoherent
    NeverBug
    CleanBitmapIsSaved
    NoCrossLink
    GuardsHold
PROPERTIES
    ContentsStay
    GrownIsZero
    CallsEnd
CONSTRAINT Unharmed
