SPECIFICATION Spec
CONSTANTS
    f1 = f1
    f2 = f2
    Files = {f1}
    ClusterCount = 4
    System = {2}
    Layouts <- OneFile
    MaxSize = 3
    Huge = 4
    ReadMayFail = FALSE
    WriteMayFail = FALSE
CHECK_DEADLOCK FALSE
PROPERTIES
    ContiguousIfInARow
