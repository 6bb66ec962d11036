SPECIFICATION Spec
CONSTANTS
    Root = Root
    d1 = d1
    f1 = f1
    short = short
    long = long
    Dot = Dot
    NoName = NoName
    NIL = NIL
    Directories = {d1}
    RegularFiles = {f1}
    Names = {short, long}
    Forbidden = {}
    NameEntries <- Lengths
    Paths <- PathsFlat
    ClusterSlots = 4
    Space = 3
    MaxFaults = 0
    MaxCalls = 5
CHECK_DEADLOCK FALSE
INVARIANT
    LabelStays
