SPECIFICATION Spec
CONSTANTS
    sda = sda
    nvme0n1 = nvme0n1
    sr0 = sr0
    Disks = {sda, nvme0n1, sr0}
    Filtered = {sr0}
    Partition <- Names
    Sizes = {16, 32}
    VentoySize = 16
    Ids = {"ventoy", "other"}
    VentoyId = "ventoy"
    PartStart = 4096
    Image <- TwoRegions
    MaxPlugs = 1
    OpenMayFail = TRUE
CHECK_DEADLOCK FALSE
INVARIANTS
    TypeOK
    FindInv
    FoundIsVentoyDisk
    FoundIsUnambiguous
    RefusalIsRight
    TableIsImage
PROPERTY
    Exits
