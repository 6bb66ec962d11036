SPECIFICATION Spec
CONSTANTS
    Letters <- MCLetters
    ImdiskLetters = {3, 4}
    Volumes <- MCVolumes
    Disks <- MCDisks
    Numbers = {0, 1}
    Numbered <- MCNumbered
    DiskOf <- MCDiskOf
    HasImage = {"image", "copy"}
    Guids = {"ours", "other"}
    GuidOf <- MCGuidOf
    Machines <- MCMachines
    Commands <- MCCommands
    Present <- MCPresent
    MaxMoves = 3
INVARIANTS
    DiskIsTheParams
    LetterIsTheImages
    ResultIsHonest
PROPERTY Ends
CHECK_DEADLOCK FALSE
