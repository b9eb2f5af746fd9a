SPECIFICATION Spec
CONSTANTS
    Threads = {caller}
    Names = {n1, n2, n3}
    Sizes = {0, 1}
    NumSectors = 8
    NumDirEntries = 2
    Straddle = 2
    NumDirect = 3
    None = None
    RemoveOpen = FALSE
    MaxCrashes = 1
INVARIANTS
    DiskConsistent
    CrashSparesOthers
PROPERTIES
    ImplementsFileStore
CHECK_DEADLOCK FALSE
