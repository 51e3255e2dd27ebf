SPECIFICATION FsckSpec
CONSTANTS
    MaxInode = 8
    Names <- MCNames
    InitKind <- MCInitKind
    InitMeta <- MCInitMeta
    Foreign = {}
    MaxRequests = 2
    MaxCrashes = 1
    NameOrder <- MCNameOrder
    OrphanName <- MCOrphanName
    MaxFscks = 1
INVARIANTS
    OrphansHaveNoName
CHECK_DEADLOCK FALSE
