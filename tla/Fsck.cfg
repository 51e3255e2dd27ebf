SPECIFICATION FsckSpec
CONSTANTS
    MaxInode = 8
    Names <- MCNames
    InitKind <- MCInitKind
    InitMeta <- MCInitMeta
    Foreign = {2}
    MaxRequests = 2
    MaxCrashes = 1
    NameOrder <- MCNameOrder
    OrphanName <- MCOrphanName
    MaxFscks = 1
INVARIANTS
    FsckTypeOK
    NothingIsLost
    DirectoriesHaveOneName
    OrphansWereMoved
PROPERTIES
    FsckEnds
CHECK_DEADLOCK FALSE
