SPECIFICATION Spec
CONSTANTS
    Requests = {r1, r2}
    Bytes <- MCBytes
    Zero = "0"
    Queries <- MCQueries
    Contents <- MCContents
    BlockSize = 2
    Blocks <- MCBlocks
    NoBlock = NoBlock
    MaxEvictions = 1
    MaxCrashes = 1
INVARIANTS
    TypeOK
    BlocksReachable
    NoBlockMissing
PROPERTIES
    IsAFile
    RequestsAnswered
CHECK_DEADLOCK FALSE
