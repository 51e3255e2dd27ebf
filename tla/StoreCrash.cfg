SPECIFICATION Safety
CONSTANTS
    n1 = n1
    n2 = n2
    Nodes <- MCNodes
    NodeId <- MCNodeId
    Inodes = {2}
    Root = 1
    Initial = {}
    Entries = {e1}
    NotLocal = NotLocal
    Subscribed = {n2}
    Listers = {}
    Epoch = 100
    Hour = 1
    PageSize = 2
    MaxClock <- Still
    MaxEdits = 2
    MaxFaults = 1
INVARIANTS
    TypeOK
    PendingIsLocal
    WaitersHaveFetch
PROPERTIES
    RevisionsImmutable
CHECK_DEADLOCK FALSE
