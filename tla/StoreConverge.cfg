SPECIFICATION Spec
CONSTANTS
    n1 = n1
    n2 = n2
    Nodes <- MCNodes
    NodeId <- MCNodeId
    Inodes = {2}
    Root = 1
    Initial = {2}
    Entries = {e1}
    NotLocal = NotLocal
    Subscribed = {n2}
    Listers = {n1, n2}
    Epoch = 100
    Hour = 1
    PageSize = 2
    MaxClock <- OneAhead
    MaxEdits = 2
    MaxFaults = 0
INVARIANTS
    CopyIsARevision
    KnownRevisionExists
PROPERTIES
    AllKnowLatest
    WaitersAnswered
CHECK_DEADLOCK FALSE
