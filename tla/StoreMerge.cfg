SPECIFICATION MergeSpec
CONSTANTS
    n1 = n1
    n2 = n2
    Nodes <- MCNodes
    NodeId <- MCNodeId
    Inodes = {2}
    Root = 1
    Initial = {2}
    Entries = {e1, e2}
    NotLocal = NotLocal
    Subscribed = {n2}
    Listers = {n1, n2}
    Epoch = 100
    Hour = 1
    PageSize = 2
    MaxClock <- Still
    MaxEdits = 2
    MaxFaults = 0
INVARIANT
    NothingAddedIsLost
CHECK_DEADLOCK FALSE
