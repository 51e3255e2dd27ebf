SPECIFICATION Spec
CONSTANTS
    n1 = n1
    n2 = n2
    Nodes <- MCNodes
    NodeId <- MCNodeId
    Garbage = {0, 1042}
    MaxClock = 1
    MaxIssued = 2
    MaxRestarts = 1
INVARIANT
    InodesCollisionFree
CHECK_DEADLOCK FALSE
