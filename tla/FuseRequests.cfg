SPECIFICATION Spec
CONSTANTS
    lookup = lookup
    read = read
    getxattr = getxattr
    Requests <- MCRequests
    Inodes = {1, 2}
    Root = 1
    Needs <- MCNeeds
    Instant = {}
    Direct = {getxattr}
    Nobody = Nobody
    MaxOverloads = 2
    MaxDrops = 1
INVARIANTS
    TypeOK
    NoDanglingCallback
    AnsweredWaitsNowhere
    NobodyForgotten
PROPERTIES
    EveryRequestAnswered
CHECK_DEADLOCK FALSE
