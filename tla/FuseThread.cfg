SPECIFICATION Spec
CONSTANTS
    lookup = lookup
    read = read
    getxattr = getxattr
    Requests <- MCRequests
    Inodes = {1, 2}
    Root = 1
    Needs <- MCNeeds
    Instant = {}
    Direct = {getxattr}
    Nobody = Nobody
    MaxOverloads = 0
    MaxDrops = 0
INVARIANT
    RepliesFromLiveRequest
CHECK_DEADLOCK FALSE
