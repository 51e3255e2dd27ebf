SPECIFICATION Spec
CONSTANTS
    handle = handle
    a = a
    b = b
    c = c
    d = d
    Handles <- MCHandles
    Names <- MCNames
    Nobody = Nobody
    Unread = Unread
    MaxRoom = 3
    MaxChanges = 3
INVARIANT
    TypeOK
PROPERTIES
    IsAStream
    ListingEnds
CHECK_DEADLOCK FALSE
