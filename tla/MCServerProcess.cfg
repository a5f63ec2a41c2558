SPECIFICATION FairSpec
CONSTANTS
    Clients = {c1, c2}
    Addresses = {a1, a2}
    Limit = 2
    MaxWindows = 1
    Minute = 2
    Delay = 1
    Slots = 1
CHECK_DEADLOCK FALSE
INVARIANTS RateBound ClosedLast
PROPERTIES UploadsRecover StopsInTheEnd
