SPECIFICATION Spec
CONSTANTS
    MaxMessages = 1
    MaxVersion = 2
    Buffer = 1
    WireLimit = 1
    PageSize = 1
    Ops = {"send"}
    Paced = TRUE
INVARIANTS ReloadsHistory
CHECK_DEADLOCK FALSE
