SPECIFICATION FairSpec
CONSTANTS
    MaxMessages = 1
    MaxVersion = 2
    Buffer = 1
    WireLimit = 1
    PageSize = 1
    Ops = {"send", "edit", "delete"}
    Paced = TRUE
PROPERTIES GapsAreOldSends CatchesUp
CHECK_DEADLOCK FALSE
