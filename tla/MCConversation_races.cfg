SPECIFICATION Spec
CONSTANTS
    MaxMessages = 2
    MaxVersion = 1
    Buffer = 1
    WireLimit = 1
    PageSize = 1
    Ops = {}
    Paced = FALSE
INVARIANTS NothingMissing
PROPERTIES ImplementsStream
CHECK_DEADLOCK FALSE
