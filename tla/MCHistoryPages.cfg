SPECIFICATION Spec
CONSTANTS
    Ids = {1, 2, 3}
    Times = {1, 2}
    Filters = {f1, f2}
    Limit = 1
    MaxPhotos = 2
    NoRow = NoRow
    NoCursor = NoCursor
SYMMETRY Interchangeable
INVARIANTS NeverTwice NothingMissed NoEmptyArchive
CHECK_DEADLOCK FALSE
