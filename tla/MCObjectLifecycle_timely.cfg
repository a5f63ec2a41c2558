\* Requests end before their reservations expire; no symmetry, since temporal
\* properties are checked.
SPECIFICATION FairSpec
CONSTANTS
    Keys = {k1, k2}
    Books = {b1}
    Messages = {}
    Requests = {r1, r2}
    Workers = {w1, w2}
    None = None
    MaxPages = 2
    MaxUpload = 2
    ClaimLimit = 1
    TimelyRequests = TRUE
INVARIANTS NoLeakedObject
PROPERTIES ImplementsCustody GarbageCollected
