\* Requests of any length; two workers may hold the same key.
SPECIFICATION Spec
CONSTANTS
    Keys = {k1, k2, k3}
    Books = {b1}
    Messages = {m1}
    Requests = {r1, r2}
    Workers = {w1, w2}
    None = None
    MaxPages = 2
    MaxUpload = 2
    ClaimLimit = 1
    TimelyRequests = FALSE
SYMMETRY Interchangeable
INVARIANTS TypeOK NoDanglingPhoto PublishedNeverClaimed PagesConsistent
PROPERTIES PagesStable
