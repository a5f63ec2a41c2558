SPECIFICATION FairSpec
CONSTANTS
    Users = {u1, u2}
    Workers = {w1}
    Queue = 1
    None = None
    MaxLogins = 2
    MaxEndpoints = 2
    MaxTroubles = 1
    MaxMessages = 1
CHECK_DEADLOCK FALSE
INVARIANTS TypeOK OnlyTheOwner SilentAfterSignOut OnIsActive
PROPERTIES MessagesAnswered WorkersExit
