\* Two logins and two maintenance processes race on two accounts.
SPECIFICATION FairSpec
CONSTANTS
    Users = {u1, u2}
    Hashes = {h1, h2}
    Tokens = {t1, t2}
    Logins = {l1, l2}
    Admins = {a1, a2}
    Sockets = {s1}
    NoUser = NoUser
    NoSession = NoSession
    None = None
INVARIANTS TypeOK SessionsCurrent
PROPERTIES ImplementsPolicy SocketsFollowSessions LoginsAnswered
