------------------------------ MODULE Sessions ------------------------------
(***************************************************************************)
(* Accounts, logins and sessions over PostgreSQL, at the grain of          *)
(* statements.  A login reads the account, spends a long time in bcrypt,   *)
(* and only then opens the transaction that issues the session; meanwhile  *)
(* `logbook user reset-password` and `logbook user disable`, processes of  *)
(* their own, change the account and revoke its sessions.  WebSockets stay *)
(* open on a session and ask for it again.                                 *)
(*                                                                         *)
(* Uncommitted changes are kept with the transaction that made them, and   *)
(* locks holds the row lock of each account (SELECT ... FOR UPDATE, and    *)
(* UPDATE), which lasts until the transaction ends.                        *)
(***************************************************************************)
EXTENDS Naturals, FiniteSets

CONSTANTS
    Users,
    Hashes,     \* bcrypt hashes; each is salted, so no two resets yield the same
    Tokens,     \* session tokens, 32 random bytes each
    Logins,     \* slots for concurrent logins
    Admins,     \* slots for concurrent account maintenance processes
    Sockets,    \* slots for WebSockets
    NoUser,     \* no account
    NoSession,  \* no session
    None        \* no token, no transaction

ASSUME SessionsAssumption ==
    /\ NoUser \notin [active : BOOLEAN, hash : Hashes]
    /\ NoSession \notin [user : Users, hash : Hashes]
    /\ None \notin Tokens \cup Logins \cup Admins
    /\ Logins \cap Admins = {}

VARIABLES
    users,      \* committed rows of the table users
    sessions,   \* committed rows of the table sessions
    expired,    \* tokens whose expires_at has passed
    locks,      \* the transaction that holds the row lock of each account
    login,      \* where each login is, and the account it read
    admin,      \* where each maintenance process is, and what it has written
    sockets,    \* the token each WebSocket was opened with
    used        \* hashes and tokens ever generated

accountVars == <<users, sessions, expired>>
vars == <<accountVars, locks, login, admin, sockets, used>>

Account == [active : BOOLEAN, hash : Hashes]

\* The hash the login verified is not in the table: it is kept to say what a
\* session was issued for.
Session == [user : Users, hash : Hashes]

Login == [step : {"idle", "verified", "locked"}, user : Users, read : Account]

Admin == [step : {"idle", "updated", "revoked"}, user : Users, row : Account,
          deleted : SUBSET Tokens]

Idle == [step |-> "idle"]

TypeOK ==
    /\ users \in [Users -> Account \cup {NoUser}]
    /\ sessions \in [Tokens -> Session \cup {NoSession}]
    /\ expired \subseteq Tokens
    /\ locks \in [Users -> Logins \cup Admins \cup {None}]
    /\ login \in [Logins -> Login \cup {Idle}]
    /\ admin \in [Admins -> Admin \cup {Idle}]
    /\ sockets \in [Sockets -> Tokens \cup {None}]
    /\ used \subseteq Hashes \cup Tokens
    /\ \A u \in Users, l \in Logins :
           locks[u] = l <=> login[l].step = "locked" /\ login[l].user = u
    /\ \A u \in Users, a \in Admins :
           locks[u] = a <=> admin[a].step # "idle" /\ admin[a].user = u

Init ==
    /\ users = [u \in Users |-> NoUser]
    /\ sessions = [t \in Tokens |-> NoSession]
    /\ expired = {}
    /\ locks = [u \in Users |-> None]
    /\ login = [l \in Logins |-> Idle]
    /\ admin = [a \in Admins |-> Idle]
    /\ sockets = [s \in Sockets |-> None]
    /\ used = {}

Exists(u) == users[u] # NoUser

SessionsOf(u) == {t \in Tokens : sessions[t] # NoSession /\ sessions[t].user = u}

\* Session and Authenticate: one query, over committed rows.
Valid(t) ==
    /\ sessions[t] # NoSession
    /\ t \notin expired
    /\ users[sessions[t].user].active

-----------------------------------------------------------------------------
(* Logins.                                                                 *)

\* UserByUsername, then bcrypt: the password typed is the account's, as read.
Verify(l, u) ==
    /\ login[l] = Idle
    /\ Exists(u) /\ users[u].active
    /\ login' = [login EXCEPT ![l] = [step |-> "verified", user |-> u, read |-> users[u]]]
    /\ UNCHANGED <<accountVars, locks, admin, sockets, used>>

\* Mutant: the hash that bcrypt saw is not compared again.
ConfirmsActive(l, row) == row.active

\* The row the lock is granted on is the latest one, not the one bcrypt saw.
Confirms(l, row) == row.active /\ row.hash = login[l].read.hash

\* CreateSession: SELECT ... FOR UPDATE waits for the row lock.
LockAccount(l) ==
    LET u == login[l].user IN
    /\ login[l].step = "verified"
    /\ locks[u] = None
    /\ IF Confirms(l, users[u])
       THEN /\ locks' = [locks EXCEPT ![u] = l]
            /\ login' = [login EXCEPT ![l].step = "locked"]
       ELSE /\ login' = [login EXCEPT ![l] = Idle]
            /\ UNCHANGED locks
    /\ UNCHANGED <<accountVars, admin, sockets, used>>

\* INSERT and commit.
CommitLogin(l) ==
    LET u == login[l].user IN
    /\ login[l].step = "locked"
    /\ \E t \in Tokens \ used :
        /\ sessions' = [sessions EXCEPT ![t] = [user |-> u, hash |-> login[l].read.hash]]
        /\ used' = used \cup {t}
    /\ locks' = [locks EXCEPT ![u] = None]
    /\ login' = [login EXCEPT ![l] = Idle]
    /\ UNCHANGED <<users, expired, admin, sockets>>

\* Mutant: the transaction is left open.
AbandonKeepingLock(l) ==
    /\ login[l] # Idle
    /\ login' = [login EXCEPT ![l] = Idle]
    /\ UNCHANGED <<accountVars, locks, admin, sockets, used>>

\* The request fails or is cut off; its transaction is rolled back.
AbandonLogin(l) ==
    /\ login[l] # Idle
    /\ locks' = [u \in Users |-> IF locks[u] = l THEN None ELSE locks[u]]
    /\ login' = [login EXCEPT ![l] = Idle]
    /\ UNCHANGED <<accountVars, admin, sockets, used>>

-----------------------------------------------------------------------------
(* Account maintenance, from the command line.                             *)

Provision(u) ==
    /\ ~Exists(u)
    /\ \E h \in Hashes \ used :
        /\ users' = [users EXCEPT ![u] = [active |-> TRUE, hash |-> h]]
        /\ used' = used \cup {h}
    /\ UNCHANGED <<sessions, expired, locks, login, admin, sockets>>

\* updateUser: the UPDATE waits for the row lock and keeps it.
StartUpdate(a, u, row) ==
    /\ admin[a] = Idle
    /\ Exists(u) /\ locks[u] = None
    /\ locks' = [locks EXCEPT ![u] = a]
    /\ admin' = [admin EXCEPT ![a] = [step |-> "updated", user |-> u, row |-> row,
                                      deleted |-> {}]]
    /\ UNCHANGED <<accountVars, login, sockets>>

ResetPassword(a, u) ==
    \E h \in Hashes \ used :
        /\ StartUpdate(a, u, [users[u] EXCEPT !.hash = h])
        /\ used' = used \cup {h}

DisableUser(a, u) ==
    /\ StartUpdate(a, u, [users[u] EXCEPT !.active = FALSE])
    /\ UNCHANGED used

\* Mutant: no WHERE, every user is logged out.
RevokeEverybody(a) ==
    /\ admin[a].step = "updated"
    /\ admin' = [admin EXCEPT ![a].step = "revoked",
                              ![a].deleted = {t \in Tokens : sessions[t] # NoSession}]
    /\ UNCHANGED <<accountVars, locks, login, sockets, used>>

\* DELETE FROM sessions: those committed by now.
Revoke(a) ==
    /\ admin[a].step = "updated"
    /\ admin' = [admin EXCEPT ![a].step = "revoked",
                              ![a].deleted = SessionsOf(admin[a].user)]
    /\ UNCHANGED <<accountVars, locks, login, sockets, used>>

CommitUpdate(a) ==
    /\ admin[a].step = "revoked"
    /\ users' = [users EXCEPT ![admin[a].user] = admin[a].row]
    /\ sessions' = [t \in Tokens |-> IF t \in admin[a].deleted THEN NoSession ELSE sessions[t]]
    /\ locks' = [locks EXCEPT ![admin[a].user] = None]
    /\ admin' = [admin EXCEPT ![a] = Idle]
    /\ UNCHANGED <<expired, login, sockets, used>>

\* Mutant: the transaction of a process that stops is left open.
AbandonUpdateKeepingLock(a) ==
    /\ admin[a] # Idle
    /\ admin' = [admin EXCEPT ![a] = Idle]
    /\ UNCHANGED <<accountVars, locks, login, sockets, used>>

AbandonUpdate(a) ==
    /\ admin[a] # Idle
    /\ locks' = [u \in Users |-> IF locks[u] = a THEN None ELSE locks[u]]
    /\ admin' = [admin EXCEPT ![a] = Idle]
    /\ UNCHANGED <<accountVars, login, sockets, used>>

-----------------------------------------------------------------------------
(* The end of sessions, and the sockets that depend on them.               *)

DeleteSessions(T) ==
    /\ sessions' = [t \in Tokens |-> IF t \in T THEN NoSession ELSE sessions[t]]
    /\ UNCHANGED <<users, expired, locks, login, admin, sockets, used>>

Logout(t) == sessions[t] # NoSession /\ DeleteSessions({t})

PurgeSessions == DeleteSessions(expired)

Expire(t) ==
    /\ sessions[t] # NoSession /\ t \notin expired
    /\ expired' = expired \cup {t}
    /\ UNCHANGED <<users, sessions, locks, login, admin, sockets, used>>

OpenSocket(s, t) ==
    /\ sockets[s] = None /\ Valid(t)
    /\ sockets' = [sockets EXCEPT ![s] = t]
    /\ UNCHANGED <<accountVars, locks, login, admin, used>>

\* Mutant: the ticker looks for the session's row only.
CheckRow(s) ==
    /\ sockets[s] # None /\ sessions[sockets[s]] = NoSession
    /\ sockets' = [sockets EXCEPT ![s] = None]
    /\ UNCHANGED <<accountVars, locks, login, admin, used>>

\* Every 25 seconds, and before every event and command: ask again.
CheckSocket(s) ==
    /\ sockets[s] # None /\ ~Valid(sockets[s])
    /\ sockets' = [sockets EXCEPT ![s] = None]
    /\ UNCHANGED <<accountVars, locks, login, admin, used>>

CloseSocket(s) ==
    /\ sockets[s] # None
    /\ sockets' = [sockets EXCEPT ![s] = None]
    /\ UNCHANGED <<accountVars, locks, login, admin, used>>

-----------------------------------------------------------------------------

LoginNext(l) ==
    \/ \E u \in Users : Verify(l, u)
    \/ LockAccount(l)
    \/ CommitLogin(l)
    \/ AbandonLogin(l)

AdminNext(a) ==
    \/ \E u \in Users : ResetPassword(a, u) \/ DisableUser(a, u)
    \/ Revoke(a)
    \/ CommitUpdate(a)
    \/ AbandonUpdate(a)

SocketNext(s) ==
    \/ \E t \in Tokens : OpenSocket(s, t)
    \/ CheckSocket(s)
    \/ CloseSocket(s)

Next ==
    \/ \E l \in Logins : LoginNext(l)
    \/ \E a \in Admins : AdminNext(a)
    \/ \E s \in Sockets : SocketNext(s)
    \/ \E u \in Users : Provision(u)
    \/ \E t \in Tokens : Logout(t) \/ Expire(t)
    \/ PurgeSessions

Spec == Init /\ [][Next]_vars

(***************************************************************************)
(* PostgreSQL grants a row lock in the order of the requests, statements   *)
(* return or the connection is cut, and the ticker of a socket fires.      *)
(***************************************************************************)
Fairness ==
    /\ \A l \in Logins :
        /\ SF_vars(LockAccount(l))
        /\ WF_vars(login[l].step = "locked" /\ (CommitLogin(l) \/ AbandonLogin(l)))
    /\ \A a \in Admins : WF_vars(Revoke(a) \/ CommitUpdate(a))
    /\ \A s \in Sockets : WF_vars(CheckSocket(s))

FairSpec == Spec /\ Fairness

-----------------------------------------------------------------------------
(* What must hold.                                                         *)

\* Every session belongs to an active account and was issued for the password
\* the account still has, although the password was verified long before the
\* session was stored: after a reset or a disable no session of before is left,
\* and none slips in.
SessionsCurrent ==
    \A t \in Tokens : sessions[t] # NoSession =>
        LET row == users[sessions[t].user] IN
        row # NoUser /\ row.active /\ row.hash = sessions[t].hash

\* A socket whose session was revoked, logged out or has expired is closed.
SocketsFollowSessions ==
    \A s \in Sockets, t \in Tokens :
        (sockets[s] = t /\ ~Valid(t)) ~> (sockets[s] # t)

\* A login that waits for a row lock is answered: no set of logins and resets
\* waits for each other.
LoginsAnswered == \A l \in Logins : (login[l] # Idle) ~> (login[l] = Idle)

Policy == INSTANCE SessionPolicy WITH users <- users, sessions <- sessions

\* Logins and account changes behave as if each happened in one step.
ImplementsPolicy == Policy!Spec

=============================================================================
