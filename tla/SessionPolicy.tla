---------------------------- MODULE SessionPolicy ----------------------------
(***************************************************************************)
(* What authentication promises, with every login and every account change *)
(* done in one step: a session is issued for the password its account has  *)
(* at that moment, and a changed account keeps none of its sessions.       *)
(* Sessions implements this module.                                        *)
(***************************************************************************)
CONSTANTS
    Users,
    Hashes,     \* password hashes
    Tokens,     \* session tokens
    NoUser,     \* the account of a user who has none
    NoSession   \* the session of a token that has none

VARIABLES
    users,      \* each user's account
    sessions    \* each token's session

vars == <<users, sessions>>

Account == [active : BOOLEAN, hash : Hashes]

Init ==
    /\ users = [u \in Users |-> NoUser]
    /\ sessions = [t \in Tokens |-> NoSession]

Provision(u) ==
    /\ users[u] = NoUser
    /\ \E h \in Hashes :
           users' = [users EXCEPT ![u] = [active |-> TRUE, hash |-> h]]
    /\ UNCHANGED sessions

\* A session of u, for the password that is u's now.
Issue(t, u) ==
    /\ sessions[t] = NoSession
    /\ users[u] # NoUser /\ users[u].active
    /\ sessions' = [sessions EXCEPT ![t] = [user |-> u, hash |-> users[u].hash]]
    /\ UNCHANGED users

\* A new password, or the end of the account: all of u's sessions end with it.
Change(u, account) ==
    /\ users[u] # NoUser
    /\ users' = [users EXCEPT ![u] = account]
    /\ sessions' = [t \in Tokens |->
                        IF sessions[t] # NoSession /\ sessions[t].user = u
                        THEN NoSession ELSE sessions[t]]

\* Logout, or the removal of expired sessions.
End(T) ==
    /\ sessions' = [t \in Tokens |-> IF t \in T THEN NoSession ELSE sessions[t]]
    /\ UNCHANGED users

Next ==
    \/ \E u \in Users :
        \/ Provision(u)
        \/ \E t \in Tokens : Issue(t, u)
        \/ \E account \in Account : Change(u, account)
    \/ \E T \in SUBSET Tokens : End(T)

Spec == Init /\ [][Next]_vars

=============================================================================
