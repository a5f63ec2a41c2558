--------------------------- MODULE SessionsProofs ---------------------------
(***************************************************************************)
(* Proofs about Sessions, for every set of users, tokens, logins and       *)
(* maintenance processes.                                                  *)
(***************************************************************************)
EXTENDS Sessions, TLAPS

USE SessionsAssumption

-----------------------------------------------------------------------------
(* TypeOK is inductive as it stands.                                       *)

\* It holds at the start.
LEMMA InitType == Init => TypeOK
BY DEF Init, TypeOK, Idle, Login, Admin

\* Every step keeps it.
LEMMA NextType == TypeOK /\ [Next]_vars => TypeOK'
<1>. SUFFICES ASSUME TypeOK, [Next]_vars PROVE TypeOK'
  OBVIOUS
<1>. USE DEF TypeOK, accountVars
<1>1. ASSUME NEW l \in Logins, NEW u \in Users, Verify(l, u)
      PROVE  TypeOK'
  <2>1. [step |-> "verified", user |-> u, read |-> users[u]] \in Login
    BY <1>1 DEF Verify, Exists, Login
  <2>. QED
    BY <1>1, <2>1 DEF Verify, Idle
<1>2. ASSUME NEW l \in Logins, LockAccount(l)
      PROVE  TypeOK'
  <2>1. login[l] \in Login /\ login[l].user \in Users
    BY <1>2 DEF LockAccount, Login, Idle
  <2>2. [login[l] EXCEPT !.step = "locked"] \in Login
    BY <2>1 DEF Login
  <2>3. CASE Confirms(l, users[login[l].user])
    <3>1. /\ locks[login[l].user] = None
          /\ locks' = [locks EXCEPT ![login[l].user] = l]
          /\ login' = [login EXCEPT ![l] = [login[l] EXCEPT !.step = "locked"]]
          /\ UNCHANGED <<accountVars, admin, sockets, used>>
      BY <1>2, <2>3 DEF LockAccount
    <3>2. /\ login' \in [Logins -> Login \cup {Idle}]
          /\ login'[l].step = "locked" /\ login'[l].user = login[l].user
          /\ \A m \in Logins \ {l} : login'[m] = login[m]
      BY <2>1, <2>2, <3>1 DEF Login
    <3>3. login[l].step # "locked"
      BY <1>2 DEF LockAccount
    <3>4. \A u \in Users : locks'[u] = IF u = login[l].user THEN l ELSE locks[u]
      BY <2>1, <3>1
    <3>5. \A u \in Users, m \in Logins :
             locks'[u] = m <=> login'[m].step = "locked" /\ login'[m].user = u
      BY <2>1, <3>1, <3>2, <3>3, <3>4
    <3>6. \A u \in Users, a \in Admins :
             locks'[u] = a <=> admin'[a].step # "idle" /\ admin'[a].user = u
      BY <2>1, <3>1, <3>4
    <3>. QED
      BY <3>1, <3>2, <3>5, <3>6
  <2>4. CASE ~Confirms(l, users[login[l].user])
    BY <1>2, <2>1, <2>4 DEF LockAccount, Idle
  <2>. QED
    BY <2>3, <2>4
<1>3. ASSUME NEW l \in Logins, CommitLogin(l)
      PROVE  TypeOK'
  <2>1. login[l] \in Login /\ login[l].user \in Users /\ login[l].read.hash \in Hashes
    BY <1>3 DEF CommitLogin, Login, Idle, Account
  <2>2. [user |-> login[l].user, hash |-> login[l].read.hash] \in Session
    BY <2>1 DEF Session
  <2>3. PICK t \in Tokens \ used :
          /\ sessions' = [sessions EXCEPT ![t] = [user |-> login[l].user, hash |-> login[l].read.hash]]
          /\ used' = used \cup {t}
    BY <1>3 DEF CommitLogin
  <2>. QED
    BY <1>3, <2>1, <2>2, <2>3 DEF CommitLogin, Idle
<1>4. ASSUME NEW l \in Logins, AbandonLogin(l)
      PROVE  TypeOK'
  BY <1>4 DEF AbandonLogin, Idle
<1>5. ASSUME NEW u \in Users, Provision(u)
      PROVE  TypeOK'
  BY <1>5 DEF Provision, Account
<1>6. ASSUME NEW a \in Admins, NEW u \in Users, NEW row \in Account, StartUpdate(a, u, row),
             used' \subseteq Hashes \cup Tokens
      PROVE  TypeOK'
  <2>1. [step |-> "updated", user |-> u, row |-> row, deleted |-> {}] \in Admin
    BY DEF Admin
  <2>. QED
    BY <1>6, <2>1 DEF StartUpdate, Idle
<1>7. ASSUME NEW a \in Admins, NEW u \in Users, ResetPassword(a, u) \/ DisableUser(a, u)
      PROVE  TypeOK'
  <2>1. users[u] \in Account
    BY <1>7 DEF ResetPassword, DisableUser, StartUpdate, Exists
  <2>2. [users[u] EXCEPT !.active = FALSE] \in Account
    BY <2>1 DEF Account
  <2>3. \A h \in Hashes : [users[u] EXCEPT !.hash = h] \in Account
    BY <2>1 DEF Account
  <2>4. ASSUME ResetPassword(a, u) PROVE TypeOK'
    BY <2>4, <1>6, <2>3 DEF ResetPassword
  <2>5. ASSUME DisableUser(a, u) PROVE TypeOK'
    BY <2>5, <1>6, <2>2 DEF DisableUser
  <2>. QED
    BY <1>7, <2>4, <2>5
<1>8. ASSUME NEW a \in Admins, Revoke(a)
      PROVE  TypeOK'
  <2>1. admin[a] \in Admin
    BY <1>8 DEF Revoke, Idle
  <2>2. [admin[a] EXCEPT !.step = "revoked", !.deleted = SessionsOf(admin[a].user)] \in Admin
    BY <2>1 DEF Admin, SessionsOf
  <2>. QED
    BY <1>8, <2>1, <2>2 DEF Revoke
<1>9. ASSUME NEW a \in Admins, CommitUpdate(a)
      PROVE  TypeOK'
  <2>1. admin[a] \in Admin /\ admin[a].user \in Users /\ admin[a].row \in Account
    BY <1>9 DEF CommitUpdate, Admin, Idle
  <2>. QED
    BY <1>9, <2>1 DEF CommitUpdate, Idle
<1>10. ASSUME NEW a \in Admins, AbandonUpdate(a)
       PROVE  TypeOK'
  BY <1>10 DEF AbandonUpdate, Idle
<1>11. ASSUME NEW T \in SUBSET Tokens, DeleteSessions(T)
       PROVE  TypeOK'
  BY <1>11 DEF DeleteSessions
<1>12. ASSUME NEW t \in Tokens, Expire(t)
       PROVE  TypeOK'
  BY <1>12 DEF Expire
<1>13. ASSUME NEW s \in Sockets, SocketNext(s)
       PROVE  TypeOK'
  BY <1>13 DEF SocketNext, OpenSocket, CheckSocket, CloseSocket
<1>14. CASE UNCHANGED vars
  BY <1>14 DEF vars
<1>15. ASSUME NEW t \in Tokens, Logout(t)
       PROVE  TypeOK'
  BY <1>15, <1>11 DEF Logout
<1>16. ASSUME PurgeSessions
       PROVE  TypeOK'
  BY <1>16, <1>11 DEF PurgeSessions
<1>. HIDE DEF TypeOK
<1>. QED
  BY <1>1, <1>2, <1>3, <1>4, <1>5, <1>7, <1>8, <1>9, <1>10, <1>12, <1>13, <1>14, <1>15, <1>16
     DEF Next, LoginNext, AdminNext

\* Every variable keeps its type, and the holder of a row lock is a transaction
\* in progress on that row.
THEOREM TypeCorrect == Spec => []TypeOK
BY InitType, NextType, PTL DEF Spec

-----------------------------------------------------------------------------
(* The invariant behind SessionsCurrent.  While a transaction holds the row *)
(* lock, nobody else changes the account: a login that has compared the     *)
(* hash still has the current one when it commits (Confirmed), and a        *)
(* maintenance process that has deleted the sessions of its account still   *)
(* has all of them when it commits (Revoked).  Tokens are issued once, and  *)
(* accounts never disappear (Known).                                       *)

Known == \A l \in Logins : login[l].step # "idle" => users[login[l].user] # NoUser

Confirmed ==
    \A l \in Logins : login[l].step = "locked" =>
        LET row == users[login[l].user] IN
        row # NoUser /\ row.active /\ row.hash = login[l].read.hash

Revoked ==
    \A a \in Admins : admin[a].step # "idle" =>
        /\ users[admin[a].user] # NoUser
        /\ admin[a].step = "revoked" => SessionsOf(admin[a].user) \subseteq admin[a].deleted
        /\ \A t \in admin[a].deleted :
               /\ t \in used
               /\ sessions[t] # NoSession => sessions[t].user = admin[a].user

IssuedOnce == \A t \in Tokens : sessions[t] # NoSession => t \in used

SessionInv == Known /\ Confirmed /\ Revoked /\ IssuedOnce /\ SessionsCurrent

\* It holds at the start.
LEMMA InitSession == Init => SessionInv
BY DEF Init, SessionInv, Known, Confirmed, Revoked, IssuedOnce, SessionsCurrent, Idle

\* Only the holder of the row lock has a transaction in progress on a row.
LEMMA OneHolder ==
  ASSUME TypeOK
  PROVE  /\ \A l \in Logins, m \in Logins :
               login[l].step = "locked" /\ login[m].step = "locked" /\ login[l].user = login[m].user
               => l = m
         /\ \A a \in Admins, b \in Admins :
               admin[a].step # "idle" /\ admin[b].step # "idle" /\ admin[a].user = admin[b].user
               => a = b
         /\ \A l \in Logins, a \in Admins :
               login[l].step = "locked" /\ admin[a].step # "idle" => login[l].user # admin[a].user
         /\ \A l \in Logins : login[l].step = "locked" => login[l].user \in Users
         /\ \A a \in Admins : admin[a].step # "idle" => admin[a].user \in Users
<1>1. /\ \A l \in Logins : login[l].step = "locked" =>
              login[l].user \in Users /\ locks[login[l].user] = l
      /\ \A a \in Admins : admin[a].step # "idle" =>
              admin[a].user \in Users /\ locks[admin[a].user] = a
  BY DEF TypeOK, Login, Admin, Idle
<1>. QED
  BY <1>1

\* Every step keeps SessionInv.
LEMMA NextSession == TypeOK /\ SessionInv /\ [Next]_vars => SessionInv'
<1>. SUFFICES ASSUME TypeOK, SessionInv, [Next]_vars PROVE SessionInv'
  OBVIOUS
<1>. USE DEF accountVars
<1>0. /\ users \in [Users -> Account \cup {NoUser}]
      /\ sessions \in [Tokens -> Session \cup {NoSession}]
      /\ login \in [Logins -> Login \cup {Idle}]
      /\ admin \in [Admins -> Admin \cup {Idle}]
      /\ \A t \in Tokens : sessions[t] # NoSession => sessions[t].user \in Users
      /\ \A l \in Logins : login[l].step # "idle" => login[l].user \in Users
      /\ \A a \in Admins : admin[a].step # "idle" => admin[a].user \in Users
      /\ Idle.step = "idle"
  BY OneHolder DEF TypeOK, Session, Login, Idle
<1>1. ASSUME NEW l \in Logins, NEW u \in Users, Verify(l, u)
      PROVE  SessionInv'
  <2>1. /\ \A m \in Logins : m # l => login'[m] = login[m]
        /\ login'[l].step = "verified" /\ login'[l].user = u
        /\ users[u] # NoUser
        /\ UNCHANGED <<users, sessions, admin, used>>
    BY <1>0, <1>1 DEF Verify, Exists
  <2>. QED
    BY <2>1 DEF SessionInv, Known, Confirmed, Revoked, IssuedOnce, SessionsCurrent, SessionsOf
<1>2. ASSUME NEW l \in Logins, LockAccount(l)
      PROVE  SessionInv'
  <2>1. UNCHANGED <<users, sessions, admin, used>>
    BY <1>2 DEF LockAccount
  <2>2. Known' /\ Confirmed'
    <3>1. login[l] \in Login /\ login[l].user \in Users
      BY <1>0, <1>2 DEF LockAccount, Login
    <3>2. CASE Confirms(l, users[login[l].user])
      <4>1. login' = [login EXCEPT ![l].step = "locked"]
        BY <1>2, <3>2 DEF LockAccount
      <4>2. /\ login'[l].user = login[l].user /\ login'[l].read = login[l].read
            /\ \A m \in Logins : m # l => login'[m] = login[m]
        BY <1>0, <3>1, <4>1 DEF Login
      <4>3. users[login[l].user] # NoUser
        BY <1>2 DEF LockAccount, SessionInv, Known
      <4>. QED
        BY <2>1, <3>2, <4>2, <4>3 DEF SessionInv, Known, Confirmed, Confirms
    <3>3. CASE ~Confirms(l, users[login[l].user])
      <4>1. login' = [login EXCEPT ![l] = Idle]
        BY <1>2, <3>3 DEF LockAccount
      <4>. QED
        BY <1>0, <2>1, <4>1 DEF SessionInv, Known, Confirmed
    <3>. QED
      BY <3>2, <3>3
  <2>. QED
    BY <2>1, <2>2 DEF SessionInv, Revoked, IssuedOnce, SessionsCurrent, SessionsOf
<1>3. ASSUME NEW l \in Logins, CommitLogin(l)
      PROVE  SessionInv'
  <2>. DEFINE new == [user |-> login[l].user, hash |-> login[l].read.hash]
  <2>1. PICK t \in Tokens \ used : sessions' = [sessions EXCEPT ![t] = new] /\ used' = used \cup {t}
    BY <1>3 DEF CommitLogin
  <2>2. /\ login[l].step = "locked" /\ login[l].user \in Users
        /\ login' = [login EXCEPT ![l] = Idle]
        /\ UNCHANGED <<users, admin>>
    BY <1>0, <1>3 DEF CommitLogin
  <2>3. /\ \A s \in Tokens : sessions'[s] = IF s = t THEN new ELSE sessions[s]
        /\ new.user = login[l].user /\ new.hash = login[l].read.hash
    BY <1>0, <2>1
  <2>. HIDE DEF new
  <2>4. Known' /\ Confirmed'
    BY <1>0, <2>2 DEF SessionInv, Known, Confirmed
  <2>5. Revoked'
    <3>1. \A a \in Admins : admin[a].step # "idle" => admin[a].user # login[l].user
      BY <2>2, OneHolder
    <3>2. \A a \in Admins : admin[a].step # "idle" => admin[a].deleted \subseteq Tokens
      BY <1>0 DEF Admin
    <3>. QED
      BY <2>1, <2>2, <2>3, <3>1, <3>2 DEF SessionInv, Revoked, SessionsOf
  <2>6. IssuedOnce'
    BY <2>1, <2>3 DEF SessionInv, IssuedOnce
  <2>7. SessionsCurrent'
    BY <2>2, <2>3 DEF SessionInv, SessionsCurrent, Confirmed
  <2>. QED
    BY <2>4, <2>5, <2>6, <2>7 DEF SessionInv
<1>4. ASSUME NEW l \in Logins, AbandonLogin(l)
      PROVE  SessionInv'
  <2>1. login' = [login EXCEPT ![l] = Idle] /\ UNCHANGED <<users, sessions, admin, used>>
    BY <1>4 DEF AbandonLogin
  <2>. QED
    BY <1>0, <2>1 DEF SessionInv, Known, Confirmed, Revoked, IssuedOnce, SessionsCurrent, SessionsOf
<1>5. ASSUME NEW u \in Users, Provision(u)
      PROVE  SessionInv'
  <2>1. \A h \in Hashes : [active |-> TRUE, hash |-> h] # NoUser
    <3>1. \A h \in Hashes : [active |-> TRUE, hash |-> h] \in [active : BOOLEAN, hash : Hashes]
      OBVIOUS
    <3>. QED
      BY <3>1
  <2>2. /\ users[u] = NoUser
        /\ \A v \in Users : v # u => users'[v] = users[v]
        /\ users'[u] # NoUser
        /\ used \subseteq used'
        /\ UNCHANGED <<sessions, login, admin>>
    BY <1>0, <1>5, <2>1 DEF Provision, Exists
  <2>3. Known' /\ Confirmed'
    BY <2>2, <1>0 DEF SessionInv, Known, Confirmed
  <2>. QED
    BY <1>0, <2>2, <2>3 DEF SessionInv, Revoked, IssuedOnce, SessionsCurrent, SessionsOf
<1>6. ASSUME NEW a \in Admins, NEW u \in Users, NEW row, StartUpdate(a, u, row), used \subseteq used'
      PROVE  SessionInv'
  <2>1. /\ users[u] # NoUser
        /\ admin'[a].user = u /\ admin'[a].step = "updated" /\ admin'[a].deleted = {}
        /\ \A b \in Admins : b # a => admin'[b] = admin[b]
        /\ UNCHANGED <<users, sessions, login>>
    BY <1>0, <1>6 DEF StartUpdate, Exists
  <2>2. Revoked'
    BY <1>6, <2>1 DEF SessionInv, Revoked, SessionsOf
  <2>. QED
    BY <1>6, <2>1, <2>2 DEF SessionInv, Known, Confirmed, IssuedOnce, SessionsCurrent
<1>7. ASSUME NEW a \in Admins, NEW u \in Users, ResetPassword(a, u) \/ DisableUser(a, u)
      PROVE  SessionInv'
  BY <1>7, <1>6 DEF ResetPassword, DisableUser
<1>8. ASSUME NEW a \in Admins, Revoke(a)
      PROVE  SessionInv'
  <2>1. /\ admin[a] \in Admin /\ admin[a].step = "updated"
        /\ admin' = [admin EXCEPT ![a].step = "revoked", ![a].deleted = SessionsOf(admin[a].user)]
        /\ UNCHANGED <<users, sessions, login, used>>
    BY <1>0, <1>8 DEF Revoke
  <2>2. /\ admin'[a].user = admin[a].user /\ admin'[a].deleted = SessionsOf(admin[a].user)
        /\ \A b \in Admins : b # a => admin'[b] = admin[b]
    BY <1>0, <2>1 DEF Admin
  <2>3. Revoked'
    <3>2. /\ users'[admin'[a].user] # NoUser
          /\ SessionsOf(admin[a].user) \subseteq admin'[a].deleted
          /\ \A t \in admin'[a].deleted : t \in used' /\ sessions'[t].user = admin'[a].user
      BY <2>1, <2>2 DEF SessionInv, Revoked, IssuedOnce, SessionsOf
    <3>3. \A v : {t \in Tokens : sessions'[t] # NoSession /\ sessions'[t].user = v} = SessionsOf(v)
      BY <2>1 DEF SessionsOf
    <3>. DEFINE deleted(b) == {t \in Tokens : sessions'[t] # NoSession /\ sessions'[t].user = admin'[b].user}
    <3>4. \A b \in Admins : deleted(b) = SessionsOf(admin'[b].user)
      BY <3>3
    <3>. HIDE DEF deleted
    <3>5. SUFFICES ASSUME NEW b \in Admins, admin'[b].step # "idle"
                   PROVE  /\ users'[admin'[b].user] # NoUser
                          /\ admin'[b].step = "revoked" => deleted(b) \subseteq admin'[b].deleted
                          /\ \A t \in admin'[b].deleted :
                                 /\ t \in used'
                                 /\ sessions'[t] # NoSession => sessions'[t].user = admin'[b].user
      BY DEF Revoked, SessionsOf, deleted
    <3>6. CASE b = a
      BY <2>2, <3>2, <3>4, <3>6
    <3>7. CASE b # a
      <4>1. admin'[b] = admin[b] /\ UNCHANGED <<users, sessions, used>>
        BY <2>1, <2>2, <3>7
      <4>2. deleted(b) = SessionsOf(admin[b].user)
        BY <3>4, <4>1
      <4>. QED
        BY <3>5, <4>1, <4>2 DEF SessionInv, Revoked
    <3>. QED
      BY <3>6, <3>7
  <2>. QED
    BY <2>1, <2>3 DEF SessionInv, Known, Confirmed, IssuedOnce, SessionsCurrent
<1>9. ASSUME NEW a \in Admins, CommitUpdate(a)
      PROVE  SessionInv'
  <2>. DEFINE u == admin[a].user
  <2>1. /\ admin[a].step = "revoked" /\ u \in Users /\ admin[a].row \in Account
        /\ users' = [users EXCEPT ![u] = admin[a].row]
        /\ \A t \in Tokens : sessions'[t] = IF t \in admin[a].deleted THEN NoSession ELSE sessions[t]
        /\ admin' = [admin EXCEPT ![a] = Idle]
        /\ UNCHANGED <<login, used>>
    BY <1>0, <1>9 DEF CommitUpdate, Admin
  <2>2. /\ \A v \in Users : v # u => users'[v] = users[v]
        /\ users'[u] # NoUser
    BY <1>0, <2>1 DEF Account
  <2>3. \A t \in Tokens : sessions'[t] # NoSession => sessions'[t] = sessions[t] /\ sessions[t].user # u
    BY <2>1 DEF SessionInv, Revoked, SessionsOf
  <2>4. Known' /\ Confirmed'
    BY <1>0, <2>1, <2>2, OneHolder DEF SessionInv, Known, Confirmed
  <2>5. Revoked'
    <3>1. \A b \in Admins : admin'[b].step # "idle" => b # a /\ admin'[b] = admin[b]
      BY <1>0, <2>1
    <3>2. \A b \in Admins : admin[b].step # "idle" => admin[b].deleted \subseteq Tokens
      BY <1>0 DEF Admin
    <3>. QED
      BY <1>0, <2>1, <2>2, <2>3, <3>1, <3>2 DEF SessionInv, Revoked, SessionsOf
  <2>6. IssuedOnce' /\ SessionsCurrent'
    BY <1>0, <2>1, <2>2, <2>3 DEF SessionInv, IssuedOnce, SessionsCurrent
  <2>. QED
    BY <2>4, <2>5, <2>6 DEF SessionInv
<1>10. ASSUME NEW a \in Admins, AbandonUpdate(a)
       PROVE  SessionInv'
  <2>1. /\ \A b \in Admins : admin'[b] = admin[b] \/ admin'[b].step = "idle"
        /\ UNCHANGED <<users, sessions, login, used>>
    BY <1>0, <1>10 DEF AbandonUpdate
  <2>. QED
    BY <2>1 DEF SessionInv, Known, Confirmed, Revoked, IssuedOnce, SessionsCurrent, SessionsOf
<1>11. ASSUME NEW T \in SUBSET Tokens, DeleteSessions(T)
       PROVE  SessionInv'
  <2>1. /\ \A t \in Tokens : sessions'[t] = IF t \in T THEN NoSession ELSE sessions[t]
        /\ UNCHANGED <<users, login, admin, used>>
    BY <1>11 DEF DeleteSessions
  <2>2. \A a \in Admins : admin[a].step # "idle" => admin[a].deleted \subseteq Tokens
    BY <1>0 DEF Admin
  <2>. QED
    BY <2>1, <2>2 DEF SessionInv, Known, Confirmed, Revoked, IssuedOnce, SessionsCurrent, SessionsOf
<1>12. ASSUME NEW t \in Tokens, Expire(t)
       PROVE  SessionInv'
  BY <1>12 DEF Expire, SessionInv, Known, Confirmed, Revoked, IssuedOnce, SessionsCurrent, SessionsOf
<1>13. ASSUME NEW s \in Sockets, SocketNext(s)
       PROVE  SessionInv'
  BY <1>13 DEF SocketNext, OpenSocket, CheckSocket, CloseSocket,
               SessionInv, Known, Confirmed, Revoked, IssuedOnce, SessionsCurrent, SessionsOf
<1>14. CASE UNCHANGED vars
  BY <1>14 DEF vars, SessionInv, Known, Confirmed, Revoked, IssuedOnce, SessionsCurrent, SessionsOf
<1>15. ASSUME NEW t \in Tokens, Logout(t)
       PROVE  SessionInv'
  BY <1>15, <1>11 DEF Logout
<1>16. ASSUME PurgeSessions
       PROVE  SessionInv'
  BY <1>16, <1>11 DEF PurgeSessions, TypeOK
<1>. QED
  BY <1>1, <1>2, <1>3, <1>4, <1>5, <1>7, <1>8, <1>9, <1>10, <1>12, <1>13, <1>14, <1>15, <1>16
     DEF Next, LoginNext, AdminNext

\* In every reachable state each session belongs to an active account and was
\* issued for the password the account has now.
THEOREM AlwaysCurrent == Spec => []SessionsCurrent
<1>1. SessionInv => SessionsCurrent
  BY DEF SessionInv
<1>2. Spec => []SessionInv
  BY InitType, NextType, InitSession, NextSession, PTL DEF Spec
<1>. QED
  BY <1>1, <1>2, PTL

-----------------------------------------------------------------------------
(* Sessions implements SessionPolicy.                                      *)

\* Every step is one step of the policy, or changes nothing it speaks of: a
\* login takes effect when its transaction commits, a reset or a disable too.
LEMMA StepImplements ==
  TypeOK /\ SessionInv /\ [Next]_vars => [Policy!Next]_<<users, sessions>>
<1>. SUFFICES ASSUME TypeOK, SessionInv, [Next]_vars PROVE [Policy!Next]_<<users, sessions>>
  OBVIOUS
<1>. DEFINE Same == UNCHANGED <<users, sessions>>
<1>. USE DEF accountVars
<1>1. ASSUME NEW l \in Logins, LoginNext(l)
      PROVE  Policy!Next \/ Same
  <2>1. CASE CommitLogin(l)
    <3>. DEFINE u == login[l].user
    <3>1. u \in Users /\ login[l].step = "locked"
      BY <2>1, OneHolder DEF CommitLogin
    <3>2. PICK t \in Tokens \ used :
            sessions' = [sessions EXCEPT ![t] = [user |-> u, hash |-> login[l].read.hash]]
      BY <2>1 DEF CommitLogin
    <3>3. /\ users[u] # NoUser /\ users[u].active
          /\ login[l].read.hash = users[u].hash
          /\ sessions[t] = NoSession
          /\ UNCHANGED users
      BY <2>1, <3>1 DEF CommitLogin, SessionInv, Confirmed, IssuedOnce
    <3>4. Policy!Issue(t, u)
      BY <3>2, <3>3 DEF Policy!Issue
    <3>. QED
      BY <3>1, <3>4 DEF Policy!Next
  <2>2. CASE ~CommitLogin(l)
    BY <1>1, <2>2 DEF LoginNext, Verify, LockAccount, AbandonLogin
  <2>. QED
    BY <2>1, <2>2
<1>2. ASSUME NEW a \in Admins, AdminNext(a)
      PROVE  Policy!Next \/ Same
  <2>1. CASE CommitUpdate(a)
    <3>. DEFINE u == admin[a].user
    <3>1. u \in Users /\ admin[a].step = "revoked" /\ admin[a].row \in Policy!Account
      BY <2>1, OneHolder DEF CommitUpdate, TypeOK, Admin, Idle, Account, Policy!Account
    <3>2. /\ users' = [users EXCEPT ![u] = admin[a].row]
          /\ sessions' = [t \in Tokens |-> IF t \in admin[a].deleted THEN NoSession ELSE sessions[t]]
      BY <2>1 DEF CommitUpdate
    <3>3. /\ users[u] # NoUser
          /\ \A t \in Tokens : sessions[t] # NoSession =>
                (t \in admin[a].deleted <=> sessions[t].user = u)
      BY <3>1 DEF SessionInv, Revoked, SessionsOf
    <3>4. sessions' = [t \in Tokens |->
                         IF sessions[t] # NoSession /\ sessions[t].user = u
                         THEN NoSession ELSE sessions[t]]
      BY <3>2, <3>3
    <3>5. Policy!Change(u, admin[a].row)
      BY <3>2, <3>3, <3>4 DEF Policy!Change
    <3>. QED
      BY <3>1, <3>5 DEF Policy!Next
  <2>2. CASE ~CommitUpdate(a)
    BY <1>2, <2>2 DEF AdminNext, ResetPassword, DisableUser, StartUpdate, Revoke, AbandonUpdate
  <2>. QED
    BY <2>1, <2>2
<1>3. ASSUME NEW s \in Sockets, SocketNext(s)
      PROVE  Same
  BY <1>3 DEF SocketNext, OpenSocket, CheckSocket, CloseSocket
<1>4. ASSUME NEW u \in Users, Provision(u)
      PROVE  Policy!Next
  <2>1. Policy!Provision(u)
    BY <1>4 DEF Provision, Exists, Policy!Provision
  <2>. QED
    BY <2>1 DEF Policy!Next
<1>5. ASSUME NEW T \in SUBSET Tokens, DeleteSessions(T)
      PROVE  Policy!Next
  <2>1. Policy!End(T)
    BY <1>5 DEF DeleteSessions, Policy!End
  <2>. QED
    BY <2>1 DEF Policy!Next
<1>6. ASSUME NEW t \in Tokens, Logout(t) \/ Expire(t)
      PROVE  Policy!Next \/ Same
  BY <1>5, <1>6 DEF Logout, Expire
<1>7. ASSUME PurgeSessions
      PROVE  Policy!Next
  BY <1>5, <1>7 DEF PurgeSessions, TypeOK
<1>8. CASE UNCHANGED vars
  BY <1>8 DEF vars
<1>. QED
  BY <1>1, <1>2, <1>3, <1>4, <1>6, <1>7, <1>8 DEF Next

\* Logins that spend their time in bcrypt, resets and disables, interleaved in
\* any order and abandoned at any point, behave as SessionPolicy says.
THEOREM Refinement == Spec => ImplementsPolicy
<1>1. Init => Policy!Init
  BY DEF Init, Policy!Init
<1>2. TypeOK /\ SessionInv /\ [Next]_vars => [Policy!Next]_(Policy!vars)
  BY StepImplements DEF Policy!vars
<1>. QED
  BY <1>1, <1>2, InitType, NextType, InitSession, NextSession, PTL
     DEF Spec, ImplementsPolicy, Policy!Spec

=============================================================================
