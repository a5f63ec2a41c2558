-------------------------- MODULE PushDeliveryProofs --------------------------
(***************************************************************************)
(* The browser's subscription is its account's alone, silent after signing *)
(* out, and active when the page says so: for any accounts, sessions, lost *)
(* requests, reloads and numbers of subscriptions.                         *)
(***************************************************************************)
EXTENDS PushDelivery, SequenceTheorems, TLAPS

(* The inductive invariant.                                                *)

SyncSteps == {"begin", "look", "subscribe", "register", "put"}
DisableSteps == {"begin", "delete"}
Task == [kind : {"sync", "disable"}, user : Users, fresh : BOOLEAN,
         pc : SyncSteps \cup DisableSteps]
Page == [user : Users \cup {None}, tasks : Seq(Task),
         leaving : {"no", "disabling", "posting", "posted"}, on : {None} \cup 1..MaxEndpoints]
Request == [kind : {"put", "delete", "logout"}, session : {None} \cup 1..MaxLogins,
            endpoint : {None} \cup 1..MaxEndpoints, awaited : BOOLEAN,
            answer : {None, "ok", "unauthorized"}]
Worker == [todo : SUBSET (1..MaxEndpoints), gone : {None} \cup 1..MaxEndpoints, exited : BOOLEAN]

RequestOK(r) ==
    /\ r \in Request
    /\ r.session \in {None} \cup 1..logins /\ r.endpoint \in {None} \cup 1..endpoints
    /\ r.kind = "put" => r.endpoint # None

\* Sessions and endpoints are numbered as they are made.
Numbered ==
    /\ logins \in 0..MaxLogins /\ endpoints \in 0..MaxEndpoints
    /\ \A s \in DOMAIN sessions : s \in 1..logins /\ sessions[s] \in Users
    /\ cookie \in {None} \cup 1..logins
    /\ live \in {None} \cup 1..endpoints
    /\ rows \subseteq Users \X (1..endpoints)
    /\ owner \in {None} \cup [user : Users, endpoint : 1..MaxEndpoints]
    /\ \A r \in requests : RequestOK(r)
    /\ worker \in [Workers -> Worker]
    /\ \A w \in Workers : /\ worker[w].todo \subseteq 1..endpoints
                          /\ worker[w].gone \in {None} \cup 1..endpoints
                          /\ worker[w].gone # None => worker[w].gone # live

\* Only the first call is under way, fresh ones are of the page's user, and
\* the disablePush of a logout is the last.
PageOK(p) ==
    /\ p \in Page
    /\ \A i \in DOMAIN p.tasks :
        LET t == p.tasks[i] IN
        /\ i > 1 => t.pc = "begin"
        /\ t.pc \in IF t.kind = "sync" THEN SyncSteps ELSE DisableSteps
        /\ t.fresh => t.user = p.user
        /\ t.fresh /\ t.kind = "disable" => i = Len(p.tasks) /\ p.leaving = "disabling"
    /\ p.leaving = "disabling" =>
           \E i \in DOMAIN p.tasks : p.tasks[i].fresh /\ p.tasks[i].kind = "disable"
    /\ p.leaving \in {"posting", "posted"} => p.tasks = <<>>
    /\ p.user = None => p.leaving = "no" /\ p.on = None

\* The session of the page is its user's.
SignedIn == page.user # None /\ Valid(cookie) => sessions[cookie] = page.user

\* After disablePush, and after the logout, nothing subscribes.
Silent ==
    /\ page.leaving \in {"posting", "posted"} => live = None
    /\ quiet => cookie = None /\ page.user = None /\ page.tasks = <<>> /\ live = None

\* Whose the browser's subscription is, or becomes once a request is served.
Holds(u) ==
    \/ <<u, live>> \in rows
    \/ \E r \in requests : /\ r.kind = "put" /\ r.endpoint = live
                           /\ Valid(r.session) /\ sessions[r.session] = u

\* What the first call has made sure of.
Stages ==
    /\ First("sync", "subscribe") => live = None
    /\ First("sync", "register") =>
           live # None /\ \A u \in Users : Holds(u) => u = page.tasks[1].user
    /\ page.tasks # <<>> /\ page.tasks[1].pc # "begin" => page.on = None

\* The one request of a call that the page waits for.
Waiting(r) == r.awaited /\ r.kind # "logout"

Waits ==
    /\ \A r, q \in requests : Waiting(r) /\ Waiting(q) => r = q
    /\ \A r \in requests : Waiting(r) => First(IF r.kind = "put" THEN "sync" ELSE "disable", r.kind)
    /\ \A r \in requests : Waiting(r) /\ r.kind = "put" =>
          /\ r.endpoint = live
          /\ Valid(r.session) => sessions[r.session] = page.tasks[1].user
          /\ r.answer = "ok" => <<page.tasks[1].user, live>> \in rows \/ overtaken

Queued == jobs \in Seq(Users) /\ Len(jobs) <= Queue

PushInv ==
    /\ Numbered /\ PageOK(page) /\ SignedIn /\ Silent /\ Stages /\ Waits
    /\ OnlyTheOwner /\ OnIsActive /\ Queued

USE PushDeliveryAssumption

-----------------------------------------------------------------------------
(* What the steps make of the page.                                        *)

\* The first call goes on.
LEMMA AtOK ==
  ASSUME NEW p, PageOK(p), p.tasks # <<>>,
         NEW pc \in IF p.tasks[1].kind = "sync" THEN SyncSteps ELSE DisableSteps
  PROVE  /\ PageOK(At(p, pc)) /\ At(p, pc).tasks # <<>>
         /\ At(p, pc).user = p.user /\ At(p, pc).leaving = p.leaving /\ At(p, pc).on = p.on
         /\ At(p, pc).tasks[1].kind = p.tasks[1].kind /\ At(p, pc).tasks[1].pc = pc
         /\ At(p, pc).tasks[1].user = p.tasks[1].user
         /\ At(p, pc).tasks[1].fresh = p.tasks[1].fresh
<1>. DEFINE q == At(p, pc)
            first == [p.tasks[1] EXCEPT !.pc = pc]
<1>1. /\ p \in Page /\ p.tasks \in Seq(Task) /\ Len(p.tasks) \in Nat /\ Len(p.tasks) > 0
      /\ p.tasks[1] \in Task
  BY DEF PageOK, Page
<1>2. /\ q = [p EXCEPT !.tasks = [p.tasks EXCEPT ![1] = first]]
      /\ first.kind = p.tasks[1].kind /\ first.pc = pc /\ first.user = p.tasks[1].user
      /\ first.fresh = p.tasks[1].fresh /\ first \in Task
  BY <1>1 DEF At, Task
<1>. HIDE DEF first
<1>. DEFINE ts == [p.tasks EXCEPT ![1] = first]
<1>3. /\ ts \in Seq(Task) /\ Len(ts) = Len(p.tasks) /\ ts[1] = first
      /\ DOMAIN ts = DOMAIN p.tasks
      /\ \A i \in DOMAIN p.tasks : i > 1 => ts[i] = p.tasks[i]
      /\ \A i \in DOMAIN p.tasks : i = 1 \/ i > 1
  BY <1>1, <1>2
<1>4. /\ q \in Page /\ q.tasks = ts /\ q.user = p.user /\ q.leaving = p.leaving /\ q.on = p.on
  BY <1>1, <1>2, <1>3 DEF Page
<1>. HIDE DEF q, ts
<1>5. PageOK(q)
  BY <1>1, <1>2, <1>3, <1>4 DEF PageOK
<1>. QED
  BY <1>1, <1>2, <1>3, <1>4, <1>5 DEF q

\* The first call ends.
LEMMA EndedOK ==
  ASSUME NEW p, PageOK(p), p.tasks # <<>>, NEW b \in BOOLEAN,
         b /\ p.tasks[1].kind = "sync" => p.tasks[1].fresh /\ live \in 1..MaxEndpoints
  PROVE  /\ PageOK(Ended(p, b)) /\ Ended(p, b).user = p.user
         /\ Ended(p, b).tasks # <<>> => Ended(p, b).tasks[1].pc = "begin"
         /\ Ended(p, b).leaving \in {"posting", "posted"} => b /\ p.tasks[1].kind = "disable"
         /\ Ended(p, b).on = IF p.tasks[1].kind = "sync" /\ b THEN live ELSE p.on
<1>. DEFINE q == Ended(p, b)
            t == p.tasks[1]
            ts == Tail(p.tasks)
            lv == IF t.kind = "disable" /\ t.fresh THEN IF b THEN "posting" ELSE "no"
                                                  ELSE p.leaving
            on == IF t.kind = "sync" /\ b THEN live ELSE p.on
<1>1. /\ p \in Page /\ p.tasks \in Seq(Task) /\ Len(p.tasks) \in Nat /\ Len(p.tasks) > 0
      /\ t \in Task /\ p.user \in Users \cup {None}
  BY DEF PageOK, Page
<1>2. /\ ts \in Seq(Task) /\ Len(ts) = Len(p.tasks) - 1
      /\ \A i \in DOMAIN ts : i + 1 \in DOMAIN p.tasks /\ i + 1 > 1 /\ ts[i] = p.tasks[i + 1]
      /\ \A i \in DOMAIN p.tasks : i = 1 \/ (i - 1 \in DOMAIN ts /\ ts[i - 1] = p.tasks[i])
      /\ Len(p.tasks) = 1 => ts = <<>>
      /\ ts # <<>> => 1 \in DOMAIN ts
      /\ \A i \in DOMAIN ts : i + 1 = Len(p.tasks) => i = Len(ts)
  <2>1. /\ ts \in Seq(Task) /\ Len(ts) = Len(p.tasks) - 1 /\ Len(ts) \in Nat
        /\ DOMAIN ts = 1..Len(ts) /\ DOMAIN p.tasks = 1..Len(p.tasks)
    BY <1>1
  <2>2. \A i \in 1..Len(ts) : ts[i] = p.tasks[i + 1]
    BY <1>1
  <2>. HIDE DEF ts
  <2>3. Len(ts) = 0 <=> ts = <<>>
    BY <2>1, EmptySeq
  <2>4. ASSUME NEW i \in DOMAIN ts
        PROVE  i + 1 \in DOMAIN p.tasks /\ i + 1 > 1 /\ (i + 1 = Len(p.tasks) => i = Len(ts))
    BY <1>1, <2>1
  <2>5. ASSUME NEW i \in DOMAIN p.tasks, i # 1
        PROVE  i - 1 \in DOMAIN ts /\ ts[i - 1] = p.tasks[i]
    <3>1. i - 1 \in 1..Len(ts) /\ (i - 1) + 1 = i
      BY <1>1, <2>1, <2>5
    <3>. QED
      BY <2>1, <2>2, <3>1
  <2>. QED
    BY <1>1, <2>1, <2>2, <2>3, <2>4, <2>5
<1>. HIDE DEF ts
<1>3. lv \in {"no", "disabling", "posting", "posted"} /\ on \in {None} \cup 1..MaxEndpoints
  BY <1>1 DEF PageOK, Page
<1>4. /\ q = [p EXCEPT !.tasks = ts, !.leaving = lv, !.on = on]
  BY DEF Ended, ts
<1>. HIDE DEF lv, on
<1>5. q \in Page /\ q.tasks = ts /\ q.leaving = lv /\ q.on = on /\ q.user = p.user
  BY <1>1, <1>2, <1>3, <1>4 DEF Page
<1>. HIDE DEF q
<1>6. p.leaving \notin {"posting", "posted"}
  BY DEF PageOK
<1>7. ASSUME NEW i \in DOMAIN ts
      PROVE  /\ ts[i].pc = "begin"
             /\ ts[i].pc \in IF ts[i].kind = "sync" THEN SyncSteps ELSE DisableSteps
             /\ ts[i].fresh => ts[i].user = p.user
             /\ ts[i].fresh /\ ts[i].kind = "disable" => i = Len(ts) /\ p.leaving = "disabling"
  BY <1>2, <1>7 DEF PageOK
<1>8. t.fresh /\ t.kind = "disable" => ts = <<>>
  <2>1. 1 \in DOMAIN p.tasks
    BY <1>1
  <2>. QED
    BY <2>1, <1>2 DEF PageOK
<1>9. lv = "disabling" => \E i \in DOMAIN ts : ts[i].fresh /\ ts[i].kind = "disable"
  <2>1. ASSUME lv = "disabling"
        PROVE  p.leaving = "disabling" /\ ~(t.fresh /\ t.kind = "disable")
    BY <2>1 DEF lv
  <2>. QED
    BY <1>2, <2>1 DEF PageOK
<1>10. lv \in {"posting", "posted"} => b /\ t.kind = "disable" /\ ts = <<>>
  BY <1>6, <1>8 DEF lv
<1>11. p.user = None => lv = "no" /\ on = None
  <2>1. 1 \in DOMAIN p.tasks
    BY <1>1
  <2>2. t.fresh => t.user = p.user /\ t.user \in Users
    BY <1>1, <2>1 DEF PageOK, Task
  <2>. QED
    BY <2>2 DEF PageOK, lv, on
<1>12. \A i \in DOMAIN ts : ts[i].fresh /\ ts[i].kind = "disable" => lv = "disabling"
  <2>1. SUFFICES ASSUME NEW i \in DOMAIN ts, ts[i].fresh, ts[i].kind = "disable"
                 PROVE  lv = "disabling"
    OBVIOUS
  <2>2. ts # <<>>
    BY <2>1
  <2>. QED
    BY <1>7, <1>8, <2>1, <2>2 DEF lv
<1>13. PageOK(q)
  BY <1>5, <1>7, <1>9, <1>10, <1>11, <1>12 DEF PageOK
<1>. QED
  BY <1>2, <1>5, <1>7, <1>10, <1>13 DEF q, on

\* Nobody is signed in any longer.
LEMMA ClearedOK ==
  ASSUME NEW p, PageOK(p)
  PROVE  /\ PageOK(Cleared(p)) /\ Cleared(p).user = None /\ Cleared(p).on = None
         /\ Cleared(p).leaving = "no"
         /\ Cleared(p).tasks = <<>> <=> p.tasks = <<>>
         /\ p.tasks # <<>> =>
               /\ Cleared(p).tasks[1].kind = p.tasks[1].kind
               /\ Cleared(p).tasks[1].pc = p.tasks[1].pc
               /\ Cleared(p).tasks[1].user = p.tasks[1].user
               /\ Cleared(p).tasks[1].fresh = FALSE
<1>. DEFINE q == Cleared(p)
            ts == [i \in DOMAIN p.tasks |-> [p.tasks[i] EXCEPT !.fresh = FALSE]]
<1>1. p \in Page /\ p.tasks \in Seq(Task)
  BY DEF PageOK, Page
<1>2. ASSUME NEW i \in DOMAIN p.tasks
      PROVE  /\ ts[i] \in Task /\ ts[i].fresh = FALSE
             /\ ts[i].kind = p.tasks[i].kind /\ ts[i].pc = p.tasks[i].pc
             /\ ts[i].user = p.tasks[i].user
  <2>1. p.tasks[i] \in Task
    BY <1>1, <1>2
  <2>. QED
    BY <2>1 DEF Task
<1>3. ts \in Seq(Task) /\ Len(ts) = Len(p.tasks) /\ DOMAIN ts = DOMAIN p.tasks
  <2>1. DOMAIN p.tasks = 1..Len(p.tasks) /\ Len(p.tasks) \in Nat
    BY <1>1
  <2>2. ts \in [1..Len(p.tasks) -> Task]
    BY <2>1, <1>2
  <2>. HIDE DEF ts
  <2>. QED
    BY <2>1, <2>2
<1>4. q = [p EXCEPT !.user = None, !.leaving = "no", !.on = None, !.tasks = ts]
  BY DEF Cleared
<1>. HIDE DEF ts
<1>5. /\ q \in Page /\ q.user = None /\ q.leaving = "no" /\ q.on = None /\ q.tasks = ts
  BY <1>1, <1>3, <1>4 DEF Page
<1>. HIDE DEF q
<1>6. PageOK(q)
  <2>1. ASSUME NEW i \in DOMAIN ts
        PROVE  /\ i > 1 => ts[i].pc = "begin"
               /\ ts[i].pc \in IF ts[i].kind = "sync" THEN SyncSteps ELSE DisableSteps
               /\ ~ts[i].fresh
    <3>1. /\ i > 1 => p.tasks[i].pc = "begin"
          /\ p.tasks[i].pc \in IF p.tasks[i].kind = "sync" THEN SyncSteps ELSE DisableSteps
      BY <2>1, <1>3 DEF PageOK
    <3>. QED
      BY <3>1, <2>1, <1>2, <1>3
  <2>. QED
    BY <2>1, <1>5 DEF PageOK
<1>7. ts = <<>> <=> p.tasks = <<>>
  BY <1>1, <1>3
<1>8. p.tasks # <<>> => 1 \in DOMAIN p.tasks
  BY <1>1
<1>. QED
  BY <1>2, <1>5, <1>6, <1>7, <1>8 DEF q

\* A call is added.
Called(p, u, lv, t) == [p EXCEPT !.user = u, !.leaving = lv, !.tasks = Append(@, t)]

LEMMA CalledOK ==
  ASSUME NEW p, PageOK(p), NEW u \in Users, NEW t, NEW lv,
         \/ p.user = None /\ t = Sync(u) /\ lv = "no"
         \/ p.user = u /\ t = Disable(u) /\ p.leaving = "no" /\ lv = "disabling"
  PROVE  /\ PageOK(Called(p, u, lv, t)) /\ Called(p, u, lv, t).on = p.on
         /\ Called(p, u, lv, t).user = u /\ Called(p, u, lv, t).tasks # <<>>
         /\ p.tasks # <<>> => Called(p, u, lv, t).tasks[1] = p.tasks[1]
         /\ p.tasks = <<>> => Called(p, u, lv, t).tasks[1] = t /\ t.pc = "begin"
<1>. DEFINE q == Called(p, u, lv, t)
            ts == Append(p.tasks, t)
<1>1. p \in Page /\ p.tasks \in Seq(Task) /\ Len(p.tasks) \in Nat
  BY DEF PageOK, Page
<1>2. /\ t \in Task /\ t.pc = "begin" /\ t.user = u /\ t.fresh = TRUE
      /\ t.kind = "sync" \/ (t.kind = "disable" /\ lv = "disabling")
  <2>1. Sync(u) \in Task /\ Disable(u) \in Task
    BY DEF Task, Sync, Disable, SyncSteps
  <2>2. /\ Sync(u).pc = "begin" /\ Sync(u).user = u /\ Sync(u).fresh = TRUE
        /\ Disable(u).pc = "begin" /\ Disable(u).user = u /\ Disable(u).fresh = TRUE
        /\ Sync(u).kind = "sync" /\ Disable(u).kind = "disable"
    BY DEF Sync, Disable
  <2>. QED
    BY <2>1, <2>2
<1>3. /\ ts \in Seq(Task) /\ Len(ts) = Len(p.tasks) + 1 /\ ts[Len(ts)] = t /\ ts # <<>>
      /\ \A i \in DOMAIN p.tasks : i \in DOMAIN ts /\ ts[i] = p.tasks[i]
      /\ \A i \in DOMAIN ts : i = Len(ts) \/ i \in DOMAIN p.tasks
      /\ Len(ts) \in DOMAIN ts
  BY <1>1, <1>2
<1>4. p.tasks # <<>> => 1 \in DOMAIN p.tasks
  BY <1>1
<1>5. p.tasks = <<>> => ts[1] = t
  BY <1>1, <1>3
<1>. HIDE DEF ts, q
<1>6. q \in Page /\ q.tasks = ts /\ q.user = u /\ q.on = p.on /\ q.leaving = lv
  BY <1>1, <1>3 DEF Page, Called, ts, q
<1>7. ASSUME NEW i \in DOMAIN p.tasks, p.tasks[i].fresh
      PROVE  p.user = u /\ p.tasks[i].kind # "disable" /\ p.tasks[i].user = u
  <2>1. p.tasks[i] \in Task
    BY <1>1
  <2>. QED
    BY <2>1, <1>7 DEF PageOK, Task
<1>8. ASSUME NEW i \in DOMAIN ts
      PROVE  /\ i > 1 => ts[i].pc = "begin"
             /\ ts[i].pc \in IF ts[i].kind = "sync" THEN SyncSteps ELSE DisableSteps
             /\ ts[i].fresh => ts[i].user = u
             /\ ts[i].fresh /\ ts[i].kind = "disable" =>
                   i = Len(ts) /\ q.leaving = "disabling"
  <2>1. CASE i \in DOMAIN p.tasks
    BY <2>1, <1>3, <1>7 DEF PageOK
  <2>2. CASE i = Len(ts)
    BY <2>2, <1>2, <1>3, <1>6 DEF SyncSteps, DisableSteps
  <2>. QED
    BY <2>1, <2>2, <1>3
<1>9. PageOK(q)
  <2>1. q.leaving = "disabling" => t.kind = "disable" /\ t.fresh
    BY <1>2, <1>6 DEF Disable
  <2>2. q.leaving \in {"no", "disabling"}
    BY <1>6
  <2>. QED
    BY <1>2, <1>3, <1>6, <1>8, <2>1, <2>2 DEF PageOK
<1>. QED
  BY <1>2, <1>3, <1>4, <1>5, <1>6, <1>9 DEF q

-----------------------------------------------------------------------------
(* What the steps keep of the rest.                                        *)

\* Sessions only end.
SessionsEnd ==
    /\ DOMAIN sessions' \subseteq DOMAIN sessions
    /\ \A s \in DOMAIN sessions' : sessions'[s] = sessions[s]

\* Every PUT on its way was on its way before.
NoNewPut ==
    \A r \in requests' : r.kind = "put" =>
        \E q \in requests : q.kind = "put" /\ q.endpoint = r.endpoint /\ q.session = r.session

LEMMA FewerHold ==
  ASSUME NEW u, live' = live, SessionsEnd, NoNewPut, Holds(u)',
         \A row \in rows' :
             \/ row \in rows
             \/ \E q \in requests : /\ q.kind = "put" /\ Valid(q.session)
                                    /\ row = <<sessions[q.session], q.endpoint>>
  PROVE  Holds(u)
<1>1. CASE <<u, live>> \in rows'
  BY <1>1 DEF Holds
<1>2. CASE \E r \in requests' : /\ r.kind = "put" /\ r.endpoint = live
                                /\ Valid(r.session)' /\ sessions'[r.session] = u
  <2>1. PICK r \in requests' : /\ r.kind = "put" /\ r.endpoint = live
                               /\ Valid(r.session)' /\ sessions'[r.session] = u
    BY <1>2
  <2>2. PICK q \in requests : q.kind = "put" /\ q.endpoint = r.endpoint /\ q.session = r.session
    BY <2>1 DEF NoNewPut
  <2>3. Valid(q.session) /\ sessions[q.session] = u
    BY <2>1, <2>2 DEF Valid, SessionsEnd
  <2>. QED
    BY <2>1, <2>2, <2>3 DEF Holds
<1>. QED
  BY <1>1, <1>2 DEF Holds

\* Nothing is waited for unless the first call has sent its request.
LEMMA NoneWaits ==
  ASSUME PushInv, page.tasks = <<>> \/ page.tasks[1].pc \notin {"put", "delete"},
         NEW r \in requests
  PROVE  ~Waiting(r)
<1>. SUFFICES ASSUME Waiting(r) PROVE FALSE
  OBVIOUS
<1>1. r.kind \in {"put", "delete"}
  BY DEF PushInv, Numbered, RequestOK, Request, Waiting
<1>2. page.tasks # <<>> /\ page.tasks[1].pc = r.kind
  BY DEF PushInv, Waits, First
<1>. QED
  BY <1>1, <1>2

\* The answer that is waited for is that of the first call.
LEMMA WhoWaits ==
  ASSUME PushInv, NEW r \in requests, Waiting(r)
  PROVE  /\ page.tasks # <<>> /\ page.tasks[1].pc = r.kind /\ page.on = None
         /\ page.tasks[1].kind = IF r.kind = "put" THEN "sync" ELSE "disable"
         /\ r.kind = "put" \/ r.kind = "delete"
         /\ ~quiet
         /\ \A q \in requests \ {r} : ~Waiting(q)
<1>1. r.kind \in {"put", "delete"}
  BY DEF PushInv, Numbered, RequestOK, Request, Waiting
<1>2. /\ page.tasks # <<>> /\ page.tasks[1].pc = r.kind
      /\ page.tasks[1].kind = IF r.kind = "put" THEN "sync" ELSE "disable"
  BY DEF PushInv, Waits, First
<1>3. page.on = None /\ ~quiet
  BY <1>1, <1>2 DEF PushInv, Stages, Silent
<1>4. \A q \in requests \ {r} : ~Waiting(q)
  BY DEF PushInv, Waits
<1>. QED
  BY <1>1, <1>2, <1>3, <1>4

\* A call that has not begun has done nothing yet.
LEMMA Begun ==
  ASSUME page'.tasks # <<>> => page'.tasks[1].pc = "begin",
         \A r \in requests' : ~Waiting(r)
  PROVE  Stages' /\ Waits'
BY DEF Stages, Waits, First

\* A step that leaves the first call where it is.
LEMMA FirstStays ==
  ASSUME PushInv, live' = live, SessionsEnd, NoNewPut,
         UNCHANGED <<rows, overtaken>>, page'.on \in {page.on, None},
         \A r \in requests' : Waiting(r) => r \in requests,
         page'.tasks = <<>> => page.tasks = <<>>,
         page'.tasks # <<>> /\ page'.tasks[1].pc # "begin" => page.tasks # <<>>,
         page.tasks # <<>> => /\ page'.tasks[1].kind = page.tasks[1].kind
                              /\ page'.tasks[1].pc = page.tasks[1].pc
                              /\ page'.tasks[1].user = page.tasks[1].user
  PROVE  Stages' /\ Waits'
<1>1. \A kind, pc : First(kind, pc) => First(kind, pc)'
  BY DEF First
<1>2. \A kind, pc : First(kind, pc)' /\ pc # "begin" => First(kind, pc)
  BY DEF First
<1>3. Stages'
  <2>1. First("sync", "subscribe")' => live' = None
    BY <1>2 DEF PushInv, Stages
  <2>2. First("sync", "register")' =>
            live' # None /\ \A u \in Users : Holds(u)' => u = page'.tasks[1].user
    BY <1>2, FewerHold DEF PushInv, Stages, First
  <2>3. page'.tasks # <<>> /\ page'.tasks[1].pc # "begin" => page'.on = None
    BY DEF PushInv, Stages
  <2>. QED
    BY <2>1, <2>2, <2>3 DEF Stages
<1>4. Waits'
  <2>1. ASSUME NEW r \in requests', Waiting(r)
        PROVE  /\ r \in requests /\ page.tasks # <<>> /\ page'.tasks[1].user = page.tasks[1].user
               /\ First(IF r.kind = "put" THEN "sync" ELSE "disable", r.kind)'
    BY <2>1, <1>1 DEF PushInv, Waits, First
  <2>2. ASSUME NEW r \in requests', Waiting(r), r.kind = "put"
        PROVE  /\ r.endpoint = live'
               /\ Valid(r.session)' => sessions'[r.session] = page'.tasks[1].user
               /\ r.answer = "ok" => <<page'.tasks[1].user, live'>> \in rows' \/ overtaken'
    BY <2>1, <2>2 DEF PushInv, Waits, Valid, SessionsEnd
  <2>3. \A r, q \in requests' : Waiting(r) /\ Waiting(q) => r = q
    BY DEF PushInv, Waits
  <2>. QED
    BY <2>1, <2>2, <2>3 DEF Waits
<1>. QED
  BY <1>3, <1>4

\* A step of the page that subscribes to nothing.
LEMMA PageStep ==
  ASSUME PushInv, UNCHANGED <<server, overtaken, service, logins, endpoints>>,
         cookie' \in {cookie, None},
         \/ live' = live /\ owner' = owner
         \/ live' = None /\ owner' = None,
         \A r \in requests' : RequestOK(r), NoNewPut,
         \/ page'.user \in {page.user, None}
         \/ Valid(cookie) /\ page'.user = sessions[cookie],
         PageOK(page'), Silent', Stages', Waits', OnIsActive'
  PROVE  PushInv'
<1>1. UNCHANGED <<sessions, rows, jobs, worker>>
  BY DEF server, service
<1>2. Numbered'
  <2>1. \A r \in requests' : RequestOK(r)'
    BY DEF RequestOK
  <2>. QED
    BY <1>1, <2>1 DEF PushInv, Numbered
<1>3. SignedIn'
  BY <1>1 DEF PushInv, SignedIn, Valid
<1>4. OnlyTheOwner'
  <2>1. CASE live' = None
    BY <2>1 DEF OnlyTheOwner
  <2>2. CASE live' = live /\ owner' = owner
    <3>1. \A u : Holds(u)' => Holds(u)
      BY <1>1, <2>2, FewerHold DEF SessionsEnd
    <3>. QED
      BY <2>2, <3>1 DEF PushInv, OnlyTheOwner, Holds
  <2>. QED
    BY <2>1, <2>2
<1>5. Queued'
  BY <1>1 DEF PushInv, Queued
<1>. QED
  BY <1>2, <1>3, <1>4, <1>5 DEF PushInv

\* A step elsewhere.
LEMMA ElsewhereKept ==
  ASSUME PushInv, UNCHANGED <<browser, requests, overtaken, counters>>, SessionsEnd, Queued',
         rows' \subseteq rows, \A row \in rows \ rows' : row[2] # live,
         worker' \in [Workers -> Worker],
         \A w \in Workers : /\ worker'[w].todo \subseteq 1..endpoints
                            /\ worker'[w].gone \in {None} \cup 1..endpoints
                            /\ worker'[w].gone # None => worker'[w].gone # live
  PROVE  PushInv'
<1>1. UNCHANGED <<cookie, live, owner, page, quiet, logins, endpoints>>
  BY DEF browser, counters
<1>2. Numbered'
  <2>1. \A r \in requests' : RequestOK(r)'
    BY <1>1 DEF PushInv, Numbered, RequestOK
  <2>2. \A s \in DOMAIN sessions' : s \in 1..logins' /\ sessions'[s] \in Users
    BY <1>1 DEF PushInv, Numbered, SessionsEnd
  <2>. QED
    BY <1>1, <2>1, <2>2 DEF PushInv, Numbered
<1>3. PageOK(page')
  BY <1>1 DEF PushInv
<1>4. SignedIn' /\ Silent'
  BY <1>1 DEF PushInv, SignedIn, Silent, Valid, SessionsEnd
<1>5. \A u : Holds(u)' => Holds(u)
  <2>1. NoNewPut
    BY DEF NoNewPut
  <2>. QED
    BY <2>1, <1>1, FewerHold
<1>6. \A u : <<u, live>> \in rows => <<u, live>> \in rows'
  <2>1. \A u : <<u, live>>[2] = live
    OBVIOUS
  <2>. QED
    BY <2>1
<1>7. OnlyTheOwner' /\ OnIsActive'
  BY <1>1, <1>5, <1>6 DEF PushInv, OnlyTheOwner, OnIsActive, Holds
<1>8. Stages'
  BY <1>1, <1>5 DEF PushInv, Stages, First
<1>9. Waits'
  BY <1>1, <1>6 DEF PushInv, Waits, First, Valid, SessionsEnd
<1>. QED
  BY <1>2, <1>3, <1>4, <1>7, <1>8, <1>9 DEF PushInv

-----------------------------------------------------------------------------
(* The steps of the page.                                                  *)

LEMMA InitInv == Init => PushInv
<1>. SUFFICES ASSUME Init PROVE PushInv
  OBVIOUS
<1>1. page = NoPage /\ page.tasks = <<>> /\ page.user = None /\ page.leaving = "no" /\ page.on = None
  BY DEF Init, NoPage
<1>2. PageOK(page)
  <2>1. page \in Page
    BY <1>1 DEF Init, Page, NoPage
  <2>. QED
    BY <1>1, <2>1 DEF PageOK
<1>3. Numbered
  <2>1. Idle \in Worker
    BY DEF Idle, Worker
  <2>. QED
    BY <2>1 DEF Init, Numbered, Idle
<1>4. SignedIn /\ Silent /\ Stages /\ Waits /\ OnlyTheOwner /\ OnIsActive
  BY <1>1 DEF Init, SignedIn, Silent, Stages, Waits, First, OnlyTheOwner, OnIsActive
<1>5. Queued
  BY DEF Init, Queued
<1>. QED
  BY <1>2, <1>3, <1>4, <1>5 DEF PushInv

LEMMA LoginInv ==
  ASSUME PushInv, NEW u \in Users, Login(u)
  PROVE  PushInv'
<1>. DEFINE s == logins + 1
<1>1. /\ page.user = None /\ logins < MaxLogins /\ logins' = s /\ cookie' = s
      /\ sessions' = [t \in DOMAIN sessions \cup {s} |-> IF t = s THEN u ELSE sessions[t]]
      /\ page' = [page EXCEPT !.user = u, !.tasks = Append(page.tasks, Sync(u))]
      /\ quiet' = FALSE
      /\ UNCHANGED <<live, owner, rows, requests, overtaken, service, endpoints, troubles>>
  BY DEF Login
<1>2. Numbered /\ PageOK(page) /\ page \in Page /\ page.leaving = "no" /\ page.on = None
  BY <1>1 DEF PushInv, PageOK
<1>3. logins \in Nat /\ s \in 1..MaxLogins /\ s # None /\ s \notin 1..logins
      /\ \A n \in 1..logins : n \in 1..s
  BY <1>1, <1>2 DEF Numbered
<1>4. /\ PageOK(page') /\ page'.on = None /\ page'.user = u /\ page'.tasks # <<>>
      /\ page.tasks # <<>> => page'.tasks[1] = page.tasks[1]
      /\ page.tasks = <<>> => page'.tasks[1].pc = "begin"
  <2>1. page' = [page EXCEPT !.user = u, !.leaving = "no", !.tasks = Append(page.tasks, Sync(u))]
    BY <1>1, <1>2 DEF Page
  <2>2. Sync(u).pc = "begin"
    BY DEF Sync
  <2>. QED
    <3>1. /\ PageOK(page') /\ page'.on = page.on /\ page'.user = u /\ page'.tasks # <<>>
          /\ page.tasks # <<>> => page'.tasks[1] = page.tasks[1]
          /\ page.tasks = <<>> => page'.tasks[1] = Sync(u)
      <4>1. page' = Called(page, u, "no", Sync(u))
        BY <2>1 DEF Called
      <4>. QED
        BY <1>1, <1>2, <4>1, CalledOK
    <3>. QED
      BY <1>2, <2>2, <3>1
<1>. HIDE DEF s
<1>5. /\ sessions'[s] = u /\ DOMAIN sessions' = DOMAIN sessions \cup {s}
      /\ \A t \in DOMAIN sessions : t \in 1..logins /\ sessions'[t] = sessions[t]
  BY <1>1, <1>2, <1>3 DEF Numbered
<1>6. \A r \in requests : (Valid(r.session)' <=> Valid(r.session))
  BY <1>2, <1>3, <1>5 DEF Valid, Numbered, RequestOK
<1>7. UNCHANGED worker /\ UNCHANGED jobs
  BY <1>1 DEF service
<1>8. Numbered'
  <2>1. \A r \in requests' : RequestOK(r)'
    BY <1>1, <1>2, <1>3 DEF Numbered, RequestOK
  <2>2. \A t \in DOMAIN sessions' : t \in 1..logins' /\ sessions'[t] \in Users
    BY <1>1, <1>2, <1>3, <1>5 DEF Numbered
  <2>3. logins' \in 0..MaxLogins /\ cookie' \in 1..logins'
    BY <1>1, <1>3
  <2>. QED
    BY <1>1, <1>2, <1>7, <2>1, <2>2, <2>3 DEF Numbered
<1>9. SignedIn'
  BY <1>1, <1>4, <1>5 DEF SignedIn
<1>10. Silent'
  BY <1>1, <1>2, <1>4 DEF Silent, Page
<1>11. \A v : Holds(v)' => Holds(v)
  BY <1>1, <1>5, <1>6 DEF Holds, Valid
<1>12. Stages'
  BY <1>1, <1>4, <1>11 DEF PushInv, Stages, First
<1>13. Waits'
  <2>1. \A r \in requests : Waiting(r) => page.tasks # <<>> /\ page'.tasks[1] = page.tasks[1]
    BY <1>4, WhoWaits
  <2>. QED
    BY <1>1, <1>4, <1>5, <1>6, <2>1 DEF PushInv, Waits, First, Valid
<1>14. OnlyTheOwner' /\ OnIsActive'
  <2>1. OnlyTheOwner'
    <3>1. live # None => \A v \in Users : Holds(v) => owner = [user |-> v, endpoint |-> live]
      BY DEF PushInv, OnlyTheOwner, Holds
    <3>2. (live # None)' => \A v \in Users : Holds(v)' => (owner = [user |-> v, endpoint |-> live])'
      BY <1>1, <1>11, <3>1
    <3>. QED
      BY <3>2 DEF OnlyTheOwner, Holds
  <2>2. OnIsActive'
    BY <1>4 DEF OnIsActive
  <2>. QED
    BY <2>1, <2>2
<1>15. Queued'
  BY <1>7 DEF PushInv, Queued
<1>. QED
  BY <1>4, <1>8, <1>9, <1>10, <1>12, <1>13, <1>14, <1>15 DEF PushInv

LEMMA ReloadInv ==
  ASSUME PushInv, Reload
  PROVE  PushInv'
<1>. DEFINE u == IF Valid(cookie) THEN sessions[cookie] ELSE None
<1>1. /\ page' = (IF u = None THEN NoPage ELSE [NoPage EXCEPT !.user = u, !.tasks = <<Sync(u)>>])
      /\ requests' = {[r EXCEPT !.awaited = FALSE] : r \in {q \in requests : q.answer = None}}
      /\ UNCHANGED <<server, cookie, live, owner, quiet, overtaken, service, logins, endpoints>>
  BY DEF Reload
<1>2. u \in Users \cup {None} /\ (u # None => Valid(cookie) /\ u = sessions[cookie])
  BY DEF PushInv, Numbered, Valid
<1>. HIDE DEF u
<1>3. /\ page'.user = u /\ page'.leaving = "no" /\ page'.on = None
      /\ page'.tasks = IF u = None THEN <<>> ELSE <<Sync(u)>>
  BY <1>1 DEF NoPage
<1>4. PageOK(page') /\ (page'.tasks # <<>> => page'.tasks[1].pc = "begin")
  <2>1. CASE u = None
    <3>1. page' \in Page
      BY <1>1, <2>1 DEF Page, NoPage
    <3>. QED
      BY <1>3, <2>1, <3>1 DEF PageOK
  <2>2. CASE u # None
    <3>1. Sync(u) \in Task /\ Sync(u).pc = "begin" /\ Sync(u).kind = "sync" /\ Sync(u).user = u
      BY <1>2, <2>2 DEF Task, Sync, SyncSteps
    <3>. DEFINE ts == <<Sync(u)>>
    <3>2. ts \in Seq(Task) /\ DOMAIN ts = {1} /\ ts[1] = Sync(u) /\ page'.tasks = ts
      BY <1>3, <2>2, <3>1
    <3>. HIDE DEF ts
    <3>3. page' \in Page
      BY <1>1, <1>2, <2>2, <3>2 DEF Page, NoPage, ts
    <3>. QED
      BY <1>3, <2>2, <3>1, <3>2, <3>3 DEF PageOK, SyncSteps
  <2>. QED
    BY <2>1, <2>2
<1>5. ASSUME NEW r \in requests'
      PROVE  /\ RequestOK(r) /\ ~Waiting(r)
             /\ r.kind = "put" => \E q \in requests : /\ q.kind = "put" /\ q.endpoint = r.endpoint
                                                      /\ q.session = r.session
  <2>1. PICK q \in requests : r = [q EXCEPT !.awaited = FALSE]
    BY <1>1
  <2>2. RequestOK(q) /\ q \in Request
    BY DEF PushInv, Numbered, RequestOK
  <2>3. /\ r \in Request /\ r.kind = q.kind /\ r.endpoint = q.endpoint /\ r.session = q.session
        /\ r.awaited = FALSE
    BY <2>1, <2>2 DEF Request
  <2>. QED
    BY <2>2, <2>3 DEF RequestOK, Waiting
<1>6. NoNewPut
  BY <1>5 DEF NoNewPut
<1>7. Stages' /\ Waits'
  BY <1>4, <1>5, Begun
<1>8. Silent'
  <2>1. quiet => u = None
    BY DEF PushInv, Silent, Valid, u
  <2>. QED
    BY <1>1, <1>3, <2>1 DEF PushInv, Silent
<1>9. OnIsActive'
  BY <1>3 DEF OnIsActive
<1>. QED
  BY <1>1, <1>2, <1>3, <1>4, <1>5, <1>6, <1>7, <1>8, <1>9, PageStep

LEMMA UnauthorizedInv ==
  ASSUME PushInv, Unauthorized
  PROVE  PushInv'
<1>1. /\ page' = Cleared(page)
      /\ UNCHANGED <<server, cookie, live, owner, quiet, requests, overtaken, service, counters>>
  BY DEF Unauthorized
<1>2. PageOK(page)
  BY DEF PushInv
<1>3. SessionsEnd /\ NoNewPut /\ \A r \in requests' : RequestOK(r)
  BY <1>1 DEF SessionsEnd, NoNewPut, PushInv, Numbered, server
<1>4. Stages' /\ Waits'
  BY <1>1, <1>2, <1>3, ClearedOK, FirstStays DEF server
<1>5. Silent' /\ OnIsActive'
  BY <1>1, <1>2, ClearedOK DEF PushInv, Silent, OnIsActive
<1>. QED
  BY <1>1, <1>2, <1>3, <1>4, <1>5, ClearedOK, PageStep DEF counters

\* A call ends without success and without a request that is waited for.
LEMMA GivesUp ==
  ASSUME PushInv, UNCHANGED <<server, cookie, quiet, overtaken, service, logins, endpoints>>,
         page.tasks # <<>>, page.on = None \/ (live' = live /\ owner' = owner),
         page' = Ended(page, FALSE) \/ page' = Ended(Cleared(page), FALSE),
         \/ live' = live /\ owner' = owner
         \/ live' = None /\ owner' = None,
         NoNewPut, \A r \in requests' : RequestOK(r) /\ ~Waiting(r)
  PROVE  PushInv'
<1>1. PageOK(page)
  BY DEF PushInv
<1>2. ASSUME NEW p, p \in {page, Cleared(page)}
      PROVE  /\ PageOK(p) /\ p.tasks # <<>> /\ p.user \in {page.user, None}
             /\ p.on = None \/ (p.on = page.on /\ p.user = page.user)
  <2>1. CASE p = page
    BY <2>1, <1>1
  <2>2. CASE p = Cleared(page)
    BY <2>2, <1>1, ClearedOK
  <2>. QED
    BY <1>2, <2>1, <2>2
<1>3. ASSUME NEW p, p \in {page, Cleared(page)}, page' = Ended(p, FALSE)
      PROVE  /\ PageOK(page') /\ (page'.tasks # <<>> => page'.tasks[1].pc = "begin")
             /\ page'.leaving \notin {"posting", "posted"}
             /\ page'.user \in {page.user, None}
             /\ page'.on = None \/ (page'.on = page.on /\ page'.user = page.user)
  <2>1. /\ PageOK(p) /\ p.tasks # <<>> /\ p.user \in {page.user, None}
        /\ p.on = None \/ (p.on = page.on /\ p.user = page.user)
    BY <1>2, <1>3
  <2>2. /\ PageOK(Ended(p, FALSE)) /\ Ended(p, FALSE).user = p.user
        /\ Ended(p, FALSE).tasks # <<>> => Ended(p, FALSE).tasks[1].pc = "begin"
        /\ Ended(p, FALSE).leaving \notin {"posting", "posted"}
        /\ Ended(p, FALSE).on = p.on
    <3>1. FALSE \in BOOLEAN
      OBVIOUS
    <3>. QED
      BY <2>1, <3>1, EndedOK
  <2>. QED
    BY <1>3, <2>1, <2>2
<1>4. /\ PageOK(page') /\ (page'.tasks # <<>> => page'.tasks[1].pc = "begin")
      /\ page'.leaving \notin {"posting", "posted"}
      /\ page'.user \in {page.user, None}
      /\ page'.on = None \/ (page'.on = page.on /\ page'.user = page.user)
  BY <1>3
<1>5. Stages' /\ Waits'
  BY <1>4, Begun
<1>6. Silent'
  BY <1>4 DEF PushInv, Silent
<1>7. OnIsActive'
  BY <1>4 DEF PushInv, OnIsActive, server
<1>. QED
  BY <1>4, <1>5, <1>6, <1>7, PageStep

\* A call goes on without a request, and the page reports nothing as on.
LEMMA GoesOn ==
  ASSUME PushInv, UNCHANGED <<server, cookie, quiet, requests, overtaken, service, logins, endpoints>>,
         page.tasks # <<>>, page.tasks[1].kind = "sync", page.tasks[1].pc \notin {"put", "delete"},
         NEW pc \in {"look", "subscribe", "register"},
         \/ page' = At(page, pc) /\ page.on = None
         \/ page' = At([page EXCEPT !.on = None], pc),
         \/ live' = live /\ owner' = owner
         \/ live' = None /\ owner' = None,
         pc = "subscribe" => live' = None,
         pc = "register" => live' # None /\ \A u \in Users : Holds(u)' => u = page.tasks[1].user
  PROVE  PushInv'
<1>. DEFINE p == [page EXCEPT !.on = None]
<1>1. PageOK(page) /\ page \in Page
  BY DEF PushInv, PageOK
<1>2. /\ p \in Page /\ p.tasks = page.tasks /\ p.user = page.user /\ p.leaving = page.leaving
      /\ p.on = None
  BY <1>1 DEF Page
<1>3. page.on = None => p = page
  BY <1>1 DEF Page
<1>. HIDE DEF p
<1>4. PageOK(p)
  BY <1>1, <1>2 DEF PageOK
<1>5. page' = At(p, pc)
  BY <1>3 DEF p
<1>6. pc \in SyncSteps
  BY DEF SyncSteps
<1>7. /\ PageOK(page') /\ page'.tasks # <<>> /\ page'.user = page.user /\ page'.on = None
      /\ page'.leaving = page.leaving
      /\ page'.tasks[1].kind = "sync" /\ page'.tasks[1].pc = pc
      /\ page'.tasks[1].user = page.tasks[1].user
  BY <1>2, <1>4, <1>5, <1>6, AtOK
<1>8. NoNewPut /\ \A r \in requests' : RequestOK(r) /\ ~Waiting(r)
  BY NoneWaits DEF NoNewPut, PushInv, Numbered
<1>9. Waits'
  BY <1>8 DEF Waits
<1>10. Stages'
  BY <1>7 DEF Stages, First
<1>11. Silent'
  BY <1>1, <1>7 DEF PushInv, Silent, PageOK
<1>12. OnIsActive'
  BY <1>7 DEF OnIsActive
<1>. QED
  BY <1>7, <1>8, <1>9, <1>10, <1>11, <1>12, PageStep

LEMMA ConfigureInv ==
  ASSUME PushInv, Configure
  PROVE  PushInv'
<1>1. /\ page.tasks # <<>> /\ page.tasks[1].kind = "sync" /\ page.tasks[1].pc = "begin"
      /\ UNCHANGED <<server, cookie, live, owner, quiet, requests, overtaken, service, logins, endpoints>>
      /\ \/ page' = At([page EXCEPT !.on = None], "look")
         \/ page' = Ended(page, FALSE) \/ page' = Ended(Cleared(page), FALSE)
  BY DEF Configure, First
<1>2. CASE page' = At([page EXCEPT !.on = None], "look")
  BY <1>1, <1>2, GoesOn
<1>3. CASE page' = Ended(page, FALSE) \/ page' = Ended(Cleared(page), FALSE)
  <2>1. NoNewPut /\ \A r \in requests' : RequestOK(r) /\ ~Waiting(r)
    BY <1>1, NoneWaits DEF NoNewPut, PushInv, Numbered
  <2>. QED
    BY <1>1, <1>3, <2>1, GivesUp
<1>. QED
  BY <1>1, <1>2, <1>3

LEMMA LookInv ==
  ASSUME PushInv, Look
  PROVE  PushInv'
<1>1. /\ page.tasks # <<>> /\ page.tasks[1].kind = "sync" /\ page.tasks[1].pc = "look"
      /\ UNCHANGED <<server, cookie, quiet, requests, overtaken, service, logins, endpoints>>
      /\ \/ live' = live /\ owner' = owner
         \/ live' = None /\ owner' = None
      /\ \/ page' = Ended(page, FALSE)
         \/ page' = At(page, "subscribe") /\ live' = None
         \/ /\ page' = At(page, "register") /\ live' # None /\ live' = live /\ owner' = owner
            /\ ~Foreign(page.tasks[1].user)
  BY DEF Look, First, Unsubscribed
<1>2. page.on = None
  BY <1>1 DEF PushInv, Stages
<1>3. NoNewPut /\ \A r \in requests' : RequestOK(r) /\ ~Waiting(r)
  BY <1>1, NoneWaits DEF NoNewPut, PushInv, Numbered
<1>4. CASE page' = Ended(page, FALSE)
  BY <1>1, <1>2, <1>3, <1>4, GivesUp
<1>5. CASE page' = At(page, "subscribe") /\ live' = None
  <2>1. "subscribe" \in {"look", "subscribe", "register"}
    OBVIOUS
  <2>. QED
    BY <1>1, <1>2, <1>5, <2>1, GoesOn
<1>6. CASE /\ page' = At(page, "register") /\ live' # None /\ live' = live /\ owner' = owner
           /\ ~Foreign(page.tasks[1].user)
  <2>1. \A u : Holds(u)' => Holds(u)
    BY <1>1, <1>3, <1>6, FewerHold DEF SessionsEnd, server
  <2>2. ASSUME NEW u \in Users, Holds(u)
        PROVE  u = page.tasks[1].user
    <3>1. owner = [user |-> u, endpoint |-> live]
      BY <1>6, <2>2 DEF PushInv, OnlyTheOwner, Holds
    <3>2. owner = [user |-> page.tasks[1].user, endpoint |-> live]
      BY <1>6 DEF Foreign
    <3>. QED
      BY <3>1, <3>2
  <2>3. "register" \in {"look", "subscribe", "register"}
    OBVIOUS
  <2>. QED
    BY <1>1, <1>2, <1>6, <2>1, <2>2, <2>3, GoesOn
<1>. QED
  BY <1>1, <1>4, <1>5, <1>6

\* A new subscription is nobody's yet, and no endpoint found gone.
LEMMA SubscribeInv ==
  ASSUME PushInv, Subscribe
  PROVE  PushInv'
<1>1. /\ page.tasks # <<>> /\ page.tasks[1].kind = "sync" /\ page.tasks[1].pc = "subscribe"
      /\ UNCHANGED <<server, cookie, owner, quiet, requests, overtaken, service, logins>>
      /\ \/ /\ endpoints < MaxEndpoints /\ endpoints' = endpoints + 1 /\ live' = endpoints + 1
            /\ page' = At(page, "register")
         \/ page' = Ended(page, FALSE) /\ UNCHANGED <<live, endpoints>>
  BY DEF Subscribe, First
<1>2. /\ page.on = None /\ live = None /\ Numbered /\ PageOK(page)
      /\ \A r \in requests : RequestOK(r) /\ ~Waiting(r)
  BY <1>1, NoneWaits DEF PushInv, Stages, First, Numbered
<1>3. CASE page' = Ended(page, FALSE) /\ UNCHANGED <<live, endpoints>>
  <2>1. NoNewPut
    BY <1>1 DEF NoNewPut
  <2>. QED
    BY <1>1, <1>2, <1>3, <2>1, GivesUp
<1>4. CASE /\ endpoints < MaxEndpoints /\ endpoints' = endpoints + 1 /\ live' = endpoints + 1
           /\ page' = At(page, "register")
  <2>1. /\ endpoints \in Nat /\ endpoints' \in 0..MaxEndpoints /\ live' \in 1..endpoints'
        /\ live' # None /\ live' \notin 1..endpoints
        /\ \A e \in 1..endpoints : e \in 1..endpoints'
    BY <1>2, <1>4 DEF Numbered
  <2>2. /\ PageOK(page') /\ page'.tasks # <<>> /\ page'.user = page.user /\ page'.on = None
        /\ page'.leaving = page.leaving
        /\ page'.tasks[1].kind = "sync" /\ page'.tasks[1].pc = "register"
    <3>1. "register" \in SyncSteps
      BY DEF SyncSteps
    <3>. QED
      BY <1>1, <1>2, <1>4, <3>1, AtOK
  <2>3. UNCHANGED <<sessions, rows, jobs, worker>>
    BY <1>1 DEF server, service
  <2>4. Numbered'
    <3>1. \A r \in requests' : RequestOK(r)'
      BY <1>1, <1>2, <2>1 DEF RequestOK
    <3>2. \A w \in Workers : /\ worker'[w].todo \subseteq 1..endpoints'
                             /\ worker'[w].gone \in {None} \cup 1..endpoints'
                             /\ worker'[w].gone # None => worker'[w].gone # live'
      BY <1>2, <2>1, <2>3 DEF Numbered
    <3>3. rows' \subseteq Users \X (1..endpoints')
      BY <1>2, <2>1, <2>3 DEF Numbered
    <3>. QED
      BY <1>1, <1>2, <2>1, <2>3, <3>1, <3>2, <3>3 DEF Numbered
  <2>5. \A u : ~Holds(u)'
    <3>1. \A u : <<u, live'>> \notin rows'
      BY <1>2, <2>1, <2>3 DEF Numbered
    <3>2. \A r \in requests' : r.kind = "put" => r.endpoint # live'
      BY <1>1, <1>2, <2>1 DEF RequestOK
    <3>. QED
      BY <3>1, <3>2 DEF Holds
  <2>6. SignedIn' /\ Queued'
    BY <1>1, <2>2, <2>3 DEF PushInv, SignedIn, Valid, Queued
  <2>7. Silent'
    BY <1>1, <1>2, <2>2 DEF PushInv, Silent, PageOK
  <2>8. Stages' /\ Waits'
    BY <1>1, <1>2, <2>1, <2>2, <2>5 DEF Stages, Waits, First
  <2>9. OnlyTheOwner' /\ OnIsActive'
    BY <2>2, <2>5 DEF OnlyTheOwner, OnIsActive, Holds
  <2>. QED
    BY <2>2, <2>4, <2>6, <2>7, <2>8, <2>9 DEF PushInv
<1>. QED
  BY <1>1, <1>3, <1>4

\* What is sent is well formed.
LEMMA SentOK ==
  ASSUME PushInv, NEW kind \in {"put", "delete", "logout"}, kind = "put" => live # None
  PROVE  RequestOK([kind |-> kind, session |-> cookie, endpoint |-> live,
                    awaited |-> TRUE, answer |-> None])
<1>1. /\ logins \in 0..MaxLogins /\ endpoints \in 0..MaxEndpoints
      /\ cookie \in {None} \cup 1..logins /\ live \in {None} \cup 1..endpoints
  BY DEF PushInv, Numbered
<1>2. cookie \in {None} \cup 1..MaxLogins /\ live \in {None} \cup 1..MaxEndpoints
  BY <1>1
<1>. QED
  BY <1>1, <1>2 DEF RequestOK, Request

\* The PUT is sent under the session of the user it records as the owner.
LEMMA RegisterInv ==
  ASSUME PushInv, Register
  PROVE  PushInv'
<1>1. /\ page.tasks # <<>> /\ page.tasks[1].kind = "sync" /\ page.tasks[1].pc = "register"
      /\ UNCHANGED <<server, cookie, quiet, overtaken, service, logins, endpoints>>
  BY DEF Register, First
<1>2. /\ page.on = None /\ live # None /\ Numbered /\ PageOK(page) /\ page \in Page
      /\ \A u \in Users : Holds(u) => u = page.tasks[1].user
      /\ \A r \in requests : RequestOK(r) /\ ~Waiting(r)
  BY <1>1, NoneWaits DEF PushInv, Stages, First, Numbered, PageOK
<1>3. CASE ~Fresh
  <2>1. /\ page' = Ended(page, FALSE) /\ UNCHANGED requests
        /\ \/ live' = live /\ owner' = owner
           \/ live' = None /\ owner' = None
    BY <1>3 DEF Register, Unsubscribed
  <2>2. NoNewPut
    BY <2>1 DEF NoNewPut
  <2>. QED
    BY <1>1, <1>2, <2>1, <2>2, GivesUp
<1>4. CASE Fresh
  <2>. DEFINE u == page.tasks[1].user
              r == [kind |-> "put", session |-> cookie, endpoint |-> live,
                    awaited |-> TRUE, answer |-> None]
  <2>1. /\ owner' = [user |-> u, endpoint |-> live] /\ requests' = requests \cup {r}
        /\ page' = At(page, "put") /\ live' = live
    BY <1>4 DEF Register, Send
  <2>2. RequestOK(r) /\ r.kind = "put" /\ r.session = cookie /\ r.endpoint = live
        /\ r.answer = None
    BY <1>2, SentOK
  <2>3. u \in Users /\ u = page.user
    <3>1. page.tasks \in Seq(Task) /\ 1 \in DOMAIN page.tasks
      BY <1>1, <1>2 DEF Page
    <3>2. page.tasks[1] \in Task
      BY <3>1
    <3>. QED
      BY <1>2, <1>4, <3>1, <3>2 DEF PageOK, Fresh, Task
  <2>4. Valid(cookie) => sessions[cookie] = u
    BY <2>3 DEF PushInv, SignedIn
  <2>. HIDE DEF r, u
  <2>5. /\ PageOK(page') /\ page'.tasks # <<>> /\ page'.user = page.user /\ page'.on = None
        /\ page'.leaving = page.leaving
        /\ page'.tasks[1].kind = "sync" /\ page'.tasks[1].pc = "put"
        /\ page'.tasks[1].user = u
    <3>1. "put" \in SyncSteps
      BY DEF SyncSteps
    <3>. QED
      BY <1>1, <1>2, <2>1, <3>1, AtOK DEF u
  <2>6. UNCHANGED <<sessions, rows, jobs, worker>>
    BY <1>1 DEF server, service
  <2>7. Numbered'
    <3>1. \A q \in requests' : RequestOK(q)'
      BY <1>1, <1>2, <2>1, <2>2 DEF RequestOK
    <3>2. owner' \in [user : Users, endpoint : 1..MaxEndpoints]
      BY <1>2, <2>1, <2>3 DEF Numbered
    <3>. QED
      BY <1>1, <1>2, <2>1, <2>6, <3>1, <3>2 DEF Numbered
  <2>8. ASSUME NEW v \in Users, Holds(v)'
        PROVE  v = u
    <3>1. CASE <<v, live>> \in rows
      BY <1>2, <3>1 DEF Holds, u
    <3>2. CASE \E q \in requests' : /\ q.kind = "put" /\ q.endpoint = live
                                    /\ Valid(q.session) /\ sessions[q.session] = v
      <4>1. PICK q \in requests' : /\ q.kind = "put" /\ q.endpoint = live
                                   /\ Valid(q.session) /\ sessions[q.session] = v
        BY <3>2
      <4>2. CASE q \in requests
        BY <1>2, <4>1, <4>2 DEF Holds, u
      <4>3. CASE q = r
        BY <2>2, <2>4, <4>1, <4>3
      <4>. QED
        BY <2>1, <4>2, <4>3
    <3>. QED
      BY <2>1, <2>6, <2>8, <3>1, <3>2 DEF Holds, Valid
  <2>9. SignedIn' /\ Queued'
    BY <1>1, <2>5, <2>6 DEF PushInv, SignedIn, Valid, Queued
  <2>10. Silent'
    BY <1>1, <1>2, <2>1, <2>5 DEF PushInv, Silent, PageOK
  <2>11. Stages'
    BY <2>5 DEF Stages, First
  <2>12. Waits'
    BY <1>2, <2>1, <2>2, <2>4, <2>5, <2>6 DEF Waits, First, Waiting, Valid
  <2>13. OnlyTheOwner' /\ OnIsActive'
    <3>1. OnlyTheOwner'
      BY <2>1, <2>8 DEF OnlyTheOwner, Holds
    <3>. QED
      BY <2>5, <3>1 DEF OnIsActive
  <2>. QED
    BY <2>5, <2>7, <2>9, <2>10, <2>11, <2>12, <2>13 DEF PushInv
<1>. QED
  BY <1>3, <1>4

\* The page reports as on what the server has accepted for its user.
LEMMA ConfirmInv ==
  ASSUME PushInv, NEW r \in requests, Confirm(r)
  PROVE  PushInv'
<1>1. /\ r.kind = "put" /\ r.awaited /\ Waiting(r) /\ requests' = requests \ {r}
      /\ UNCHANGED <<server, cookie, quiet, overtaken, service, logins, endpoints>>
  BY DEF Confirm, Waiting
<1>2. /\ page.tasks # <<>> /\ page.tasks[1].pc = "put" /\ page.tasks[1].kind = "sync"
      /\ page.on = None /\ ~quiet /\ \A q \in requests \ {r} : ~Waiting(q)
  BY <1>1, WhoWaits
<1>3. /\ NoNewPut /\ \A q \in requests' : RequestOK(q) /\ ~Waiting(q)
  BY <1>1, <1>2 DEF NoNewPut, PushInv, Numbered
<1>4. CASE ~Registered(r)
  <2>1. /\ page' = Ended(page, FALSE) \/ page' = Ended(Cleared(page), FALSE)
        /\ \/ live' = live /\ owner' = owner
           \/ live' = None /\ owner' = None
    BY <1>4 DEF Confirm, Unsubscribed
  <2>. QED
    BY <1>1, <1>2, <1>3, <2>1, GivesUp
<1>5. CASE Registered(r)
  <2>1. page' = Ended(page, TRUE) /\ UNCHANGED <<live, owner>>
    <3>1. r.answer = "ok"
      BY <1>5 DEF Registered
    <3>. QED
      BY <1>5, <3>1 DEF Confirm
  <2>2. /\ r.answer = "ok" /\ Fresh /\ PageOK(page)
        /\ <<page.tasks[1].user, live>> \in rows \/ overtaken
        /\ live = r.endpoint
    BY <1>1, <1>5 DEF Registered, PushInv, Waits
  <2>3. live # None /\ live \in 1..MaxEndpoints
    <3>1. live # None
      BY <1>1, <2>2 DEF PushInv, Numbered, RequestOK
    <3>. QED
      BY <3>1 DEF PushInv, Numbered
  <2>4. page.tasks[1].user = page.user /\ page.tasks[1].fresh
    <3>1. page.tasks \in Seq(Task) /\ 1 \in DOMAIN page.tasks
      BY <1>2, <2>2 DEF PageOK, Page
    <3>. QED
      BY <2>2, <3>1 DEF PageOK, Fresh
  <2>5. /\ PageOK(page') /\ page'.user = page.user /\ page'.on = live
        /\ page'.tasks # <<>> => page'.tasks[1].pc = "begin"
        /\ page'.leaving \notin {"posting", "posted"}
    <3>1. TRUE \in BOOLEAN
      OBVIOUS
    <3>2. page.tasks[1].kind # "disable"
      BY <1>2
    <3>. QED
      BY <1>2, <2>1, <2>2, <2>3, <2>4, <3>1, <3>2, EndedOK
  <2>6. Stages' /\ Waits'
    BY <1>3, <2>5, Begun
  <2>7. Silent' /\ OnIsActive'
    BY <1>1, <1>2, <2>1, <2>2, <2>4, <2>5 DEF Silent, OnIsActive, server
  <2>. QED
    BY <1>1, <1>3, <2>1, <2>5, <2>6, <2>7, PageStep
<1>. QED
  BY <1>4, <1>5

LEMMA LeaveInv ==
  ASSUME PushInv, Leave
  PROVE  PushInv'
<1>. DEFINE u == page.user
<1>1. /\ u # None /\ page.leaving = "no"
      /\ page' = Called(page, u, "disabling", Disable(u))
      /\ UNCHANGED <<server, cookie, live, owner, quiet, requests, overtaken, service, counters>>
  <2>1. page' = [page EXCEPT !.leaving = "disabling", !.tasks = Append(@, Disable(u))]
    BY DEF Leave
  <2>2. page \in Page
    BY DEF PushInv, PageOK
  <2>3. page' = Called(page, u, "disabling", Disable(u))
    BY <2>1, <2>2 DEF Called, Page
  <2>. QED
    BY <2>3 DEF Leave
<1>2. PageOK(page) /\ u \in Users
  BY <1>1 DEF PushInv, PageOK, Page
<1>3. /\ PageOK(page') /\ page'.on = page.on /\ page'.user = u /\ page'.tasks # <<>>
      /\ page.tasks # <<>> => page'.tasks[1] = page.tasks[1]
      /\ page.tasks = <<>> => page'.tasks[1].pc = "begin"
  BY <1>1, <1>2, CalledOK
<1>4. SessionsEnd /\ NoNewPut /\ \A r \in requests' : RequestOK(r)
  BY <1>1 DEF SessionsEnd, NoNewPut, PushInv, Numbered, server
<1>5. Stages' /\ Waits'
  BY <1>1, <1>3, <1>4, FirstStays DEF server
<1>6. Silent'
  <2>1. page'.leaving \notin {"posting", "posted"}
    BY <1>3 DEF PageOK
  <2>. QED
    BY <1>1, <2>1 DEF PushInv, Silent
<1>7. OnIsActive'
  BY <1>1, <1>3 DEF PushInv, OnIsActive, server
<1>. QED
  BY <1>1, <1>3, <1>4, <1>5, <1>6, <1>7, PageStep DEF counters

LEMMA FindSubscriptionInv ==
  ASSUME PushInv, FindSubscription
  PROVE  PushInv'
<1>1. /\ page.tasks # <<>> /\ page.tasks[1].kind = "disable" /\ page.tasks[1].pc = "begin"
      /\ UNCHANGED <<server, cookie, live, quiet, overtaken, service, counters>>
  BY DEF FindSubscription, First
<1>2. /\ PageOK(page) /\ page \in Page /\ ~quiet
      /\ \A r \in requests : RequestOK(r) /\ ~Waiting(r)
  BY <1>1, NoneWaits DEF PushInv, Silent, Numbered, PageOK
<1>3. CASE ~Fresh
  <2>1. page' = Ended(page, FALSE) /\ UNCHANGED <<owner, requests>>
    BY <1>3 DEF FindSubscription
  <2>2. NoNewPut
    BY <2>1 DEF NoNewPut
  <2>. QED
    BY <1>1, <1>2, <2>1, <2>2, GivesUp DEF counters
<1>4. CASE Fresh /\ live = None
  <2>1. page' = Ended(page, TRUE) /\ owner' = None /\ UNCHANGED requests
    BY <1>4 DEF FindSubscription
  <2>2. /\ PageOK(page') /\ page'.user = page.user /\ page'.on = page.on
        /\ page'.tasks # <<>> => page'.tasks[1].pc = "begin"
    <3>1. TRUE \in BOOLEAN /\ page.tasks[1].kind # "sync"
      BY <1>1
    <3>. QED
      BY <1>1, <1>2, <2>1, <3>1, EndedOK
  <2>3. NoNewPut /\ Stages' /\ Waits'
    BY <1>2, <2>1, <2>2, Begun DEF NoNewPut
  <2>4. Silent' /\ OnIsActive'
    BY <1>1, <1>2, <1>4, <2>2 DEF PushInv, Silent, OnIsActive, server
  <2>. QED
    BY <1>1, <1>2, <1>4, <2>1, <2>2, <2>3, <2>4, PageStep DEF counters
<1>5. CASE Fresh /\ live # None
  <2>. DEFINE p == [page EXCEPT !.on = None]
              r == [kind |-> "delete", session |-> cookie, endpoint |-> live,
                    awaited |-> TRUE, answer |-> None]
  <2>1. page' = At(p, "delete") /\ requests' = requests \cup {r} /\ UNCHANGED owner
    BY <1>5 DEF FindSubscription, Send
  <2>2. RequestOK(r) /\ r.kind = "delete"
    BY SentOK
  <2>. HIDE DEF r
  <2>3. /\ p \in Page /\ p.tasks = page.tasks /\ p.user = page.user /\ p.leaving = page.leaving
        /\ p.on = None
    BY <1>2 DEF Page
  <2>. HIDE DEF p
  <2>4. PageOK(p)
    BY <1>2, <2>3 DEF PageOK
  <2>5. /\ PageOK(page') /\ page'.tasks # <<>> /\ page'.user = page.user /\ page'.on = None
        /\ page'.leaving = page.leaving
        /\ page'.tasks[1].kind = "disable" /\ page'.tasks[1].pc = "delete"
    <3>1. "delete" \in DisableSteps /\ p.tasks[1].kind # "sync"
      BY <1>1, <2>3 DEF DisableSteps
    <3>. QED
      BY <1>1, <2>1, <2>3, <2>4, <3>1, AtOK
  <2>6. NoNewPut /\ \A q \in requests' : RequestOK(q)
    BY <1>2, <2>1, <2>2 DEF NoNewPut
  <2>7. Stages'
    BY <2>5 DEF Stages, First
  <2>8. Waits'
    BY <1>2, <2>1, <2>2, <2>5 DEF Waits, First
  <2>9. Silent' /\ OnIsActive'
    BY <1>1, <1>2, <2>5 DEF PushInv, Silent, OnIsActive, PageOK
  <2>. QED
    BY <1>1, <2>1, <2>5, <2>6, <2>7, <2>8, <2>9, PageStep DEF counters
<1>. QED
  BY <1>3, <1>4, <1>5

\* A logout goes on only without a subscription.
LEMMA UnsubscribeInv ==
  ASSUME PushInv, NEW r \in requests, Unsubscribe(r)
  PROVE  PushInv'
<1>1. /\ r.kind = "delete" /\ Waiting(r) /\ requests' = requests \ {r}
      /\ UNCHANGED <<server, cookie, quiet, overtaken, service, logins, endpoints>>
  BY DEF Unsubscribe, Waiting
<1>2. /\ page.tasks # <<>> /\ page.tasks[1].pc = "delete" /\ page.tasks[1].kind = "disable"
      /\ page.on = None /\ ~quiet /\ \A q \in requests \ {r} : ~Waiting(q)
  BY <1>1, WhoWaits
<1>3. NoNewPut /\ PageOK(page) /\ \A q \in requests' : RequestOK(q) /\ ~Waiting(q)
  BY <1>1, <1>2 DEF NoNewPut, PushInv, Numbered
<1>4. PICK b \in BOOLEAN :
        /\ page' = Ended(page, b) /\ (b => live' = None)
        /\ \/ live' = live /\ owner' = owner
           \/ live' = None /\ owner' = None
  <2>1. CASE r.answer = "ok" /\ Fresh
    <3>1. /\ page' = Ended(page, live' = None)
          /\ \/ live' = live /\ owner' = owner
             \/ live' = None /\ owner' = None
      BY <2>1 DEF Unsubscribe, Unsubscribed
    <3>2. CASE live' = None
      <4>1. page' = Ended(page, TRUE)
        BY <3>1, <3>2
      <4>. QED
        BY <3>1, <3>2, <4>1
    <3>3. CASE live' # None
      <4>1. page' = Ended(page, FALSE)
        BY <3>1, <3>3
      <4>. QED
        BY <3>1, <3>3, <4>1
    <3>. QED
      BY <3>2, <3>3
  <2>2. CASE ~(r.answer = "ok" /\ Fresh)
    <3>1. page' = Ended(page, FALSE) /\ live' = live /\ owner' = owner
      BY <2>2 DEF Unsubscribe
    <3>. QED
      BY <3>1
  <2>. QED
    BY <2>1, <2>2
<1>5. /\ PageOK(page') /\ page'.user = page.user /\ page'.on = None
      /\ page'.tasks # <<>> => page'.tasks[1].pc = "begin"
      /\ page'.leaving \in {"posting", "posted"} => b
  <2>1. page.tasks[1].kind # "sync"
    BY <1>2
  <2>. QED
    BY <1>2, <1>3, <1>4, <2>1, EndedOK
<1>6. Stages' /\ Waits'
  BY <1>3, <1>5, Begun
<1>7. Silent' /\ OnIsActive'
  BY <1>1, <1>2, <1>4, <1>5 DEF Silent, OnIsActive
<1>. QED
  BY <1>1, <1>3, <1>4, <1>5, <1>6, <1>7, PageStep

LEMMA PostLogoutInv ==
  ASSUME PushInv, PostLogout
  PROVE  PushInv'
<1>. DEFINE r == [kind |-> "logout", session |-> cookie, endpoint |-> live,
                  awaited |-> TRUE, answer |-> None]
<1>1. /\ page.leaving = "posting" /\ page' = [page EXCEPT !.leaving = "posted"]
      /\ requests' = requests \cup {r}
      /\ UNCHANGED <<server, cookie, live, owner, quiet, overtaken, service, counters>>
  BY DEF PostLogout, Send
<1>2. RequestOK(r) /\ r.kind = "logout"
  BY SentOK
<1>. HIDE DEF r
<1>3. /\ PageOK(page) /\ page \in Page /\ page.tasks = <<>> /\ live = None /\ page.user # None
  BY <1>1 DEF PushInv, PageOK, Silent
<1>4. /\ page' \in Page /\ page'.tasks = <<>> /\ page'.user = page.user
      /\ page'.leaving = "posted" /\ page'.on = page.on
  BY <1>1, <1>3 DEF Page
<1>5. PageOK(page')
  BY <1>3, <1>4 DEF PageOK
<1>6. NoNewPut /\ \A q \in requests' : RequestOK(q) /\ ~Waiting(q)
  BY <1>1, <1>2, <1>3, NoneWaits DEF NoNewPut, PushInv, Numbered, Waiting
<1>7. Stages' /\ Waits'
  BY <1>4, <1>6, Begun
<1>8. Silent' /\ OnIsActive'
  BY <1>1, <1>3, <1>4 DEF PushInv, Silent, OnIsActive, server
<1>. QED
  BY <1>1, <1>4, <1>5, <1>6, <1>7, <1>8, PageStep DEF counters

\* Signing out succeeds only for a page that has given its subscription up.
LEMMA LoggedOutInv ==
  ASSUME PushInv, NEW r \in requests, LoggedOut(r)
  PROVE  PushInv'
<1>1. /\ r.kind = "logout" /\ requests' = requests \ {r}
      /\ cookie' \in {cookie, None}
      /\ UNCHANGED <<server, live, owner, overtaken, service, counters>>
  BY DEF LoggedOut
<1>2. PageOK(page) /\ page \in Page
  BY DEF PushInv, PageOK
<1>3. /\ SessionsEnd /\ NoNewPut /\ \A q \in requests' : RequestOK(q)
      /\ \A q \in requests' : q \in requests
  BY <1>1 DEF SessionsEnd, NoNewPut, PushInv, Numbered, server
<1>4. CASE page' = page /\ (quiet' => quiet)
  <2>1. Stages' /\ Waits'
    BY <1>1, <1>3, <1>4, FirstStays DEF server
  <2>2. Silent' /\ OnIsActive'
    BY <1>1, <1>4 DEF PushInv, Silent, OnIsActive, server
  <2>. QED
    BY <1>1, <1>2, <1>3, <1>4, <2>1, <2>2, PageStep DEF counters
<1>5. CASE Awaits(r)
  <2>1. page.tasks = <<>> /\ live = None /\ page.leaving = "posted"
    BY <1>5 DEF PushInv, PageOK, Silent, Awaits
  <2>2. \A q \in requests' : ~Waiting(q)
    BY <1>3, <2>1, NoneWaits
  <2>3. CASE r.answer = "ok"
    <3>1. page' = Cleared(page) /\ cookie' = None
      BY <1>5, <2>3 DEF LoggedOut
    <3>2. PageOK(page') /\ page'.tasks = <<>> /\ page'.user = None /\ page'.leaving = "no" /\ page'.on = None
      BY <1>2, <2>1, <3>1, ClearedOK
    <3>3. Stages' /\ Waits'
      BY <2>2, <3>2, Begun
    <3>4. Silent' /\ OnIsActive'
      BY <1>1, <2>1, <3>1, <3>2 DEF Silent, OnIsActive
    <3>. QED
      BY <1>1, <1>3, <3>1, <3>2, <3>3, <3>4, PageStep DEF counters
  <2>4. CASE r.answer # "ok"
    <3>1. page' = [page EXCEPT !.leaving = "no"] /\ UNCHANGED <<cookie, quiet>>
      BY <1>5, <2>4 DEF LoggedOut
    <3>2. /\ page' \in Page /\ page'.tasks = <<>> /\ page'.user = page.user
          /\ page'.leaving = "no" /\ page'.on = page.on
      BY <1>2, <2>1, <3>1 DEF Page
    <3>3. PageOK(page')
      BY <1>2, <3>2 DEF PageOK
    <3>4. Stages' /\ Waits'
      BY <2>2, <3>2, Begun
    <3>5. Silent' /\ OnIsActive'
      BY <1>1, <2>1, <3>1, <3>2 DEF PushInv, Silent, OnIsActive, server
    <3>. QED
      BY <1>1, <1>3, <3>1, <3>2, <3>3, <3>4, <3>5, PageStep DEF counters
  <2>. QED
    BY <2>3, <2>4
<1>6. CASE ~Awaits(r)
  <2>1. page' = page
    BY <1>6 DEF LoggedOut
  <2>2. quiet' => quiet
    BY <1>6 DEF LoggedOut
  <2>. QED
    BY <1>4, <2>1, <2>2
<1>. QED
  BY <1>5, <1>6

-----------------------------------------------------------------------------
(* The server, and the connection.                                         *)

\* What is answered is what the page waits for, if it waits for anything.
LEMMA ServeInv ==
  ASSUME PushInv, NEW r \in requests, Serve(r)
  PROVE  PushInv'
<1>. DEFINE a == [r EXCEPT !.answer = IF Valid(r.session) THEN "ok" ELSE "unauthorized"]
            u == sessions[r.session]
<1>1. /\ r.answer = None
      /\ requests' = (requests \ {r}) \cup (IF r.awaited THEN {a} ELSE {})
      /\ overtaken' = (overtaken \/ (~r.awaited /\ r.kind = "delete"))
      /\ UNCHANGED <<cookie, live, owner, page, quiet, jobs, worker, logins, endpoints>>
  BY DEF Serve, browser, service, counters
<1>2. /\ Valid(r.session) /\ r.kind = "put" => rows' = rows \cup {<<u, r.endpoint>>}
      /\ Valid(r.session) /\ r.kind = "delete" => rows' = rows \ {<<u, r.endpoint>>}
      /\ ~(Valid(r.session) /\ (r.kind = "put" \/ r.kind = "delete")) => rows' = rows
  BY DEF Serve
<1>3. SessionsEnd
  BY DEF Serve, SessionsEnd
<1>4. RequestOK(r) /\ r \in Request /\ \A q \in requests : RequestOK(q)
  BY DEF PushInv, Numbered, RequestOK
<1>5. /\ a \in Request /\ a.kind = r.kind /\ a.session = r.session /\ a.endpoint = r.endpoint
      /\ a.awaited = r.awaited /\ (a.answer = "ok" => Valid(r.session))
      /\ Waiting(a) <=> Waiting(r)
  BY <1>4 DEF Request, Waiting
<1>. HIDE DEF a
<1>6. RequestOK(a)
  BY <1>4, <1>5 DEF RequestOK
<1>7. \A q \in requests' : q = a \/ (q \in requests /\ q # r)
  BY <1>1
<1>8. NoNewPut
  BY <1>5, <1>7 DEF NoNewPut
<1>9. \A v : Holds(v)' => Holds(v)
  <2>1. \A row \in rows' : \/ row \in rows
                           \/ r.kind = "put" /\ Valid(r.session) /\ row = <<sessions[r.session], r.endpoint>>
    BY <1>2
  <2>. QED
    BY <1>1, <1>3, <1>8, <2>1, FewerHold
<1>10. (r.kind = "delete" /\ Waiting(r)) \/ rows \subseteq rows' \/ overtaken'
  BY <1>1, <1>2 DEF Waiting
<1>11. Numbered'
  <2>1. \A q \in requests' : RequestOK(q)'
    BY <1>1, <1>4, <1>6, <1>7 DEF RequestOK
  <2>2. \A s \in DOMAIN sessions' : s \in 1..logins' /\ sessions'[s] \in Users
    BY <1>1, <1>3 DEF PushInv, Numbered, SessionsEnd
  <2>3. rows' \subseteq Users \X (1..endpoints)
    <3>1. Valid(r.session) => u \in Users
      BY DEF PushInv, Numbered, Valid
    <3>2. r.kind = "put" => r.endpoint \in 1..endpoints
      BY <1>4 DEF RequestOK
    <3>. QED
      BY <1>2, <3>1, <3>2 DEF PushInv, Numbered
  <2>. QED
    BY <1>1, <2>1, <2>2, <2>3 DEF PushInv, Numbered
<1>12. PageOK(page') /\ SignedIn' /\ Silent' /\ Queued'
  BY <1>1, <1>3 DEF PushInv, SignedIn, Silent, Queued, Valid, SessionsEnd
<1>13. Stages'
  BY <1>1, <1>9 DEF PushInv, Stages, First
<1>14. Waits'
  <2>1. \A q, o \in requests' : Waiting(q) /\ Waiting(o) => q = o
    BY <1>5, <1>7 DEF PushInv, Waits
  <2>2. \A q \in requests' : Waiting(q) => First(IF q.kind = "put" THEN "sync" ELSE "disable", q.kind)'
    BY <1>1, <1>5, <1>7 DEF PushInv, Waits, First
  <2>3. ASSUME NEW q \in requests', Waiting(q), q.kind = "put"
        PROVE  /\ q.endpoint = live
               /\ Valid(q.session)' => sessions'[q.session] = page.tasks[1].user
               /\ q.answer = "ok" => <<page.tasks[1].user, live>> \in rows' \/ overtaken'
    <3>1. CASE q = a
      BY <1>1, <1>2, <1>3, <1>5, <2>3, <3>1 DEF PushInv, Waits, Valid, SessionsEnd
    <3>2. CASE q \in requests /\ q # r
      <4>1. rows \subseteq rows' \/ overtaken'
        BY <1>10, <2>3, <3>2 DEF PushInv, Waits
      <4>2. overtaken => overtaken'
        BY <1>1
      <4>3. /\ q.endpoint = live
            /\ Valid(q.session) => sessions[q.session] = page.tasks[1].user
            /\ q.answer = "ok" => <<page.tasks[1].user, live>> \in rows \/ overtaken
        BY <2>3, <3>2 DEF PushInv, Waits
      <4>. QED
        BY <1>3, <4>1, <4>2, <4>3 DEF Valid, SessionsEnd
    <3>. QED
      BY <1>7, <2>3, <3>1, <3>2
  <2>. QED
    BY <1>1, <2>1, <2>2, <2>3 DEF Waits
<1>15. OnlyTheOwner'
  BY <1>1, <1>9 DEF PushInv, OnlyTheOwner, Holds
<1>16. OnIsActive'
  <2>1. page.on # None => rows \subseteq rows' \/ overtaken'
    BY <1>10, WhoWaits
  <2>2. overtaken => overtaken'
    BY <1>1
  <2>. QED
    BY <1>1, <2>1, <2>2 DEF PushInv, OnIsActive
<1>. QED
  BY <1>1, <1>11, <1>12, <1>13, <1>14, <1>15, <1>16 DEF PushInv

\* A request that is lost may still be served, for nobody.
LEMMA LoseInv ==
  ASSUME PushInv, NEW r \in requests, Lose(r)
  PROVE  PushInv'
<1>. DEFINE a == [r EXCEPT !.awaited = FALSE]
<1>1. /\ r.awaited
      /\ requests' = (requests \ {r}) \cup (IF r.answer = None THEN {a} ELSE {})
      /\ UNCHANGED <<server, cookie, quiet, overtaken, service, logins, endpoints>>
  BY DEF Lose
<1>2. RequestOK(r) /\ r \in Request /\ \A q \in requests : RequestOK(q)
  BY DEF PushInv, Numbered, RequestOK
<1>3. /\ a \in Request /\ a.kind = r.kind /\ a.session = r.session /\ a.endpoint = r.endpoint
      /\ a.awaited = FALSE
  BY <1>2 DEF Request
<1>. HIDE DEF a
<1>4. RequestOK(a) /\ ~Waiting(a)
  BY <1>2, <1>3 DEF RequestOK, Waiting
<1>5. \A q \in requests' : q = a \/ (q \in requests /\ q # r)
  BY <1>1
<1>6. NoNewPut /\ SessionsEnd /\ \A q \in requests' : RequestOK(q)
  BY <1>1, <1>2, <1>3, <1>4, <1>5 DEF NoNewPut, SessionsEnd, server
<1>7. CASE r.kind = "put" \/ r.kind = "delete"
  <2>1. Waiting(r)
    BY <1>1, <1>7 DEF Waiting
  <2>2. page.tasks # <<>> /\ page.on = None /\ \A q \in requests \ {r} : ~Waiting(q)
    BY <2>1, WhoWaits
  <2>3. \A q \in requests' : ~Waiting(q)
    BY <1>4, <1>5, <2>2
  <2>4. /\ page' = Ended(page, FALSE)
        /\ \/ live' = live /\ owner' = owner
           \/ live' = None /\ owner' = None
    BY <1>7 DEF Lose
  <2>. QED
    BY <1>1, <1>6, <2>2, <2>3, <2>4, GivesUp
<1>8. CASE r.kind = "logout"
  <2>1. /\ page' = IF Awaits(r) THEN [page EXCEPT !.leaving = "no"] ELSE page
        /\ UNCHANGED <<live, owner>>
    BY <1>8 DEF Lose
  <2>2. PageOK(page) /\ page \in Page
    BY DEF PushInv, PageOK
  <2>3. /\ page'.tasks = page.tasks /\ page'.user = page.user /\ page'.on = page.on
        /\ PageOK(page')
        /\ page'.leaving \in {page.leaving, "no"}
    <3>1. CASE Awaits(r)
      <4>1. /\ page' \in Page /\ page'.tasks = page.tasks /\ page'.user = page.user
            /\ page'.on = page.on /\ page'.leaving = "no" /\ page.tasks = <<>>
        BY <2>1, <2>2, <3>1 DEF Page, Awaits, PageOK
      <4>. QED
        BY <2>2, <4>1 DEF PageOK
    <3>2. CASE ~Awaits(r)
      BY <2>1, <2>2, <3>2
    <3>. QED
      BY <3>1, <3>2
  <2>4. \A q \in requests' : Waiting(q) => q \in requests
    BY <1>4, <1>5
  <2>5. Stages' /\ Waits'
    BY <1>1, <1>6, <2>1, <2>3, <2>4, FirstStays DEF server
  <2>6. Silent' /\ OnIsActive'
    BY <1>1, <2>1, <2>3 DEF PushInv, Silent, OnIsActive, server
  <2>. QED
    BY <1>1, <1>6, <2>1, <2>3, <2>5, <2>6, PageStep
<1>. QED
  BY <1>7, <1>8 DEF Lose

-----------------------------------------------------------------------------
(* Sessions that end, and the push service.                                *)

LEMMA EndSessionInv ==
  ASSUME PushInv, EndSession
  PROVE  PushInv'
<1>1. /\ SessionsEnd
      /\ UNCHANGED <<browser, rows, requests, overtaken, service, counters>>
  BY DEF EndSession, SessionsEnd
<1>2. UNCHANGED <<jobs, worker>> /\ Queued'
  BY <1>1 DEF service, PushInv, Queued
<1>. QED
  BY <1>1, <1>2, ElsewhereKept DEF PushInv, Numbered

\* The steps of the push service that leave the subscriptions alone.
LEMMA ServiceKept ==
  ASSUME PushInv, UNCHANGED <<browser, server, requests, overtaken, counters>>, Queued',
         worker' \in [Workers -> Worker],
         \A w \in Workers : /\ worker'[w].todo \subseteq 1..endpoints
                            /\ worker'[w].gone \in {None} \cup 1..endpoints
                            /\ worker'[w].gone # None => worker'[w].gone # live
  PROVE  PushInv'
<1>1. SessionsEnd /\ rows' = rows
  BY DEF SessionsEnd, server
<1>. QED
  BY <1>1, ElsewhereKept

\* A worker goes on with endpoints that were made and are not the live one.
LEMMA WorkerOK ==
  ASSUME PushInv, NEW w \in Workers, NEW new \in Worker, worker' = [worker EXCEPT ![w] = new],
         new.todo \subseteq 1..endpoints, new.gone \in {None} \cup 1..endpoints,
         new.gone # None => new.gone # live
  PROVE  /\ worker' \in [Workers -> Worker]
         /\ \A v \in Workers : /\ worker'[v].todo \subseteq 1..endpoints
                               /\ worker'[v].gone \in {None} \cup 1..endpoints
                               /\ worker'[v].gone # None => worker'[v].gone # live
<1>1. worker \in [Workers -> Worker]
  BY DEF PushInv, Numbered
<1>2. \A v \in Workers : worker'[v] = IF v = w THEN new ELSE worker[v]
  BY <1>1
<1>3. worker' \in [Workers -> Worker]
  BY <1>1
<1>. QED
  BY <1>2, <1>3 DEF PushInv, Numbered

LEMMA CreateMessageInv ==
  ASSUME PushInv, CreateMessage \/ Close
  PROVE  PushInv'
<1>1. UNCHANGED <<browser, server, requests, overtaken, jobs, worker, counters>>
  BY DEF CreateMessage, Close
<1>2. Queued'
  BY <1>1 DEF PushInv, Queued
<1>. QED
  BY <1>1, <1>2, ServiceKept DEF PushInv, Numbered

LEMMA EnqueueInv ==
  ASSUME PushInv, NEW u \in Users, Enqueue(u)
  PROVE  PushInv'
<1>1. UNCHANGED <<browser, server, requests, overtaken, worker, counters>>
  BY DEF Enqueue
<1>2. Queued'
  <2>1. jobs' = jobs \/ (Len(jobs) < Queue /\ jobs' = Append(jobs, u))
    <3>1. jobs \in Seq(Users) /\ Len(jobs) \in Nat
      BY DEF PushInv, Queued
    <3>. QED
      BY <3>1 DEF Enqueue
  <2>2. jobs \in Seq(Users) /\ Len(jobs) \in Nat /\ Len(jobs) <= Queue
    BY DEF PushInv, Queued
  <2>3. CASE jobs' = jobs
    BY <2>2, <2>3 DEF Queued
  <2>4. CASE Len(jobs) < Queue /\ jobs' = Append(jobs, u)
    <3>1. jobs' \in Seq(Users) /\ Len(jobs') = Len(jobs) + 1
      BY <2>2, <2>4
    <3>. QED
      BY <2>2, <2>4, <3>1 DEF Queued
  <2>. QED
    BY <2>1, <2>3, <2>4
<1>. QED
  BY <1>1, <1>2, ServiceKept DEF PushInv, Numbered

LEMMA TakeJobInv ==
  ASSUME PushInv, NEW w \in Workers, TakeJob(w)
  PROVE  PushInv'
<1>1. PICK read \in {{}, rows} :
        Becomes(w, [Idle EXCEPT !.todo = {row[2] : row \in {s \in read : s[1] = Head(jobs)}}])
  BY DEF TakeJob
<1>. DEFINE todo == {row[2] : row \in {s \in read : s[1] = Head(jobs)}}
            new == [Idle EXCEPT !.todo = todo]
<1>2. todo \subseteq 1..endpoints /\ todo \subseteq 1..MaxEndpoints
  <2>1. \A row \in read : row[2] \in 1..endpoints
    BY DEF PushInv, Numbered
  <2>2. \A e \in 1..endpoints : e \in 1..MaxEndpoints
    BY DEF PushInv, Numbered
  <2>. QED
    BY <2>1, <2>2
<1>3. worker' = [worker EXCEPT ![w] = new]
  BY <1>1 DEF Becomes
<1>. HIDE DEF todo
<1>4. new \in Worker /\ new.todo = todo /\ new.gone = None
  BY <1>2 DEF Idle, Worker
<1>. HIDE DEF new
<1>5. /\ worker' \in [Workers -> Worker]
      /\ \A v \in Workers : /\ worker'[v].todo \subseteq 1..endpoints
                            /\ worker'[v].gone \in {None} \cup 1..endpoints
                            /\ worker'[v].gone # None => worker'[v].gone # live
  BY <1>2, <1>3, <1>4, WorkerOK
<1>6. Queued'
  <2>1. jobs \in Seq(Users) /\ jobs # <<>> /\ jobs' = Tail(jobs) /\ Len(jobs) <= Queue
    BY DEF TakeJob, PushInv, Queued
  <2>2. jobs' \in Seq(Users) /\ Len(jobs') = Len(jobs) - 1 /\ Len(jobs) \in Nat
    BY <2>1
  <2>. QED
    BY <2>1, <2>2 DEF Queued
<1>. QED
  BY <1>1, <1>5, <1>6, ServiceKept DEF TakeJob, Becomes

\* What the provider answers 404 or 410 to is not the live subscription.
LEMMA DeliverInv ==
  ASSUME PushInv, NEW w \in Workers, NEW e \in worker[w].todo, Deliver(w, e)
  PROVE  PushInv'
<1>1. PICK gone \in {None} \cup ({e} \ {live}) :
        Becomes(w, [worker[w] EXCEPT !.todo = @ \ {e}, !.gone = gone])
  BY DEF Deliver
<1>. DEFINE new == [worker[w] EXCEPT !.todo = @ \ {e}, !.gone = gone]
<1>2. worker[w] \in Worker /\ worker[w].todo \subseteq 1..endpoints
  BY DEF PushInv, Numbered
<1>3. worker' = [worker EXCEPT ![w] = new]
  BY <1>1 DEF Becomes
<1>4. e \in 1..endpoints /\ e \in 1..MaxEndpoints
  BY <1>2 DEF Worker
<1>5. new \in Worker /\ new.todo = worker[w].todo \ {e} /\ new.gone = gone
  BY <1>2, <1>4 DEF Worker
<1>. HIDE DEF new
<1>6. /\ worker' \in [Workers -> Worker]
      /\ \A v \in Workers : /\ worker'[v].todo \subseteq 1..endpoints
                            /\ worker'[v].gone \in {None} \cup 1..endpoints
                            /\ worker'[v].gone # None => worker'[v].gone # live
  <2>1. new.todo \subseteq 1..endpoints /\ new.gone \in {None} \cup 1..endpoints
    BY <1>2, <1>4, <1>5
  <2>2. new.gone # None => new.gone # live
    BY <1>1, <1>5
  <2>. QED
    BY <1>3, <1>5, <2>1, <2>2, WorkerOK
<1>7. Queued'
  BY DEF Deliver, PushInv, Queued
<1>. QED
  BY <1>1, <1>6, <1>7, ServiceKept DEF Deliver, Becomes

\* The rows of an endpoint that is gone are not those of the live one.
LEMMA DeletePushSubscriptionInv ==
  ASSUME PushInv, NEW w \in Workers, DeletePushSubscription(w)
  PROVE  PushInv'
<1>1. /\ worker[w].gone # None
      /\ rows' = {row \in rows : row[2] # worker[w].gone}
      /\ Becomes(w, [worker[w] EXCEPT !.gone = None])
      /\ UNCHANGED <<sessions, jobs>>
  BY DEF DeletePushSubscription
<1>. DEFINE new == [worker[w] EXCEPT !.gone = None]
<1>2. /\ worker[w] \in Worker /\ worker[w].todo \subseteq 1..endpoints
      /\ worker[w].gone # live
  BY <1>1 DEF PushInv, Numbered
<1>3. worker' = [worker EXCEPT ![w] = new]
  BY <1>1 DEF Becomes
<1>4. new \in Worker /\ new.todo = worker[w].todo /\ new.gone = None
  BY <1>2 DEF Worker
<1>. HIDE DEF new
<1>5. /\ worker' \in [Workers -> Worker]
      /\ \A v \in Workers : /\ worker'[v].todo \subseteq 1..endpoints
                            /\ worker'[v].gone \in {None} \cup 1..endpoints
                            /\ worker'[v].gone # None => worker'[v].gone # live
  BY <1>2, <1>3, <1>4, WorkerOK
<1>6. rows' \subseteq rows /\ \A row \in rows \ rows' : row[2] # live
  BY <1>1, <1>2
<1>7. SessionsEnd /\ Queued'
  BY <1>1 DEF SessionsEnd, PushInv, Queued
<1>. QED
  BY <1>1, <1>5, <1>6, <1>7, ElsewhereKept DEF Becomes

LEMMA ExitInv ==
  ASSUME PushInv, NEW w \in Workers, Exit(w)
  PROVE  PushInv'
<1>. DEFINE new == [Idle EXCEPT !.exited = TRUE]
<1>1. Becomes(w, new) /\ UNCHANGED <<server, jobs>>
  BY DEF Exit
<1>2. new \in Worker /\ new.todo = {} /\ new.gone = None
  BY DEF Idle, Worker
<1>3. worker' = [worker EXCEPT ![w] = new]
  BY <1>1 DEF Becomes
<1>. HIDE DEF new
<1>4. /\ worker' \in [Workers -> Worker]
      /\ \A v \in Workers : /\ worker'[v].todo \subseteq 1..endpoints
                            /\ worker'[v].gone \in {None} \cup 1..endpoints
                            /\ worker'[v].gone # None => worker'[v].gone # live
  BY <1>2, <1>3, WorkerOK
<1>5. Queued'
  BY <1>1 DEF PushInv, Queued
<1>. QED
  BY <1>1, <1>4, <1>5, ServiceKept DEF Becomes

-----------------------------------------------------------------------------
(* The theorems.                                                           *)

LEMMA NextInv == PushInv /\ [Next]_vars => PushInv'
<1>. SUFFICES ASSUME PushInv, [Next]_vars PROVE PushInv'
  OBVIOUS
<1>1. ASSUME UNCHANGED vars
      PROVE  PushInv'
  <2>1. UNCHANGED <<browser, server, requests, overtaken, service, counters>>
    BY <1>1 DEF vars
  <2>2. UNCHANGED <<jobs, worker>> /\ Queued'
    BY <2>1 DEF service, PushInv, Queued
  <2>. QED
    BY <2>1, <2>2, ServiceKept DEF PushInv, Numbered
<1>2. ASSUME NEW u \in Users, Login(u) \/ Enqueue(u)
      PROVE  PushInv'
  BY <1>2, LoginInv, EnqueueInv
<1>3. CASE Reload \/ Unauthorized \/ EndSession
  BY <1>3, ReloadInv, UnauthorizedInv, EndSessionInv
<1>4. CASE Configure \/ Look \/ Subscribe \/ Register
  BY <1>4, ConfigureInv, LookInv, SubscribeInv, RegisterInv
<1>5. CASE Leave \/ FindSubscription \/ PostLogout
  BY <1>5, LeaveInv, FindSubscriptionInv, PostLogoutInv
<1>6. ASSUME NEW r \in requests,
             Serve(r) \/ Lose(r) \/ Confirm(r) \/ Unsubscribe(r) \/ LoggedOut(r)
      PROVE  PushInv'
  BY <1>6, ServeInv, LoseInv, ConfirmInv, UnsubscribeInv, LoggedOutInv
<1>7. CASE CreateMessage \/ Close
  BY <1>7, CreateMessageInv
<1>8. ASSUME NEW w \in Workers, Work(w)
      PROVE  PushInv'
  BY <1>8, TakeJobInv, DeletePushSubscriptionInv, ExitInv, DeliverInv DEF Work
<1>. QED
  BY <1>1, <1>2, <1>3, <1>4, <1>5, <1>6, <1>7, <1>8 DEF Next

\* Invariant: the numbering of sessions and endpoints, the stages of the first
\* call and what its one request is sure of hold in every reachable state.
THEOREM Invariant == Spec => []PushInv
BY InitInv, NextInv, PTL DEF Spec

LEMMA TypesFollow == PushInv => TypeOK
<1>. SUFFICES ASSUME PushInv PROVE TypeOK
  OBVIOUS
<1>1. /\ logins \in 0..MaxLogins /\ endpoints \in 0..MaxEndpoints
      /\ \A n \in 1..logins : n \in 1..MaxLogins
      /\ \A n \in 1..endpoints : n \in 1..MaxEndpoints
  BY DEF PushInv, Numbered
<1>2. /\ \A s \in DOMAIN sessions : s \in 1..MaxLogins /\ sessions[s] \in Users
      /\ cookie \in {None} \cup 1..MaxLogins
      /\ live \in {None} \cup 1..MaxEndpoints
      /\ owner \in {None} \cup [user : Users, endpoint : 1..MaxEndpoints]
  BY <1>1 DEF PushInv, Numbered
<1>3. rows \subseteq Users \X (1..MaxEndpoints)
  BY <1>1 DEF PushInv, Numbered
<1>4. page.leaving \in {"disabling", "posting", "posted"} => page.user # None
  BY DEF PushInv, PageOK
<1>5. page.leaving = "disabling" <=>
          \E i \in DOMAIN page.tasks : page.tasks[i].kind = "disable" /\ page.tasks[i].fresh
  BY DEF PushInv, PageOK
<1>6. \A r \in requests : r.awaited /\ r.kind = "put" => First("sync", "put")
  BY DEF PushInv, Waits, Waiting
<1>7. Len(jobs) <= Queue
  BY DEF PushInv, Queued
<1>. QED
  BY <1>2, <1>3, <1>4, <1>5, <1>6, <1>7 DEF TypeOK

\* TypeCorrect: TypeOK holds; a logout is disabling exactly while its call of
\* disablePush is pending.
THEOREM TypeCorrect == Spec => []TypeOK
BY Invariant, TypesFollow, PTL

\* OwnerKnown: OnlyTheOwner holds, for any requests in flight and any session
\* that ends or is taken over while they are.
THEOREM OwnerKnown == Spec => []OnlyTheOwner
<1>1. PushInv => OnlyTheOwner
  BY DEF PushInv
<1>. QED
  BY <1>1, Invariant, PTL

\* NothingLeft: SilentAfterSignOut holds, whatever calls of syncPush were under
\* way and whatever requests were lost.
THEOREM NothingLeft == Spec => []SilentAfterSignOut
<1>1. PushInv => SilentAfterSignOut
  BY DEF PushInv, Silent, SilentAfterSignOut
<1>. QED
  BY <1>1, Invariant, PTL

\* OnIsTrue: OnIsActive holds, whatever the workers find gone meanwhile.
THEOREM OnIsTrue == Spec => []OnIsActive
<1>1. PushInv => OnIsActive
  BY DEF PushInv
<1>. QED
  BY <1>1, Invariant, PTL
=============================================================================
