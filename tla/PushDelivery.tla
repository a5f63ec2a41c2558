----------------------------- MODULE PushDelivery -----------------------------
(***************************************************************************)
(* Notifications of new messages: the one push subscription of a browser   *)
(* that several accounts use one after the other, the rows that say whose  *)
(* subscriptions they are, and the queue and workers that send.  Calls of  *)
(* syncPush and disablePush wait for each other in the page; sessions end  *)
(* and requests get lost at any time.                                      *)
(***************************************************************************)
EXTENDS Integers, Sequences

CONSTANTS
    Users,        \* accounts that use the browser
    Workers,      \* workers of the push service
    Queue,        \* capacity of its channel of jobs
    None,         \* no session, account, subscription or owner
    MaxLogins,    \* bound on logins
    MaxEndpoints, \* bound on subscriptions made
    MaxTroubles,  \* bound on lost requests, refusals of the browser and reloads
    MaxMessages   \* bound on messages

ASSUME PushDeliveryAssumption ==
    /\ Queue \in Nat \ {0}
    /\ MaxLogins \in Nat /\ MaxEndpoints \in Nat
    /\ MaxTroubles \in Nat /\ MaxMessages \in Nat
    /\ None \notin Users \cup Nat \cup {"ok", "unauthorized"}

VARIABLES
    sessions,   \* the account of every session of the server that is valid
    rows,       \* push_subscriptions that are not revoked: <<account, endpoint>>
    cookie,     \* the session the browser sends
    live,       \* the endpoint of the browser's subscription
    owner,      \* whose it is, in localStorage
    page,       \* the page: its user, pending push calls, logout, what it reports
    requests,   \* requests about push and logout, on their way or answered
    quiet,      \* the last user has signed out, no other has signed in
    overtaken,  \* a request of a page that is gone revoked a subscription
    fanout,     \* accounts still to be notified of a message
    jobs,       \* the channel of the push service
    worker,     \* the endpoints each worker has yet to try, and the one it found gone
    stopping,   \* the push service is being closed
    logins, endpoints, troubles, messages   \* counters of the bounds

browser == <<cookie, live, owner, page, quiet>>
server == <<sessions, rows>>
service == <<fanout, jobs, worker, stopping, messages>>
counters == <<logins, endpoints, troubles>>
vars == <<browser, server, requests, overtaken, service, counters>>

-----------------------------------------------------------------------------
NoPage == [user |-> None, tasks |-> <<>>, leaving |-> "no", on |-> None]
Idle == [todo |-> {}, gone |-> None, exited |-> FALSE]

Init ==
    /\ sessions = <<>> /\ rows = {}
    /\ cookie = None /\ live = None /\ owner = None /\ page = NoPage
    /\ requests = {} /\ quiet = TRUE /\ overtaken = FALSE
    /\ fanout = {} /\ jobs = <<>> /\ stopping = FALSE
    /\ worker = [w \in Workers |-> Idle]
    /\ logins = 0 /\ endpoints = 0 /\ troubles = 0 /\ messages = 0

Trouble == troubles < MaxTroubles /\ troubles' = troubles + 1

Valid(s) == s # None /\ s \in DOMAIN sessions

-----------------------------------------------------------------------------
(* The page.  A task is a call of syncPush or disablePush; fresh says that  *)
(* the session generation is still the one it was called in.               *)

Sync(u) == [kind |-> "sync", user |-> u, fresh |-> TRUE, pc |-> "begin"]
Disable(u) == [kind |-> "disable", user |-> u, fresh |-> TRUE, pc |-> "begin"]

\* advanceSession and clear: nobody is signed in on the page.
Cleared(p) ==
    [p EXCEPT !.user = None, !.leaving = "no", !.on = None,
              !.tasks = [i \in DOMAIN p.tasks |-> [p.tasks[i] EXCEPT !.fresh = FALSE]]]

\* Mutant: a logout whose disablePush failed goes on for ever.
EndedLeaving(p, succeeded) ==
    LET t == p.tasks[1] IN
    [p EXCEPT !.tasks = Tail(p.tasks),
              !.leaving = IF t.kind = "disable" /\ succeeded THEN "posting" ELSE @,
              !.on = IF t.kind = "sync" /\ succeeded THEN live ELSE @]

\* The page after the first task has ended; logout stops when disablePush fails.
Ended(p, succeeded) ==
    LET t == p.tasks[1] IN
    [p EXCEPT !.tasks = Tail(p.tasks),
              !.leaving = IF t.kind = "disable" /\ t.fresh
                          THEN IF succeeded THEN "posting" ELSE "no"
                          ELSE @,
              !.on = IF t.kind = "sync" /\ succeeded THEN live ELSE @]

At(p, pc) == [p EXCEPT !.tasks[1].pc = pc]

First(kind, pc) == page.tasks # <<>> /\ page.tasks[1].kind = kind /\ page.tasks[1].pc = pc
Fresh == page.tasks[1].fresh

Send(kind) ==
    requests' = requests \cup
        {[kind |-> kind, session |-> cookie, endpoint |-> live, awaited |-> TRUE, answer |-> None]}

\* The subscription is given up, with the owner; the browser may refuse.
Unsubscribed ==
    \/ live' = None /\ owner' = None /\ UNCHANGED troubles
    \/ Trouble /\ UNCHANGED <<live, owner>>

Login(u) ==
    LET s == logins + 1 IN
    /\ page.user = None /\ logins < MaxLogins
    /\ logins' = s /\ cookie' = s
    /\ sessions' = [t \in DOMAIN sessions \cup {s} |-> IF t = s THEN u ELSE sessions[t]]
    /\ page' = [page EXCEPT !.user = u, !.tasks = Append(@, Sync(u))]
    /\ quiet' = FALSE
    /\ UNCHANGED <<live, owner, rows, requests, overtaken, service, endpoints, troubles>>

\* The page is loaded again, and asks who is signed in.
Reload ==
    LET u == IF Valid(cookie) THEN sessions[cookie] ELSE None IN
    /\ Trouble
    /\ page' = IF u = None THEN NoPage ELSE [NoPage EXCEPT !.user = u, !.tasks = <<Sync(u)>>]
    /\ requests' = {[r EXCEPT !.awaited = FALSE] : r \in {q \in requests : q.answer = None}}
    /\ UNCHANGED <<server, cookie, live, owner, quiet, overtaken, service, logins, endpoints>>

\* Any other request of the page finds that the session has ended.
Unauthorized ==
    /\ page.user # None /\ ~Valid(cookie)
    /\ page' = Cleared(page)
    /\ UNCHANGED <<server, cookie, live, owner, quiet, requests, overtaken, service, counters>>

-----------------------------------------------------------------------------
(* syncPush.                                                               *)

\* The configuration is asked for, and answered.
Configure ==
    /\ First("sync", "begin")
    /\ \/ /\ Fresh /\ Valid(cookie)
          /\ page' = At([page EXCEPT !.on = None], "look")
          /\ UNCHANGED troubles
       \/ /\ Fresh /\ Valid(cookie) /\ Trouble
          /\ page' = Ended(page, FALSE)
       \/ /\ ~Fresh
          /\ page' = Ended(page, FALSE)
          /\ UNCHANGED troubles
       \/ /\ Fresh /\ ~Valid(cookie)
          /\ page' = Ended(Cleared(page), FALSE)
          /\ UNCHANGED troubles
    /\ UNCHANGED <<server, cookie, live, owner, quiet, requests, overtaken, service, logins, endpoints>>

\* Mutant: a subscription is taken over whoever made it.
ForeignNever(user) == FALSE

\* A subscription that is not known to be the account's own.
Foreign(user) == live # None /\ owner # [user |-> user, endpoint |-> live]

Look ==
    /\ First("sync", "look")
    /\ IF Fresh /\ Foreign(page.tasks[1].user)
       THEN /\ Unsubscribed
            /\ page' = IF live' = None THEN At(page, "subscribe") ELSE Ended(page, FALSE)
       ELSE /\ page' = IF ~Fresh THEN Ended(page, FALSE)
                       ELSE At(page, IF live = None THEN "subscribe" ELSE "register")
            /\ UNCHANGED <<live, owner, troubles>>
    /\ UNCHANGED <<server, cookie, quiet, requests, overtaken, service, logins, endpoints>>

Subscribe ==
    /\ First("sync", "subscribe")
    /\ \/ /\ endpoints < MaxEndpoints
          /\ endpoints' = endpoints + 1 /\ live' = endpoints'
          /\ page' = At(page, "register")
          /\ UNCHANGED troubles
       \/ /\ Trouble
          /\ page' = Ended(page, FALSE)
          /\ UNCHANGED <<live, endpoints>>
    /\ UNCHANGED <<server, cookie, owner, quiet, requests, overtaken, service, logins>>

Register ==
    /\ First("sync", "register")
    /\ IF Fresh
       THEN /\ owner' = [user |-> page.tasks[1].user, endpoint |-> live]
            /\ Send("put")
            /\ page' = At(page, "put")
            /\ UNCHANGED <<live, troubles>>
       ELSE /\ Unsubscribed
            /\ page' = Ended(page, FALSE)
            /\ UNCHANGED requests
    /\ UNCHANGED <<server, cookie, quiet, overtaken, service, logins, endpoints>>

\* Mutant: a session that changed meanwhile is not noticed.
RegisteredAnyway(r) == r.answer = "ok"

Registered(r) == r.answer = "ok" /\ Fresh

\* The answer to the PUT; a 401 clears the page it was sent for.
Confirm(r) ==
    LET p == IF r.answer = "unauthorized" /\ Fresh THEN Cleared(page) ELSE page IN
    /\ r.kind = "put" /\ r.awaited /\ r.answer # None
    /\ requests' = requests \ {r}
    /\ IF Registered(r)
       THEN page' = Ended(page, TRUE) /\ UNCHANGED <<live, owner, troubles>>
       ELSE page' = Ended(p, FALSE) /\ Unsubscribed
    /\ UNCHANGED <<server, cookie, quiet, overtaken, service, logins, endpoints>>

-----------------------------------------------------------------------------
(* logout and disablePush.                                                 *)

\* Mutant: disablePush does not wait for the calls before it.
LeaveAtOnce ==
    /\ page.user # None /\ page.leaving = "no"
    /\ page' = [page EXCEPT !.leaving = "disabling", !.tasks = <<Disable(page.user)>> \o @]
    /\ UNCHANGED <<server, cookie, live, owner, quiet, requests, overtaken, service, counters>>

Leave ==
    /\ page.user # None /\ page.leaving = "no"
    /\ page' = [page EXCEPT !.leaving = "disabling", !.tasks = Append(@, Disable(page.user))]
    /\ UNCHANGED <<server, cookie, live, owner, quiet, requests, overtaken, service, counters>>

FindSubscription ==
    /\ First("disable", "begin")
    /\ IF ~Fresh
       THEN page' = Ended(page, FALSE) /\ UNCHANGED <<owner, requests>>
       ELSE IF live = None
       THEN page' = Ended(page, TRUE) /\ owner' = None /\ UNCHANGED requests
       ELSE page' = At([page EXCEPT !.on = None], "delete") /\ Send("delete") /\ UNCHANGED owner
    /\ UNCHANGED <<server, cookie, live, quiet, overtaken, service, counters>>

Unsubscribe(r) ==
    /\ r.kind = "delete" /\ r.awaited /\ r.answer # None
    /\ requests' = requests \ {r}
    /\ IF r.answer = "ok" /\ Fresh
       THEN Unsubscribed /\ page' = Ended(page, live' = None)
       ELSE page' = Ended(page, FALSE) /\ UNCHANGED <<live, owner, troubles>>
    /\ UNCHANGED <<server, cookie, quiet, overtaken, service, logins, endpoints>>

PostLogout ==
    /\ page.leaving = "posting"
    /\ page' = [page EXCEPT !.leaving = "posted"]
    /\ Send("logout")
    /\ UNCHANGED <<server, cookie, live, owner, quiet, overtaken, service, counters>>

\* The page still waits for this logout: it was not cleared meanwhile.
Awaits(r) == page.leaving = "posted" /\ r.session = cookie

\* The answer empties the cookie, whatever session it holds by now.
LoggedOut(r) ==
    /\ r.kind = "logout" /\ r.awaited /\ r.answer # None
    /\ requests' = requests \ {r}
    /\ IF r.answer = "ok"
       THEN /\ cookie' = None
            /\ quiet' = (quiet \/ Awaits(r))
            /\ page' = IF Awaits(r) THEN Cleared(page) ELSE page
       ELSE /\ page' = IF Awaits(r) THEN [page EXCEPT !.leaving = "no"] ELSE page
            /\ UNCHANGED <<cookie, quiet>>
    /\ UNCHANGED <<server, live, owner, overtaken, service, counters>>

-----------------------------------------------------------------------------
(* The server and what becomes of requests.                                *)

Serve(r) ==
    LET u == sessions[r.session] IN
    /\ r.answer = None
    /\ requests' = (requests \ {r}) \cup
           (IF r.awaited
            THEN {[r EXCEPT !.answer = IF Valid(r.session) THEN "ok" ELSE "unauthorized"]}
            ELSE {})
    /\ rows' = CASE Valid(r.session) /\ r.kind = "put" -> rows \cup {<<u, r.endpoint>>}
                 [] Valid(r.session) /\ r.kind = "delete" -> rows \ {<<u, r.endpoint>>}
                 [] OTHER -> rows
    /\ sessions' = IF r.kind = "logout"
                   THEN [s \in DOMAIN sessions \ {r.session} |-> sessions[s]] ELSE sessions
    /\ overtaken' = (overtaken \/ (~r.awaited /\ r.kind = "delete"))
    /\ UNCHANGED <<browser, service, counters>>

\* The connection is lost before the answer; the server may have the request.
Lose(r) ==
    /\ r.awaited /\ Trouble
    /\ requests' = (requests \ {r}) \cup
           (IF r.answer = None THEN {[r EXCEPT !.awaited = FALSE]} ELSE {})
    /\ \/ /\ r.kind = "put"
          /\ live' = None /\ owner' = None
          /\ page' = Ended(page, FALSE)
       \/ /\ r.kind = "delete"
          /\ page' = Ended(page, FALSE)
          /\ UNCHANGED <<live, owner>>
       \/ /\ r.kind = "logout"
          /\ page' = IF Awaits(r) THEN [page EXCEPT !.leaving = "no"] ELSE page
          /\ UNCHANGED <<live, owner>>
    /\ UNCHANGED <<server, cookie, quiet, overtaken, service, logins, endpoints>>

\* A session expires, is reset away or purged.
EndSession ==
    \E gone \in DOMAIN sessions :
        /\ sessions' = [s \in DOMAIN sessions \ {gone} |-> sessions[s]]
        /\ UNCHANGED <<browser, rows, requests, overtaken, service, counters>>

-----------------------------------------------------------------------------
(* The push service.                                                       *)

\* createMessage, of an author elsewhere: ActiveUserIDs, then EnqueueUsers.
CreateMessage ==
    /\ fanout = {} /\ messages < MaxMessages
    /\ messages' = messages + 1
    /\ fanout' = Users
    /\ UNCHANGED <<browser, server, requests, overtaken, jobs, worker, stopping, counters>>

\* Mutant: the message waits for room in the channel.
EnqueueWaiting(u) ==
    /\ u \in fanout /\ Len(jobs) < Queue
    /\ jobs' = Append(jobs, u) /\ fanout' = fanout \ {u}
    /\ UNCHANGED <<browser, server, requests, overtaken, worker, stopping, messages, counters>>

\* One recipient; a closed service or a full channel ends the loop.
Enqueue(u) ==
    /\ u \in fanout
    /\ IF stopping \/ Len(jobs) >= Queue
       THEN fanout' = {} /\ UNCHANGED jobs
       ELSE jobs' = Append(jobs, u) /\ fanout' = fanout \ {u}
    /\ UNCHANGED <<browser, server, requests, overtaken, worker, stopping, messages, counters>>

Becomes(w, state) ==
    /\ worker' = [worker EXCEPT ![w] = state]
    /\ UNCHANGED <<browser, requests, overtaken, fanout, stopping, messages, counters>>

\* A job is taken and its account's subscriptions are read, or cannot be.
TakeJob(w) ==
    /\ worker[w] = Idle /\ jobs # <<>>
    /\ jobs' = Tail(jobs)
    /\ \E read \in {{}, rows} :
           Becomes(w, [Idle EXCEPT !.todo = {row[2] : row \in {s \in read : s[1] = Head(jobs)}}])
    /\ UNCHANGED server

\* The provider takes what is for the live subscription and answers 404 or 410
\* otherwise, if it answers at all.
Deliver(w, e) ==
    /\ worker[w].gone = None /\ e \in worker[w].todo
    /\ \E gone \in {None} \cup ({e} \ {live}) :
           Becomes(w, [worker[w] EXCEPT !.todo = @ \ {e}, !.gone = gone])
    /\ UNCHANGED <<server, jobs>>

DeletePushSubscription(w) ==
    /\ worker[w].gone # None
    /\ rows' = {row \in rows : row[2] # worker[w].gone}
    /\ Becomes(w, [worker[w] EXCEPT !.gone = None])
    /\ UNCHANGED <<sessions, jobs>>

Close ==
    /\ ~stopping /\ stopping' = TRUE
    /\ UNCHANGED <<browser, server, requests, overtaken, fanout, jobs, worker, messages, counters>>

\* Mutant: stop is looked at between jobs only, not while waiting for one.
ExitBetweenJobs(w) ==
    /\ worker[w] = Idle /\ stopping /\ jobs # <<>>
    /\ Becomes(w, [Idle EXCEPT !.exited = TRUE])
    /\ UNCHANGED <<server, jobs>>

Exit(w) ==
    /\ worker[w] = Idle /\ stopping
    /\ Becomes(w, [Idle EXCEPT !.exited = TRUE])
    /\ UNCHANGED <<server, jobs>>

-----------------------------------------------------------------------------
Work(w) ==
    \/ TakeJob(w) \/ DeletePushSubscription(w) \/ Exit(w)
    \/ \E e \in worker[w].todo : Deliver(w, e)

Next ==
    \/ \E u \in Users : Login(u) \/ Enqueue(u)
    \/ Reload \/ Unauthorized \/ EndSession
    \/ Configure \/ Look \/ Subscribe \/ Register
    \/ Leave \/ FindSubscription \/ PostLogout
    \/ \E r \in requests : Serve(r) \/ Lose(r) \/ Confirm(r) \/ Unsubscribe(r) \/ LoggedOut(r)
    \/ CreateMessage \/ Close
    \/ \E w \in Workers : Work(w)

Spec == Init /\ [][Next]_vars

\* Goroutines run, and requests to the provider end after ten seconds.
FairSpec ==
    /\ Spec
    /\ WF_vars(\E u \in Users : Enqueue(u))
    /\ \A w \in Workers : WF_vars(Work(w))

-----------------------------------------------------------------------------
(* Properties.                                                             *)

TypeOK ==
    /\ \A s \in DOMAIN sessions : s \in 1..MaxLogins /\ sessions[s] \in Users
    /\ rows \subseteq Users \X (1..MaxEndpoints)
    /\ cookie \in {None} \cup 1..MaxLogins
    /\ live \in {None} \cup 1..MaxEndpoints
    /\ owner \in {None} \cup [user : Users, endpoint : 1..MaxEndpoints]
    /\ page.leaving \in {"disabling", "posting", "posted"} => page.user # None
    /\ page.leaving = "disabling" <=>
           \E i \in DOMAIN page.tasks : page.tasks[i].kind = "disable" /\ page.tasks[i].fresh
    /\ \A r \in requests : r.awaited /\ r.kind = "put" => First("sync", "put")
    /\ Len(jobs) <= Queue

\* OnlyTheOwner: notifications of an account reach the browser's subscription
\* only while the browser records it as that account's, so the next account
\* finds it foreign and gives it up (docs/home-server.md:55).
OnlyTheOwner ==
    live # None => \A u \in Users :
        (<<u, live>> \in rows \/ \E r \in requests : /\ r.kind = "put" /\ r.endpoint = live
                                                      /\ Valid(r.session) /\ sessions[r.session] = u)
            => owner = [user |-> u, endpoint |-> live]

\* SilentAfterSignOut: whoever signs out leaves no subscription in the browser,
\* whatever calls of syncPush were still under way.
SilentAfterSignOut == quiet => live = None

\* OnIsActive: what the page reports as on is the browser's subscription, and
\* the server has it for this account, unless a request sent by a page that is
\* gone came late; no answer of the provider removes it.
OnIsActive ==
    page.on # None =>
        /\ page.on = live
        /\ <<page.user, live>> \in rows \/ overtaken

\* MessagesAnswered: nobody who sends a message waits for the push service.
MessagesAnswered == fanout # {} ~> fanout = {}

\* WorkersExit: Close comes back, whatever is queued.
WorkersExit == stopping ~> \A w \in Workers : worker[w].exited

=============================================================================
