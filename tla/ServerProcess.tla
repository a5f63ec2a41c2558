---------------------------- MODULE ServerProcess ----------------------------
(***************************************************************************)
(* The process around the handlers: requests pass the login limiter or the *)
(* upload slots, two background workers use the database and the store,    *)
(* and run() takes everything down when a signal comes.                    *)
(* Time is kept as ages in ticks: of login windows, of the clock readings  *)
(* of requests and of the last attempts admitted.                          *)
(***************************************************************************)
EXTENDS Integers, FiniteSets

CONSTANTS
    Clients,      \* one request of each at a time
    Addresses,    \* addresses of clients
    Limit,        \* login attempts in one window: 10
    MaxWindows,   \* addresses in the limiter: 4096
    Minute,       \* ticks of a window
    Delay,        \* ticks a request may wait between clock and lock
    Slots         \* MaxConcurrentUploads

ASSUME ServerProcessAssumption ==
    /\ Limit \in Nat \ {0} /\ MaxWindows \in Nat \ {0} /\ Slots \in Nat \ {0}
    /\ Minute \in Nat /\ Delay \in Nat /\ Delay < Minute

VARIABLES
    request,   \* of each client: where it is, its kind, address and clock reading
    windows,   \* the limiter: the age and attempts of the window of an address
    lately,    \* of each address: the ages of the last attempts admitted, newest first
    tokens,    \* elements of the channel of upload slots
    connected, \* clients whose requests hold a connection of the database pool
    phase,     \* of run(): which resources it has given up
    forced,    \* Shutdown did not wait until all requests had ended
    cleaner,   \* the goroutine of cleanupLoop
    sender     \* a worker of the push service

requests == <<request, tokens, connected>>
limiter == <<windows, lately>>
main == <<phase, forced>>
workers == <<cleaner, sender>>
vars == <<requests, limiter, main, workers>>

Span == Minute - Delay
Last == 1..2 * Limit + 1

\* run() after the signal, one deferred call after the other.
Phases == <<"serving", "shutting", "stopping_worker", "closing_push", "closing_store", "closing_pool", "exited">>
Rank(p) == CHOOSE i \in DOMAIN Phases : Phases[i] = p
Open(p) == Rank(phase) < Rank(p)

None == [at |-> "none"]

Init ==
    /\ request = [c \in Clients |-> None]
    /\ windows = [a \in {} |-> None]
    /\ lately = [a \in Addresses |-> [n \in Last |-> Span]]
    /\ tokens = 0 /\ connected = {}
    /\ phase = "serving" /\ forced = FALSE
    /\ cleaner = "working" /\ sender = "waiting"

-----------------------------------------------------------------------------
(* The login limiter.                                                      *)

Age(a, late) == IF a \in DOMAIN windows THEN windows[a].age - late ELSE Minute

\* now.Sub(window.started) >= time.Minute, late ticks after the clock was read.
Expired(a, late) == Age(a, late) >= Minute

Full(a) == a \notin DOMAIN windows /\ Cardinality(DOMAIN windows) >= MaxWindows

\* Mutant: a full table is emptied for a new address.
KeptNone(a, late) == IF Full(a) THEN {} ELSE DOMAIN windows

\* What a new address leaves in a full table.
Kept(a, late) ==
    IF Full(a) THEN {b \in DOMAIN windows : ~Expired(b, late)} ELSE DOMAIN windows

\* A minute later the window begins anew, when the clock was read.
Renewed(a, late) ==
    IF Expired(a, late) THEN [age |-> late, attempts |-> 0] ELSE windows[a]

\* One more attempt, just now; the oldest is forgotten.
Recorded(ages) == [n \in Last |-> IF n = 1 THEN 0 ELSE ages[n - 1]]

\* allow, under its lock; late says how long ago time.Now() was read.
Allow(c) ==
    LET a == request[c].address
        late == request[c].late
        kept == Kept(a, late)
        room == a \in DOMAIN windows \/ Cardinality(kept) < MaxWindows
        w == Renewed(a, late)
        admitted == room /\ w.attempts < Limit
    IN /\ request[c].at = "arrived" /\ request[c].kind = "login"
       /\ windows' = [b \in kept \cup (IF admitted THEN {a} ELSE {}) |->
                         IF b = a /\ admitted THEN [w EXCEPT !.attempts = @ + 1] ELSE windows[b]]
       /\ lately' = IF admitted THEN [lately EXCEPT ![a] = Recorded(@)] ELSE lately
       /\ request' = [request EXCEPT ![c] = IF admitted THEN [@ EXCEPT !.at = "handler"] ELSE None]
       /\ UNCHANGED <<tokens, connected, main, workers>>

\* A tick; no request waits for the lock longer than Delay.
Tick ==
    /\ \A c \in Clients :
           request[c].at = "arrived" /\ request[c].kind = "login" => request[c].late < Delay
    /\ request' = [c \in Clients |->
           IF request[c].at = "arrived" /\ request[c].kind = "login"
           THEN [request[c] EXCEPT !.late = @ + 1] ELSE request[c]]
    /\ windows' = [a \in DOMAIN windows |->
           [windows[a] EXCEPT !.age = IF @ < Minute + Delay THEN @ + 1 ELSE @]]
    /\ lately' = [a \in Addresses |->
           [n \in Last |-> IF lately[a][n] < Span THEN lately[a][n] + 1 ELSE Span]]
    /\ UNCHANGED <<tokens, connected, main, workers>>

-----------------------------------------------------------------------------
(* Requests.                                                               *)

\* A connection is accepted; for a login the clock is read.
Arrive(c, kind, a) ==
    /\ request[c] = None /\ phase = "serving"
    /\ kind = "login" <=> a \in Addresses
    /\ request' = [request EXCEPT
           ![c] = [at |-> "arrived", kind |-> kind, address |-> a, late |-> 0]]
    /\ UNCHANGED <<tokens, connected, limiter, main, workers>>

\* Handlers use the database, and authenticated before there is a handler.
Queries(c) ==
    request[c].at = "handler" \/ (request[c].at = "arrived" /\ request[c].kind # "login")

\* A statement or transaction begins; a pool that closes gives no connection.
Acquire(c) ==
    /\ Queries(c)
    /\ c \notin connected /\ Open("closing_pool")
    /\ connected' = connected \cup {c}
    /\ UNCHANGED <<request, tokens, limiter, main, workers>>

\* The statement or transaction ends, at its deadline if not before.
Release(c) ==
    /\ c \in connected
    /\ connected' = connected \ {c}
    /\ UNCHANGED <<request, tokens, limiter, main, workers>>

\* authenticated refuses what is not a login.
Unauthorized(c) ==
    /\ request[c].at = "arrived" /\ request[c].kind # "login" /\ c \notin connected
    /\ request' = [request EXCEPT ![c] = None]
    /\ UNCHANGED <<tokens, connected, limiter, main, workers>>

\* authenticated and then, for uploads, a slot; "upload_busy" without one.
Enter(c) ==
    /\ request[c].at = "arrived" /\ request[c].kind \in {"upload", "socket"} /\ c \notin connected
    /\ IF request[c].kind = "upload"
       THEN IF tokens < Slots
            THEN tokens' = tokens + 1 /\ request' = [request EXCEPT ![c].at = "handler"]
            ELSE request' = [request EXCEPT ![c] = None] /\ UNCHANGED tokens
       ELSE request' = [request EXCEPT ![c].at = "handler"] /\ UNCHANGED tokens
    /\ UNCHANGED <<connected, limiter, main, workers>>

\* The handler returns, at the latest when the deadline of its request passes.
Return(c) ==
    /\ request[c].at = "handler"
    /\ tokens' = IF request[c].kind = "upload" THEN tokens - 1 ELSE tokens
    /\ request' = [request EXCEPT ![c] = None]
    /\ connected' = connected \ {c}
    /\ UNCHANGED <<limiter, main, workers>>

\* Mutant: a slot is given back after the handler, not by defer.
PanicWithSlot(c) ==
    /\ request[c].at = "handler"
    /\ request' = [request EXCEPT ![c] = None]
    /\ connected' = connected \ {c}
    /\ UNCHANGED <<tokens, limiter, main, workers>>

\* The handler panics; the deferred calls run and the middleware recovers.
Panic(c) == Return(c)

-----------------------------------------------------------------------------
(* The background workers.                                                 *)

\* cleanupLoop: objects and sessions, then the next minute; after the end of its
\* context perhaps a round more, cancelled as it begins.
Clean ==
    /\ \/ cleaner = "working" /\ cleaner' = "waiting"
       \/ cleaner = "waiting" /\ cleaner' = "working"
    /\ UNCHANGED <<requests, limiter, main, sender>>

\* Mutant: between two rounds only the ticker is waited for.
CleanOn ==
    /\ cleaner = "waiting" /\ ~Open("stopping_worker")
    /\ cleaner' = "working"
    /\ UNCHANGED <<requests, limiter, main, sender>>

StopCleaning ==
    /\ cleaner = "waiting" /\ ~Open("stopping_worker")
    /\ cleaner' = "done"
    /\ UNCHANGED <<requests, limiter, main, sender>>

\* A push worker sends, or waits for a job.
SendOrWait ==
    /\ sender # "done"
    /\ sender' = IF sender = "working" THEN "waiting" ELSE "working"
    /\ UNCHANGED <<requests, limiter, main, cleaner>>

StopSending ==
    /\ sender = "waiting" /\ ~Open("closing_push")
    /\ sender' = "done"
    /\ UNCHANGED <<requests, limiter, main, cleaner>>

-----------------------------------------------------------------------------
(* run().                                                                  *)

Proceed(p) == phase' = p /\ UNCHANGED <<requests, limiter, workers>>

Signal == phase = "serving" /\ Proceed("shutting") /\ UNCHANGED forced

\* ListenAndServe returns an error.
ListenFails == phase = "serving" /\ Proceed("stopping_worker") /\ forced' = TRUE

\* Its connection is no longer the server's.
Hijacked(c) == request[c].at = "handler" /\ request[c].kind = "socket"

\* Shutdown: no new requests; those under way end, hijacked sockets apart.
Drained ==
    /\ phase = "shutting"
    /\ \A c \in Clients : request[c] # None => Hijacked(c)
    /\ Proceed("stopping_worker") /\ UNCHANGED forced

ShutdownTimesOut == phase = "shutting" /\ Proceed("stopping_worker") /\ forced' = TRUE

\* Mutant: the context is cancelled, but nobody waits for the loop to end.
StopWorkerOnly == phase = "stopping_worker" /\ Proceed("closing_push") /\ UNCHANGED forced

StopWorker ==
    /\ phase = "stopping_worker" /\ cleaner = "done"
    /\ Proceed("closing_push") /\ UNCHANGED forced

ClosePush ==
    /\ phase = "closing_push" /\ sender = "done"
    /\ Proceed("closing_store") /\ UNCHANGED forced

CloseStore == phase = "closing_store" /\ Proceed("closing_pool") /\ UNCHANGED forced

\* Close waits for the connections that sockets, and requests that Shutdown has
\* given up, still hold.
ClosePool ==
    /\ phase = "closing_pool" /\ connected = {}
    /\ Proceed("exited") /\ UNCHANGED forced

-----------------------------------------------------------------------------
Main ==
    \/ Drained \/ ShutdownTimesOut
    \/ StopWorker \/ ClosePush \/ CloseStore \/ ClosePool

\* The process has its steps until it exits.
Running == phase # "exited"

Next ==
    /\ Running
    /\ \/ \E c \in Clients, a \in Addresses \cup {None}, kind \in {"login", "upload", "socket"} :
              Arrive(c, kind, a)
       \/ \E c \in Clients : Allow(c) \/ Unauthorized(c) \/ Enter(c) \/ Return(c) \/ Panic(c)
                                \/ Acquire(c) \/ Release(c)
       \/ Tick \/ Clean \/ StopCleaning \/ SendOrWait \/ StopSending
       \/ Signal \/ ListenFails \/ Main

Spec == Init /\ [][Next]_vars

\* Handlers but for those of sockets, what is asked of the database, rounds of
\* the cleanup and sends to a push provider end at their deadlines, Shutdown at
\* its own; select chooses among what is ready at random.
FairSpec ==
    /\ Spec
    /\ \A c \in Clients :
           WF_vars(Running /\ ~Hijacked(c) /\ Return(c)) /\ WF_vars(Running /\ Release(c))
    /\ WF_vars(Running /\ Clean) /\ SF_vars(Running /\ StopCleaning)
    /\ WF_vars(Running /\ SendOrWait) /\ SF_vars(Running /\ StopSending)
    /\ WF_vars(Running /\ Main)

-----------------------------------------------------------------------------
(* Properties.                                                             *)

Uploading == {c \in Clients : request[c].at = "handler" /\ request[c].kind = "upload"}

TypeOK ==
    /\ Cardinality(DOMAIN windows) <= MaxWindows
    /\ \A a \in DOMAIN windows :
           windows[a].age \in 0..Minute + Delay /\ windows[a].attempts \in 1..Limit
    /\ tokens = Cardinality(Uploading) /\ tokens <= Slots
    /\ \A c \in connected : Queries(c)

\* RateBound: an address is admitted twice the limit at most in any time of a
\* window's length, less what requests wait for the lock, whatever addresses are
\* purged meanwhile and in whatever order clocks were read: of 2 * Limit + 1
\* attempts in a row the first is Span ago by then.  That is the bound of
\* windows that begin anew (middleware.go:237); docs/openapi.yaml:321 names the
\* limit of one window, 10 a minute, which two windows can double.
RateBound ==
    \A a \in Addresses : lately[a][2 * Limit + 1] >= Span

\* UploadsRecover: uploads that end in whatever way make room for others.
UploadsRecover == tokens = Slots ~> tokens < Slots \/ ~Running

\* ClosedLast: what the cleanup and the push workers use is closed after they
\* have ended, and after all requests unless Shutdown gave up waiting.
ClosedLast ==
    ~Open("closing_push") =>
        /\ cleaner = "done"
        /\ ~Open("closing_store") => sender = "done"
        /\ ~forced => \A c \in Clients : request[c] # None => Hijacked(c)

\* StopsInTheEnd: a signal, or a listener that fails, ends the process.
StopsInTheEnd == phase # "serving" ~> ~Running

=============================================================================
