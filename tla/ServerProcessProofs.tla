------------------------- MODULE ServerProcessProofs -------------------------
(***************************************************************************)
(* The limiter's bound, the upload slots and the order of the shutdown in  *)
(* ServerProcess, for any clients, addresses, limits and lengths of time.  *)
(***************************************************************************)
EXTENDS ServerProcess, FiniteSetTheorems, TLAPS

Kinds == {"login", "upload", "socket"}

Request == [at : {"arrived", "handler"}, kind : Kinds,
            address : Addresses \cup {None}, late : 0..Delay]

Windows == [age : 0..Minute + Delay, attempts : 1..Limit]

(* The inductive invariant.                                                *)

RequestTypes ==
    /\ request \in [Clients -> Request \cup {None}]
    /\ \A c \in Clients : request[c].at # "none" /\ request[c].kind = "login" =>
                              request[c].address \in Addresses

Table ==
    /\ IsFiniteSet(DOMAIN windows) /\ DOMAIN windows \subseteq Addresses
    /\ Cardinality(DOMAIN windows) <= MaxWindows
    /\ windows \in [DOMAIN windows -> Windows]

\* The last attempts: those of the window, which may be young; those of the
\* window before, older than this window; and others, that no longer count.
AgesOf(a) ==
    LET k == IF a \in DOMAIN windows THEN windows[a].attempts ELSE 0 IN
    /\ \A n \in Last : n > k + Limit => lately[a][n] = Span
    /\ a \in DOMAIN windows =>
           \A n \in Last : n > k =>
               lately[a][n] >= windows[a].age - Delay \/ lately[a][n] = Span

Attempts ==
    /\ lately \in [Addresses -> [Last -> 0..Span]]
    /\ \A a \in Addresses : AgesOf(a)

SlotsTaken ==
    /\ IsFiniteSet(Uploading)
    /\ tokens = Cardinality(Uploading) /\ tokens <= Slots

PhaseNames == {"serving", "shutting", "stopping_worker", "closing_push",
               "closing_store", "closing_pool", "exited"}

MainTypes ==
    /\ phase \in PhaseNames /\ forced \in BOOLEAN
    /\ cleaner \in {"working", "waiting", "done"}
    /\ sender \in {"working", "waiting", "done"}

Order ==
    /\ phase \in {"closing_push", "closing_store", "closing_pool", "exited"} => cleaner = "done"
    /\ phase \in {"closing_store", "closing_pool", "exited"} => sender = "done"
    /\ phase \notin {"serving", "shutting"} /\ ~forced =>
           \A c \in Clients : request[c] # None => Hijacked(c)

\* Connections are held by requests that use the database.
Connections == connected \subseteq Clients /\ \A c \in connected : Queries(c)

ProcessInv ==
    RequestTypes /\ Table /\ Attempts /\ SlotsTaken /\ Connections /\ MainTypes /\ Order

-----------------------------------------------------------------------------
(* The initial state.                                                      *)

LEMMA InitInv == Init => ProcessInv
<1>. SUFFICES ASSUME Init PROVE ProcessInv
  OBVIOUS
<1>. USE ServerProcessAssumption DEF Init
<1>1. RequestTypes
  BY DEF RequestTypes, None
<1>2. Table
  BY FS_EmptySet DEF Table
<1>3. Attempts
  BY DEF Attempts, AgesOf, Span, Last
<1>4. SlotsTaken
  <2>1. Uploading = {}
    BY DEF Uploading, None
  <2>. QED
    BY <2>1, FS_EmptySet DEF SlotsTaken
<1>5. MainTypes
  BY DEF MainTypes, PhaseNames
<1>6. Order
  BY DEF Order
<1>7. Connections
  BY DEF Connections
<1>. QED
  BY <1>1, <1>2, <1>3, <1>4, <1>5, <1>6, <1>7 DEF ProcessInv

-----------------------------------------------------------------------------
(* The login limiter.                                                      *)

\* What a full table loses, and a new address gains, leaves room for it.
LEMMA AllowTable ==
  ASSUME RequestTypes, Table, NEW c \in Clients, Allow(c)
  PROVE  Table'
<1>. DEFINE a == request[c].address
            late == request[c].late
            kept == Kept(a, late)
            room == a \in DOMAIN windows \/ Cardinality(kept) < MaxWindows
            w == Renewed(a, late)
            admitted == room /\ w.attempts < Limit
            new == kept \cup (IF admitted THEN {a} ELSE {})
<1>. USE ServerProcessAssumption
<1>1. request[c] \in Request /\ a \in Addresses /\ late \in 0..Delay
  BY DEF Allow, RequestTypes, Request, None
<1>2. windows' = [b \in new |-> IF b = a /\ admitted THEN [w EXCEPT !.attempts = @ + 1]
                                                     ELSE windows[b]]
  BY DEF Allow
<1>3. kept \subseteq DOMAIN windows /\ (a \in DOMAIN windows => kept = DOMAIN windows)
  BY DEF Kept, Full
<1>4. IsFiniteSet(kept) /\ Cardinality(kept) <= Cardinality(DOMAIN windows)
  BY <1>3, FS_Subset DEF Table
<1>5. Cardinality(kept) \in Nat /\ Cardinality(DOMAIN windows) \in Nat
  BY <1>4, FS_CardinalityType DEF Table
<1>6. IsFiniteSet(new) /\ Cardinality(new) <= MaxWindows
  <2>1. CASE ~admitted
    BY <2>1, <1>4, <1>5 DEF Table
  <2>2. CASE admitted
    <3>1. new = kept \cup {a}
      BY <2>2
    <3>2. /\ IsFiniteSet(kept \cup {a})
          /\ Cardinality(kept \cup {a}) = IF a \in kept THEN Cardinality(kept)
                                                         ELSE Cardinality(kept) + 1
      BY <1>4, FS_AddElement
    <3>3. a \in kept \/ Cardinality(kept) < MaxWindows
      BY <2>2, <1>3
    <3>4. Cardinality(DOMAIN windows) <= MaxWindows
      BY DEF Table
    <3>. HIDE DEF kept, new
    <3>. QED
      BY <3>1, <3>2, <3>3, <3>4, <1>4, <1>5
  <2>. QED
    BY <2>1, <2>2
<1>7. ASSUME admitted
      PROVE  [w EXCEPT !.attempts = @ + 1] \in Windows
  <2>1. CASE Expired(a, late)
    BY <2>1, <1>1 DEF Renewed, Windows
  <2>2. CASE ~Expired(a, late)
    <3>1. a \in DOMAIN windows
      BY <2>2 DEF Expired, Age
    <3>. QED
      BY <3>1, <2>2, <1>7 DEF Renewed, Windows, Table
  <2>. QED
    BY <2>1, <2>2
<1>8. DOMAIN windows' = new
  BY <1>2
<1>9. windows' \in [new -> Windows]
  BY <1>2, <1>3, <1>7 DEF Table
<1>. QED
  BY <1>1, <1>3, <1>6, <1>8, <1>9 DEF Table

\* Another attempt pushes those before it one place back.
LEMMA RecordedAges ==
  ASSUME NEW ages \in [Last -> 0..Span], NEW n \in Last
  PROVE  /\ Recorded(ages) \in [Last -> 0..Span]
         /\ n = 1 => Recorded(ages)[n] = 0
         /\ n > 1 => n - 1 \in Last /\ Recorded(ages)[n] = ages[n - 1]
BY ServerProcessAssumption DEF Recorded, Last, Span

\* The ages of an address and of its window, as numbers.
LEMMA AgesAreNumbers ==
  ASSUME Table, Attempts, NEW b \in Addresses, NEW n \in Last
  PROVE  /\ n \in Nat /\ Limit \in Nat /\ Delay \in Nat /\ Minute \in Nat
         /\ Span \in Nat /\ Span = Minute - Delay
         /\ lately[b][n] \in Nat /\ lately[b][n] <= Span
         /\ b \in DOMAIN windows =>
                /\ windows[b].age \in Nat /\ windows[b].attempts \in Nat
                /\ windows[b].attempts <= Limit
<1>1. lately[b] \in [Last -> 0..Span]
  BY DEF Attempts
<1>2. b \in DOMAIN windows => windows[b] \in Windows
  BY DEF Table
<1>. QED
  BY <1>1, <1>2, ServerProcessAssumption DEF Last, Span, Windows

\* Behind a window that is over nothing counts but its own attempts.
LEMMA BehindOldWindow ==
  ASSUME Table, Attempts, NEW b \in Addresses, NEW n \in Last, n > Limit,
         b \in DOMAIN windows => windows[b].age >= Minute
  PROVE  lately[b][n] = Span
<1>1. CASE b \notin DOMAIN windows
  <2>1. n > 0 + Limit
    BY ServerProcessAssumption DEF Last
  <2>. QED
    BY <1>1, <2>1 DEF Attempts, AgesOf
<1>2. CASE b \in DOMAIN windows
  <2>1. n > windows[b].attempts
    BY <1>2, AgesAreNumbers
  <2>2. lately[b][n] >= windows[b].age - Delay \/ lately[b][n] = Span
    BY <1>2, <2>1 DEF Attempts, AgesOf
  <2>. QED
    BY <1>2, <2>2, AgesAreNumbers
<1>. QED
  BY <1>1, <1>2

\* What the next ages of an address with a window have to be.
LEMMA NextAges ==
  ASSUME NEW b, b \in DOMAIN windows',
         \A n \in Last : n > windows'[b].attempts + Limit => lately'[b][n] = Span,
         \A n \in Last : n > windows'[b].attempts =>
             lately'[b][n] >= windows'[b].age - Delay \/ lately'[b][n] = Span
  PROVE  AgesOf(b)'
BY DEF AgesOf

\* A window is left, renewed or purged a window's length after it began, so
\* that what came before it is too old to count.
LEMMA AllowAttempts ==
  ASSUME RequestTypes, Table, Attempts, NEW c \in Clients, Allow(c)
  PROVE  Attempts'
<1>. DEFINE a == request[c].address
            late == request[c].late
            kept == Kept(a, late)
            room == a \in DOMAIN windows \/ Cardinality(kept) < MaxWindows
            w == Renewed(a, late)
            admitted == room /\ w.attempts < Limit
            new == kept \cup (IF admitted THEN {a} ELSE {})
<1>. USE ServerProcessAssumption
<1>1. request[c] \in Request /\ a \in Addresses /\ late \in 0..Delay
  BY DEF Allow, RequestTypes, Request, None
<1>2. /\ windows' = [b \in new |-> IF b = a /\ admitted THEN [w EXCEPT !.attempts = @ + 1]
                                                        ELSE windows[b]]
      /\ lately' = IF admitted THEN [lately EXCEPT ![a] = Recorded(@)] ELSE lately
  BY DEF Allow
<1>3. DOMAIN windows' = new
  BY <1>2
<1>4. \A b \in Addresses : lately[b] \in [Last -> 0..Span]
  BY DEF Attempts
<1>5. lately' \in [Addresses -> [Last -> 0..Span]]
  <2>1. Recorded(lately[a]) \in [Last -> 0..Span]
    BY <1>1, <1>4, RecordedAges, ServerProcessAssumption DEF Recorded, Last, Span
  <2>. HIDE DEF admitted
  <2>. QED
    BY <1>1, <1>2, <2>1 DEF Attempts
<1>6. ASSUME NEW b \in Addresses, b # a \/ ~admitted
      PROVE  AgesOf(b)'
  <2>1. lately'[b] = lately[b]
    BY <1>1, <1>2, <1>6 DEF Attempts
  <2>2. CASE b \in new
    <3>1. b \in DOMAIN windows /\ windows'[b] = windows[b]
      BY <1>2, <1>6, <2>2 DEF Kept
    <3>. QED
      BY <3>1, <2>1, <2>2, <1>3 DEF Attempts, AgesOf
  <2>3. CASE b \notin new
    <3>1. CASE b \notin DOMAIN windows
      BY <3>1, <2>1, <2>3, <1>3 DEF Attempts, AgesOf
    <3>2. CASE b \in DOMAIN windows
      <4>1. Expired(b, late)
        BY <3>2, <2>3 DEF Kept
      <4>2. windows[b].age >= Minute /\ windows[b] \in Windows
        BY <4>1, <3>2, <1>1 DEF Expired, Age, Table, Windows
      <4>3. \A n \in Last : n > Limit => lately[b][n] = Span
        BY <4>2, BehindOldWindow
      <4>. QED
        BY <4>3, <2>1, <2>3, <1>3 DEF AgesOf
    <3>. QED
      BY <3>1, <3>2
  <2>. QED
    BY <2>2, <2>3
<1>7. ASSUME admitted, NEW b \in Addresses, b = a
      PROVE  AgesOf(b)'
  <2>1. lately'[a] = Recorded(lately[a]) /\ a \in new /\ a \in DOMAIN windows'
    BY <1>1, <1>2, <1>3, <1>7 DEF Attempts
  <2>2. windows'[a] = [w EXCEPT !.attempts = @ + 1]
    BY <1>2, <1>7, <2>1
  <2>3. CASE Expired(a, late)
    <3>1. windows'[a].age = late /\ windows'[a].attempts = 1
      BY <2>2, <2>3 DEF Renewed
    <3>2. \A n \in Last : n > Limit => lately[a][n] = Span
      <4>1. a \in DOMAIN windows => windows[a].age >= Minute
        BY <2>3, <1>1 DEF Expired, Age, Table, Windows
      <4>. QED
        BY <4>1, <1>1, BehindOldWindow
    <3>3. ASSUME NEW n \in Last, n > 1 + Limit PROVE lately'[a][n] = Span
      <4>1. n > 1 /\ n - 1 > Limit
        BY <3>3 DEF Last
      <4>2. n - 1 \in Last /\ lately'[a][n] = lately[a][n - 1]
        BY <4>1, <2>1, <1>1, <1>4, RecordedAges
      <4>. QED
        BY <4>1, <4>2, <3>2
    <3>4. ASSUME NEW n \in Last PROVE lately'[a][n] >= late - Delay
      <4>1. lately'[a][n] \in 0..Span
        BY <1>1, <1>5
      <4>. QED
        BY <4>1, <1>1 DEF Span
    <3>. HIDE DEF admitted, w, new, room, kept, a
    <3>. QED
      BY <3>1, <3>3, <3>4, <2>1, <1>7, NextAges
  <2>4. CASE ~Expired(a, late)
    <3>1. a \in DOMAIN windows
      BY <2>4 DEF Expired, Age
    <3>2. /\ windows[a] \in Windows
          /\ windows'[a].age = windows[a].age
          /\ windows'[a].attempts = windows[a].attempts + 1
      BY <3>1, <2>2, <2>4 DEF Renewed, Table, Windows
    <3>3. ASSUME NEW n \in Last, n > windows[a].attempts + 1
          PROVE  /\ n - 1 \in Last /\ lately'[a][n] = lately[a][n - 1]
                 /\ n - 1 > windows[a].attempts
                 /\ n > windows[a].attempts + 1 + Limit => n - 1 > windows[a].attempts + Limit
      <4>1. n > 1
        BY <3>2, <3>3 DEF Windows, Last
      <4>2. n - 1 \in Last /\ lately'[a][n] = lately[a][n - 1]
        BY <4>1, <2>1, <1>1, <1>4, RecordedAges
      <4>. QED
        BY <4>2, <3>2, <3>3 DEF Windows, Last
    <3>4. \A n \in Last : n > windows[a].attempts + 1 + Limit => n > windows[a].attempts + 1
      BY <3>2 DEF Windows, Last
    <3>. QED
      <4>1. \A n \in Last : n > windows'[a].attempts + Limit => lately'[a][n] = Span
        BY <3>1, <3>2, <3>3, <3>4, <1>1 DEF Attempts, AgesOf
      <4>2. \A n \in Last : n > windows'[a].attempts =>
                lately'[a][n] >= windows'[a].age - Delay \/ lately'[a][n] = Span
        BY <3>1, <3>2, <3>3, <1>1 DEF Attempts, AgesOf
      <4>. QED
        BY <4>1, <4>2, <2>1, <1>7, NextAges
  <2>. QED
    BY <2>3, <2>4
<1>. HIDE DEF admitted
<1>8. \A b \in Addresses : AgesOf(b)'
  BY <1>6, <1>7
<1>. QED
  BY <1>5, <1>8 DEF Attempts

-----------------------------------------------------------------------------
(* Time.                                                                   *)

\* Windows and attempts grow old together, until they no longer count.
LEMMA TickAttempts ==
  ASSUME Table, Attempts, Tick
  PROVE  Table' /\ Attempts'
<1>. USE ServerProcessAssumption
<1>1. /\ windows' = [a \in DOMAIN windows |->
              [windows[a] EXCEPT !.age = IF @ < Minute + Delay THEN @ + 1 ELSE @]]
      /\ lately' = [a \in Addresses |->
              [n \in Last |-> IF lately[a][n] < Span THEN lately[a][n] + 1 ELSE Span]]
  BY DEF Tick
<1>2. DOMAIN windows' = DOMAIN windows
  BY <1>1
<1>3. ASSUME NEW a \in DOMAIN windows
      PROVE  /\ windows'[a] \in Windows /\ windows'[a].attempts = windows[a].attempts
             /\ windows'[a].age = IF windows[a].age < Minute + Delay
                                  THEN windows[a].age + 1 ELSE windows[a].age
  <2>1. windows[a] \in Windows
    BY DEF Table
  <2>. QED
    BY <2>1, <1>1 DEF Windows
<1>4. Table'
  <2>1. windows' \in [DOMAIN windows -> Windows]
    BY <1>1, <1>3
  <2>. QED
    BY <2>1, <1>2 DEF Table
<1>5. ASSUME NEW a \in Addresses, NEW n \in Last
      PROVE  lately'[a][n] = IF lately[a][n] < Span THEN lately[a][n] + 1 ELSE Span
  BY <1>1
<1>6. lately' \in [Addresses -> [Last -> 0..Span]]
  <2>1. ASSUME NEW a \in Addresses, NEW n \in Last
        PROVE  (IF lately[a][n] < Span THEN lately[a][n] + 1 ELSE Span) \in 0..Span
    BY AgesAreNumbers
  <2>. QED
    BY <2>1, <1>1
<1>7. ASSUME NEW a \in Addresses PROVE AgesOf(a)'
  <2>1. CASE a \notin DOMAIN windows
    <3>1. ASSUME NEW n \in Last, n > 0 + Limit PROVE lately'[a][n] = Span
      <4>1. lately[a][n] = Span
        BY <3>1, <2>1 DEF Attempts, AgesOf
      <4>. QED
        BY <4>1, <1>5, AgesAreNumbers
    <3>. QED
      BY <3>1, <2>1, <1>2 DEF AgesOf
  <2>2. CASE a \in DOMAIN windows
    <3>1. ASSUME NEW n \in Last, n > windows'[a].attempts + Limit PROVE lately'[a][n] = Span
      <4>1. lately[a][n] = Span
        BY <3>1, <2>2, <1>3 DEF Attempts, AgesOf
      <4>. QED
        BY <4>1, <1>5, AgesAreNumbers
    <3>2. ASSUME NEW n \in Last, n > windows'[a].attempts
          PROVE  lately'[a][n] >= windows'[a].age - Delay \/ lately'[a][n] = Span
      <4>1. lately[a][n] >= windows[a].age - Delay \/ lately[a][n] = Span
        BY <3>2, <2>2, <1>3 DEF Attempts, AgesOf
      <4>. QED
        BY <4>1, <2>2, <1>3, <1>5, AgesAreNumbers
    <3>. QED
      BY <3>1, <3>2, <2>2, <1>2, NextAges
  <2>. QED
    BY <2>1, <2>2
<1>. QED
  BY <1>4, <1>6, <1>7 DEF Attempts

\* A clock reading is used before it is older than Delay.
LEMMA TickRequests ==
  ASSUME RequestTypes, Tick
  PROVE  /\ RequestTypes' /\ Uploading' = Uploading
         /\ \A c \in Clients : /\ request'[c] = None <=> request[c] = None
                               /\ Hijacked(c)' <=> Hijacked(c)
                               /\ Queries(c)' <=> Queries(c)
<1>. DEFINE Waits(c) == request[c].at = "arrived" /\ request[c].kind = "login"
<1>1. \A c \in Clients : Waits(c) => request[c].late < Delay
  BY DEF Tick
<1>2. request' = [c \in Clients |-> IF Waits(c) THEN [request[c] EXCEPT !.late = @ + 1] ELSE request[c]]
  BY DEF Tick
<1>3. ASSUME NEW c \in Clients, Waits(c)
      PROVE  /\ request[c] \in Request /\ request'[c] \in Request
             /\ request'[c].at = "arrived" /\ request'[c].kind = "login"
             /\ request'[c].address = request[c].address
  <2>1. request[c] \in Request
    BY <1>3 DEF RequestTypes, None
  <2>2. request'[c] = [request[c] EXCEPT !.late = @ + 1]
    BY <1>2, <1>3
  <2>. QED
    BY <2>1, <2>2, <1>1, <1>3, ServerProcessAssumption DEF Request
<1>4. \A c \in Clients : ~Waits(c) => request'[c] = request[c]
  BY <1>2
<1>. HIDE DEF Waits
<1>5. RequestTypes'
  <2>1. \A c \in Clients : request'[c] \in Request \cup {None}
    BY <1>3, <1>4 DEF RequestTypes
  <2>2. request' \in [Clients -> Request \cup {None}]
    BY <1>2, <2>1
  <2>3. ASSUME NEW c \in Clients, request'[c].at # "none", request'[c].kind = "login"
        PROVE  request'[c].address \in Addresses
    <3>1. CASE Waits(c)
      BY <3>1, <1>3 DEF Waits, RequestTypes
    <3>2. CASE ~Waits(c)
      BY <3>2, <2>3, <1>4 DEF RequestTypes
    <3>. QED
      BY <3>1, <3>2
  <2>. QED
    BY <2>2, <2>3 DEF RequestTypes
<1>6. ASSUME NEW c \in Clients
      PROVE  /\ request'[c] = None <=> request[c] = None
             /\ Hijacked(c)' <=> Hijacked(c)
             /\ Queries(c)' <=> Queries(c)
             /\ c \in Uploading' <=> c \in Uploading
  <2>1. CASE Waits(c)
    BY <2>1, <1>3 DEF Waits, Request, None, Hijacked, Queries, Uploading
  <2>2. CASE ~Waits(c)
    BY <2>2, <1>4 DEF Hijacked, Queries, Uploading
  <2>. QED
    BY <2>1, <2>2
<1>7. Uploading' = Uploading
  BY <1>6 DEF Uploading
<1>. QED
  BY <1>5, <1>6, <1>7

-----------------------------------------------------------------------------
(* Requests and their slots.                                               *)

\* What one request becomes is all that changes of the requests.
LEMMA RequestStep ==
  ASSUME RequestTypes, NEW c \in Clients, NEW r \in Request \cup {None},
         request' = [request EXCEPT ![c] = r],
         r.at # "none" /\ r.kind = "login" => r.address \in Addresses
  PROVE  /\ RequestTypes' /\ request'[c] = r
         /\ \A d \in Clients \ {c} : request'[d] = request[d]
         /\ Uploading' = IF r.at = "handler" /\ r.kind = "upload"
                         THEN Uploading \cup {c} ELSE Uploading \ {c}
<1>1. request'[c] = r /\ \A d \in Clients \ {c} : request'[d] = request[d]
  BY DEF RequestTypes
<1>2. request' \in [Clients -> Request \cup {None}]
  BY DEF RequestTypes
<1>3. RequestTypes'
  BY <1>1, <1>2 DEF RequestTypes
<1>4. \A d \in Clients : d \in Uploading' <=> IF d = c THEN r.at = "handler" /\ r.kind = "upload"
                                                       ELSE d \in Uploading
  BY <1>1 DEF Uploading
<1>5. Uploading' \subseteq Clients /\ Uploading \subseteq Clients
  BY DEF Uploading
<1>. QED
  BY <1>1, <1>3, <1>4, <1>5

\* Sockets apart no request appears once the server has stopped listening.
LEMMA NoNewRequests ==
  ASSUME Order, UNCHANGED <<main, workers>>, NEW c \in Clients,
         \A d \in Clients \ {c} : request'[d] = request[d],
         request[c] = None => phase = "serving",
         ~Hijacked(c) \/ request'[c] = None
  PROVE  Order'
<1>1. ASSUME phase' \notin {"serving", "shutting"}, ~forced', NEW d \in Clients, request'[d] # None
      PROVE  Hijacked(d)'
  <2>1. \A e \in Clients : request[e] # None => Hijacked(e)
    BY <1>1 DEF Order, main
  <2>2. d # c
    BY <2>1, <1>1 DEF main
  <2>. QED
    BY <2>1, <2>2, <1>1 DEF Hijacked
<1>. QED
  BY <1>1 DEF Order, main, workers

\* A request that holds no connection, or goes on using the database, changes.
LEMMA ConnectionsKept ==
  ASSUME Connections, NEW c \in Clients,
         \A d \in Clients \ {c} : request'[d] = request[d],
         connected' \subseteq connected, c \notin connected' \/ Queries(c)'
  PROVE  Connections'
BY DEF Connections, Queries

LEMMA ArriveInv ==
  ASSUME ProcessInv, NEW c \in Clients, NEW kind \in Kinds, NEW a \in Addresses \cup {None},
         Arrive(c, kind, a)
  PROVE  ProcessInv'
<1>. DEFINE r == [at |-> "arrived", kind |-> kind, address |-> a, late |-> 0]
<1>1. r \in Request /\ (r.kind = "login" => r.address \in Addresses) /\ r.at = "arrived"
  BY ServerProcessAssumption DEF Arrive, Request
<1>2. request' = [request EXCEPT ![c] = r] /\ request[c] = None /\ phase = "serving"
  BY DEF Arrive
<1>3. UNCHANGED <<tokens, limiter, main, workers>>
  BY DEF Arrive
<1>. HIDE DEF r
<1>4. RequestTypes' /\ Uploading' = Uploading \ {c} /\ \A d \in Clients \ {c} : request'[d] = request[d]
  BY <1>1, <1>2, RequestStep DEF ProcessInv
<1>5. c \notin Uploading
  BY <1>2 DEF Uploading, None
<1>6. SlotsTaken'
  BY <1>3, <1>4, <1>5 DEF ProcessInv, SlotsTaken
<1>7. Order'
  BY <1>2, <1>3, <1>4, NoNewRequests DEF ProcessInv, Hijacked, None
<1>8. Connections'
  <2>1. c \notin connected /\ connected' = connected
    BY <1>2 DEF ProcessInv, Connections, Queries, Arrive, None
  <2>. QED
    BY <2>1, <1>4, ConnectionsKept DEF ProcessInv
<1>. QED
  BY <1>3, <1>4, <1>6, <1>7, <1>8
     DEF ProcessInv, Table, Attempts, AgesOf, MainTypes, limiter, main, workers

LEMMA AllowInv ==
  ASSUME ProcessInv, NEW c \in Clients, Allow(c)
  PROVE  ProcessInv'
<1>1. request[c] \in Request /\ request[c].at = "arrived" /\ request[c].kind = "login"
  BY DEF Allow, ProcessInv, RequestTypes, None
<1>2. PICK r \in {None, [request[c] EXCEPT !.at = "handler"]} : request' = [request EXCEPT ![c] = r]
  BY DEF Allow
<1>3. /\ r \in Request \cup {None} /\ ~(r.at = "handler" /\ r.kind = "upload")
      /\ r.at # "none" /\ r.kind = "login" => r.address \in Addresses
  BY <1>1, <1>2 DEF ProcessInv, RequestTypes, Request, None
<1>4. UNCHANGED <<tokens, main, workers>>
  BY DEF Allow
<1>5. RequestTypes' /\ Uploading' = Uploading \ {c} /\ \A d \in Clients \ {c} : request'[d] = request[d]
  BY <1>2, <1>3, RequestStep DEF ProcessInv
<1>6. c \notin Uploading /\ request[c] # None /\ ~Hijacked(c)
  BY <1>1 DEF Uploading, Hijacked, None
<1>7. SlotsTaken'
  BY <1>4, <1>5, <1>6 DEF ProcessInv, SlotsTaken
<1>8. Order'
  BY <1>4, <1>5, <1>6, NoNewRequests DEF ProcessInv
<1>9. Table' /\ Attempts'
  BY AllowTable, AllowAttempts DEF ProcessInv
<1>10. Connections'
  <2>1. c \notin connected /\ connected' = connected
    BY <1>1 DEF ProcessInv, Connections, Queries, Allow
  <2>. QED
    BY <2>1, <1>5, ConnectionsKept DEF ProcessInv
<1>. QED
  BY <1>4, <1>5, <1>7, <1>8, <1>9, <1>10 DEF ProcessInv, MainTypes, main, workers

LEMMA UnauthorizedInv ==
  ASSUME ProcessInv, NEW c \in Clients, Unauthorized(c)
  PROVE  ProcessInv'
<1>1. request' = [request EXCEPT ![c] = None] /\ request[c].at = "arrived"
  BY DEF Unauthorized
<1>2. UNCHANGED <<tokens, limiter, main, workers>>
  BY DEF Unauthorized
<1>3. RequestTypes' /\ Uploading' = Uploading \ {c} /\ \A d \in Clients \ {c} : request'[d] = request[d]
  BY <1>1, RequestStep DEF ProcessInv, None
<1>4. c \notin Uploading /\ request[c] # None /\ ~Hijacked(c)
  BY <1>1 DEF Uploading, Hijacked, None
<1>5. SlotsTaken'
  BY <1>2, <1>3, <1>4 DEF ProcessInv, SlotsTaken
<1>6. Order'
  BY <1>2, <1>3, <1>4, NoNewRequests DEF ProcessInv
<1>7. Connections'
  <2>1. c \notin connected /\ connected' = connected
    BY DEF Unauthorized
  <2>. QED
    BY <2>1, <1>3, ConnectionsKept DEF ProcessInv
<1>. QED
  BY <1>2, <1>3, <1>5, <1>6, <1>7
     DEF ProcessInv, Table, Attempts, AgesOf, MainTypes, limiter, main, workers

LEMMA EnterInv ==
  ASSUME ProcessInv, NEW c \in Clients, Enter(c)
  PROVE  ProcessInv'
<1>1. request[c] \in Request /\ request[c].at = "arrived"
  BY DEF Enter, ProcessInv, RequestTypes, None
<1>2. PICK r \in {None, [request[c] EXCEPT !.at = "handler"]} :
          /\ request' = [request EXCEPT ![c] = r]
          /\ IF r # None /\ request[c].kind = "upload"
             THEN tokens < Slots /\ tokens' = tokens + 1 ELSE tokens' = tokens
  <2>. DEFINE in == [request[c] EXCEPT !.at = "handler"]
  <2>1. in.at = "handler" /\ in # None
    BY <1>1 DEF Request, None
  <2>2. CASE request[c].kind = "upload" /\ ~(tokens < Slots)
    BY <2>2 DEF Enter
  <2>3. CASE request[c].kind # "upload" \/ tokens < Slots
    BY <2>1, <2>3 DEF Enter
  <2>. QED
    BY <2>2, <2>3 DEF Enter
<1>3. /\ r \in Request \cup {None}
      /\ r = None => r.at = "none"
      /\ r # None => r.at = "handler" /\ r.kind = request[c].kind
      /\ r.at # "none" /\ r.kind = "login" => r.address \in Addresses
  BY <1>1, <1>2 DEF ProcessInv, RequestTypes, Request, None
<1>4. UNCHANGED <<limiter, main, workers>>
  BY DEF Enter
<1>5. /\ RequestTypes' /\ \A d \in Clients \ {c} : request'[d] = request[d]
      /\ Uploading' = IF r.at = "handler" /\ r.kind = "upload"
                      THEN Uploading \cup {c} ELSE Uploading \ {c}
  BY <1>2, <1>3, RequestStep DEF ProcessInv
<1>6. c \notin Uploading /\ request[c] # None /\ ~Hijacked(c)
  BY <1>1 DEF Uploading, Hijacked, None
<1>7. SlotsTaken'
  <2>1. CASE r # None /\ request[c].kind = "upload"
    <3>1. IsFiniteSet(Uploading \cup {c}) /\ Cardinality(Uploading \cup {c}) = Cardinality(Uploading) + 1
      BY <1>6, FS_AddElement DEF ProcessInv, SlotsTaken
    <3>2. Uploading' = Uploading \cup {c} /\ tokens' = tokens + 1 /\ tokens < Slots
      BY <2>1, <1>2, <1>3, <1>5
    <3>3. tokens \in Nat
      BY FS_CardinalityType DEF ProcessInv, SlotsTaken
    <3>. QED
      BY <3>1, <3>2, <3>3, ServerProcessAssumption DEF ProcessInv, SlotsTaken
  <2>2. CASE ~(r # None /\ request[c].kind = "upload")
    <3>1. Uploading' = Uploading /\ tokens' = tokens
      BY <2>2, <1>2, <1>3, <1>5, <1>6
    <3>. QED
      BY <3>1 DEF ProcessInv, SlotsTaken
  <2>. QED
    BY <2>1, <2>2
<1>8. Order'
  BY <1>4, <1>5, <1>6, NoNewRequests DEF ProcessInv
<1>9. Connections'
  <2>1. c \notin connected /\ connected' = connected
    BY DEF Enter
  <2>. QED
    BY <2>1, <1>5, ConnectionsKept DEF ProcessInv
<1>. QED
  BY <1>4, <1>5, <1>7, <1>8, <1>9
     DEF ProcessInv, Table, Attempts, AgesOf, MainTypes, limiter, main, workers

LEMMA ReturnInv ==
  ASSUME ProcessInv, NEW c \in Clients, Return(c)
  PROVE  ProcessInv'
<1>1. /\ request' = [request EXCEPT ![c] = None] /\ request[c].at = "handler"
      /\ tokens' = IF request[c].kind = "upload" THEN tokens - 1 ELSE tokens
  BY DEF Return
<1>2. UNCHANGED <<limiter, main, workers>>
  BY DEF Return
<1>3. /\ RequestTypes' /\ request'[c] = None
      /\ Uploading' = Uploading \ {c} /\ \A d \in Clients \ {c} : request'[d] = request[d]
  <2>1. None.at = "none"
    BY DEF None
  <2>. QED
    BY <1>1, <2>1, RequestStep DEF ProcessInv
<1>4. request[c] # None /\ (c \in Uploading <=> request[c].kind = "upload")
  BY <1>1 DEF Uploading, None
<1>5. SlotsTaken'
  <2>1. /\ IsFiniteSet(Uploading \ {c})
        /\ Cardinality(Uploading \ {c}) = IF c \in Uploading THEN Cardinality(Uploading) - 1
                                                             ELSE Cardinality(Uploading)
    BY FS_RemoveElement DEF ProcessInv, SlotsTaken
  <2>2. tokens \in Nat
    BY FS_CardinalityType DEF ProcessInv, SlotsTaken
  <2>. QED
    BY <2>1, <2>2, <1>1, <1>3, <1>4, ServerProcessAssumption DEF ProcessInv, SlotsTaken
<1>6. Order'
  BY <1>2, <1>3, <1>4, NoNewRequests DEF ProcessInv
<1>7. Connections'
  <2>1. connected' = connected \ {c}
    BY DEF Return
  <2>. QED
    BY <2>1, <1>3, ConnectionsKept DEF ProcessInv
<1>. QED
  BY <1>2, <1>3, <1>5, <1>6, <1>7
     DEF ProcessInv, Table, Attempts, AgesOf, MainTypes, limiter, main, workers

\* Taking and giving back a connection changes nothing else.
LEMMA ConnectionsInv ==
  ASSUME ProcessInv, NEW c \in Clients, Acquire(c) \/ Release(c)
  PROVE  ProcessInv'
<1>1. UNCHANGED <<request, tokens, limiter, main, workers>>
  BY DEF Acquire, Release
<1>2. Connections'
  BY <1>1 DEF ProcessInv, Connections, Queries, Acquire, Release
<1>. QED
  BY <1>1, <1>2
     DEF ProcessInv, RequestTypes, Table, Attempts, AgesOf, SlotsTaken, Uploading, MainTypes,
         Order, Hijacked, limiter, main, workers

-----------------------------------------------------------------------------
(* The workers and run().                                                  *)

LEMMA RankOf ==
  /\ Rank("serving") = 1 /\ Rank("shutting") = 2 /\ Rank("stopping_worker") = 3
  /\ Rank("closing_push") = 4 /\ Rank("closing_store") = 5
  /\ Rank("closing_pool") = 6 /\ Rank("exited") = 7
<1>1. DOMAIN Phases = 1..7
  BY DEF Phases
<1>2. /\ Phases[1] = "serving" /\ Phases[2] = "shutting" /\ Phases[3] = "stopping_worker"
      /\ Phases[4] = "closing_push" /\ Phases[5] = "closing_store"
      /\ Phases[6] = "closing_pool" /\ Phases[7] = "exited"
  BY DEF Phases
<1>3. \A i \in 1..7 : i = 1 \/ i = 2 \/ i = 3 \/ i = 4 \/ i = 5 \/ i = 6 \/ i = 7
  OBVIOUS
<1>4. \A i, j \in 1..7 : Phases[i] = Phases[j] => i = j
  BY <1>2, <1>3
<1>5. ASSUME NEW i \in 1..7 PROVE Rank(Phases[i]) = i
  BY <1>1, <1>4 DEF Rank
<1>6. /\ Rank(Phases[1]) = 1 /\ Rank(Phases[2]) = 2 /\ Rank(Phases[3]) = 3
      /\ Rank(Phases[4]) = 4 /\ Rank(Phases[5]) = 5 /\ Rank(Phases[6]) = 6
      /\ Rank(Phases[7]) = 7
  BY <1>5
<1>. QED
  BY <1>2, <1>6

\* What each resource being open says of the phase.
LEMMA OpenMeans ==
  ASSUME phase \in PhaseNames
  PROVE  /\ Open("stopping_worker") <=> phase \in {"serving", "shutting"}
         /\ Open("closing_push") <=> phase \in {"serving", "shutting", "stopping_worker"}
         /\ Open("closing_store") <=>
                phase \in {"serving", "shutting", "stopping_worker", "closing_push"}
<1>. USE RankOf DEF Open
<1>1. CASE phase = "serving"
  BY <1>1
<1>2. CASE phase = "shutting"
  BY <1>2
<1>3. CASE phase = "stopping_worker"
  BY <1>3
<1>4. CASE phase = "closing_push"
  BY <1>4
<1>5. CASE phase = "closing_store"
  BY <1>5
<1>6. CASE phase = "closing_pool"
  BY <1>6
<1>7. CASE phase = "exited"
  BY <1>7
<1>. QED
  BY <1>1, <1>2, <1>3, <1>4, <1>5, <1>6, <1>7 DEF PhaseNames

LEMMA WorkersInv ==
  ASSUME ProcessInv, Clean \/ StopCleaning \/ SendOrWait \/ StopSending
  PROVE  ProcessInv'
<1>1. UNCHANGED <<requests, limiter, main>>
  BY DEF Clean, StopCleaning, SendOrWait, StopSending
<1>2. MainTypes'
  BY <1>1 DEF ProcessInv, MainTypes, Clean, StopCleaning, SendOrWait, StopSending, main
<1>3. cleaner = "done" => cleaner' = "done"
  BY DEF Clean, StopCleaning, SendOrWait, StopSending
<1>4. sender = "done" => sender' = "done"
  BY DEF Clean, StopCleaning, SendOrWait, StopSending
<1>5. Order'
  BY <1>1, <1>3, <1>4 DEF ProcessInv, Order, Hijacked, main, requests
<1>. QED
  BY <1>1, <1>2, <1>5
     DEF ProcessInv, RequestTypes, Table, Attempts, AgesOf, SlotsTaken, Uploading,
         Connections, Queries, requests, limiter, main

\* Nothing is given up before those who use it have ended.
LEMMA MainInv ==
  ASSUME ProcessInv, Signal \/ ListenFails \/ Main
  PROVE  ProcessInv'
<1>1. UNCHANGED <<requests, limiter, workers>>
  BY DEF Signal, ListenFails, Main, Drained, ShutdownTimesOut, StopWorker, ClosePush,
         CloseStore, ClosePool, Proceed
<1>2. MainTypes' /\ Order'
  <2>. USE <1>1 DEF ProcessInv, MainTypes, PhaseNames, Order, Hijacked, Proceed, requests, workers
  <2>1. CASE Signal
    BY <2>1 DEF Signal
  <2>2. CASE ListenFails
    BY <2>2 DEF ListenFails
  <2>3. CASE Drained
    BY <2>3 DEF Drained
  <2>4. CASE ShutdownTimesOut
    BY <2>4 DEF ShutdownTimesOut
  <2>5. CASE StopWorker
    BY <2>5 DEF StopWorker
  <2>6. CASE ClosePush
    BY <2>6 DEF ClosePush
  <2>7. CASE CloseStore
    BY <2>7 DEF CloseStore
  <2>8. CASE ClosePool
    BY <2>8 DEF ClosePool
  <2>. QED
    BY <2>1, <2>2, <2>3, <2>4, <2>5, <2>6, <2>7, <2>8 DEF Main
<1>. QED
  BY <1>1, <1>2
     DEF ProcessInv, RequestTypes, Table, Attempts, AgesOf, SlotsTaken, Uploading,
         Connections, Queries, requests, limiter

-----------------------------------------------------------------------------
(* Every step.                                                             *)

LEMMA NextInv == ProcessInv /\ [Next]_vars => ProcessInv'
<1>. SUFFICES ASSUME ProcessInv, [Next]_vars PROVE ProcessInv'
  OBVIOUS
<1>1. ASSUME NEW c \in Clients, NEW a \in Addresses \cup {None}, NEW kind \in Kinds,
             Arrive(c, kind, a)
      PROVE  ProcessInv'
  BY <1>1, ArriveInv
<1>2. ASSUME NEW c \in Clients,
             \/ Allow(c) \/ Unauthorized(c) \/ Enter(c) \/ Return(c) \/ Panic(c)
             \/ Acquire(c) \/ Release(c)
      PROVE  ProcessInv'
  BY <1>2, AllowInv, UnauthorizedInv, EnterInv, ReturnInv, ConnectionsInv DEF Panic
<1>3. CASE Tick
  <2>1. UNCHANGED <<tokens, main, workers>>
    BY <1>3 DEF Tick
  <2>2. RequestTypes' /\ Uploading' = Uploading
    BY <1>3, TickRequests DEF ProcessInv
  <2>3. \A c \in Clients : (request'[c] = None <=> request[c] = None) /\ (Hijacked(c)' <=> Hijacked(c))
    BY <1>3, TickRequests DEF ProcessInv
  <2>4. Order'
    BY <2>1, <2>3 DEF ProcessInv, Order, main, workers
  <2>5. Table' /\ Attempts'
    BY <1>3, TickAttempts DEF ProcessInv
  <2>6. Connections'
    <3>1. connected' = connected /\ \A c \in Clients : Queries(c) => Queries(c)'
      BY <1>3, TickRequests DEF Tick, ProcessInv
    <3>. QED
      BY <3>1 DEF ProcessInv, Connections
  <2>. QED
    BY <2>1, <2>2, <2>4, <2>5, <2>6 DEF ProcessInv, SlotsTaken, MainTypes, main, workers
<1>4. CASE Clean \/ StopCleaning \/ SendOrWait \/ StopSending
  BY <1>4, WorkersInv
<1>5. CASE Signal \/ ListenFails \/ Main
  BY <1>5, MainInv
<1>6. CASE UNCHANGED vars
  BY <1>6
     DEF vars, requests, limiter, main, workers, ProcessInv, RequestTypes, Table, Attempts,
         AgesOf, SlotsTaken, Uploading, Connections, Queries, MainTypes, Order, Hijacked
<1>. QED
  BY <1>1, <1>2, <1>3, <1>4, <1>5, <1>6 DEF Next, Kinds

-----------------------------------------------------------------------------
(* The theorems.                                                           *)

\* The inductive invariant holds in every reachable state of the process.
THEOREM Invariant == Spec => []ProcessInv
<1>. QED
  BY InitInv, NextInv, PTL DEF Spec

\* The limiter's table stays within its bound, and every upload slot taken is
\* that of one request in its handler (allow, limitUploads).
THEOREM TypeCorrect == Spec => []TypeOK
<1>1. ProcessInv => TypeOK
  BY DEF ProcessInv, Table, Windows, SlotsTaken, Connections, TypeOK
<1>. QED
  BY <1>1, Invariant, PTL

\* However requests wait for the limiter's lock, whatever is purged from its
\* table and however many addresses there are, an address has no more than
\* 2 * Limit attempts in any time of a window's length less Delay.
THEOREM RateBounded == Spec => []RateBound
<1>1. ASSUME ProcessInv PROVE RateBound
  <2>1. ASSUME NEW a \in Addresses PROVE lately[a][2 * Limit + 1] >= Span
    <3>. DEFINE n == 2 * Limit + 1
    <3>1. n \in Last /\ Span \in Nat
      BY ServerProcessAssumption DEF Last, Span
    <3>2. CASE a \in DOMAIN windows
      <4>1. windows[a].attempts \in 1..Limit
        BY <3>2, <1>1 DEF ProcessInv, Table, Windows
      <4>2. n > windows[a].attempts + Limit
        BY <4>1, ServerProcessAssumption
      <4>. HIDE DEF n
      <4>3. lately[a][n] = Span
        BY <4>2, <3>1, <3>2, <1>1 DEF ProcessInv, Attempts, AgesOf
      <4>. QED
        BY <4>3, <3>1 DEF n
    <3>3. CASE a \notin DOMAIN windows
      <4>1. n > 0 + Limit
        BY ServerProcessAssumption
      <4>. HIDE DEF n
      <4>2. lately[a][n] = Span
        BY <4>1, <3>1, <3>3, <1>1 DEF ProcessInv, Attempts, AgesOf
      <4>. QED
        BY <4>2, <3>1 DEF n
    <3>. QED
      BY <3>2, <3>3
  <2>. QED
    BY <2>1 DEF RateBound
<1>. QED
  BY <1>1, Invariant, PTL

\* run() closes the store and the pool after the cleanup loop and the push
\* workers have ended, and after all requests unless Shutdown gave up waiting.
THEOREM ClosedInOrder == Spec => []ClosedLast
<1>1. ProcessInv => ClosedLast
  BY OpenMeans DEF ProcessInv, MainTypes, PhaseNames, Order, ClosedLast
<1>. QED
  BY <1>1, Invariant, PTL

=============================================================================
