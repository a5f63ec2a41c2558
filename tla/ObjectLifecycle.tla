--------------------------- MODULE ObjectLifecycle ---------------------------
(***************************************************************************)
(* The life of stored photo objects: uploads into logbooks and messages,   *)
(* appends, rotations, deletions of whole books and messages, and the      *)
(* cleanup workers, over two stores that share no transaction: PostgreSQL  *)
(* (logbooks, messages, *_photos, object_deletions) and the object store   *)
(* (a directory or an S3 bucket).                                          *)
(*                                                                         *)
(* Every database transaction is one action: each takes the row lock of    *)
(* the logbook or message it changes first (SELECT ... FOR UPDATE), or     *)
(* creates the row, or is a single statement.  The object store's calls    *)
(* are actions of their own, and everything interleaves with everything.   *)
(***************************************************************************)
EXTENDS Naturals, Sequences, FiniteSets

CONSTANTS
    Keys,           \* storage keys; each contains a UUID of its own
    Books,          \* logbook ids
    Messages,       \* message ids
    Requests,       \* slots for concurrent HTTP requests
    Workers,        \* cleanup workers, one per running instance
    None,           \* no key, no parent
    MaxPages,       \* MAX_PHOTOS_PER_LOGBOOK
    MaxUpload,      \* MAX_PHOTOS_PER_UPLOAD
    ClaimLimit,     \* objects one cleanup pass claims at most (100 in the code)
    TimelyRequests  \* no request, and no Put it left behind, outlives the
                    \* 24 hours of its reservation (REQUEST_TIMEOUT is at
                    \* most 15 minutes)

Parents == Books \cup Messages

ASSUME ConstantsAssumption ==
    /\ Books \cap Messages = {}
    /\ None \notin Keys \cup Parents
    /\ MaxPages \in Nat \ {0} /\ MaxUpload \in 1 .. MaxPages
    /\ ClaimLimit \in Nat \ {0}
    /\ TimelyRequests \in BOOLEAN

VARIABLES
    parent,     \* each logbook's or message's row: not there yet, its id
                \* generated, there, or deleted
    photos,     \* rows of logbook_photos and message_photos
    deletions,  \* the row of each key in object_deletions
    issued,     \* keys any upload has ever generated (a UUID comes once)
    store,      \* keys under which the object store holds an object
    late,       \* Puts whose request is over but which may still arrive
    pc,         \* where each request is
    job,        \* what each request was asked to do
    keys,       \* the keys it reserved, in upload order
    done,       \* how many of them it has stored
    batch,      \* keys each worker has claimed and not yet looked at
    erased      \* the key whose object the worker has just deleted

dbVars == <<parent, photos, deletions>>
requestVars == <<pc, job, keys, done>>
workerVars == <<batch, erased>>
vars == <<dbVars, issued, store, late, requestVars, workerVars>>

(***************************************************************************)
(* "held": reserved, not_before still in the future.  "due": not_before    *)
(* has passed.  "claimed": due and claimed by some worker, perhaps a dead  *)
(* one.                                                                    *)
(***************************************************************************)
RowStates == {"none", "held", "due", "claimed"}

Photo == [parent : Parents, page : Nat \ {0}, key : Keys]

Ops == {"logbook", "message", "append", "rotate"}

Job == [op : Ops \cup {"none"}, parent : Parents \cup {None},
        page : Nat, old : Keys \cup {None}, size : Nat]

NoJob == [op |-> "none", parent |-> None, page |-> 0, old |-> None, size |-> 0]

TypeOK ==
    /\ parent \in [Parents -> {"unborn", "named", "live", "gone"}]
    /\ photos \subseteq Photo
    /\ deletions \in [Keys -> RowStates]
    /\ issued \subseteq Keys
    /\ store \subseteq Keys
    /\ late \subseteq Keys
    /\ pc \in [Requests -> {"idle", "open", "reserve", "put"}]
    /\ job \in [Requests -> Job]
    /\ keys \in [Requests -> Seq(Keys)]
    /\ done \in [Requests -> Nat]
    /\ batch \in [Workers -> SUBSET Keys]
    /\ erased \in [Workers -> Keys \cup {None}]

Init ==
    /\ parent = [p \in Parents |-> "unborn"]
    /\ photos = {}
    /\ deletions = [k \in Keys |-> "none"]
    /\ issued = {}
    /\ store = {}
    /\ late = {}
    /\ pc = [r \in Requests |-> "idle"]
    /\ job = [r \in Requests |-> NoJob]
    /\ keys = [r \in Requests |-> <<>>]
    /\ done = [r \in Requests |-> 0]
    /\ batch = [w \in Workers |-> {}]
    /\ erased = [w \in Workers |-> None]

PhotosOf(p) == {ph \in photos : ph.parent = p}
AttachedKeys == {ph.key : ph \in photos}
KeysOf(r) == {keys[r][i] : i \in DOMAIN keys[r]}

-----------------------------------------------------------------------------
(* Requests: from the handler's checks to its transaction.                 *)

Begin(r, stage, j) ==
    /\ pc[r] = "idle"
    /\ pc' = [pc EXCEPT ![r] = stage]
    /\ job' = [job EXCEPT ![r] = j]
    /\ UNCHANGED <<photos, deletions, issued, store, late, keys, done, workerVars>>

\* A new logbook: its id is generated, its photos validated.
BeginLogbook(r, b, n) ==
    /\ n \in 1 .. MaxUpload
    /\ parent[b] = "unborn" /\ parent' = [parent EXCEPT ![b] = "named"]
    /\ Begin(r, "reserve", [op |-> "logbook", parent |-> b, page |-> 0,
                            old |-> None, size |-> n])

\* A new message; one without photos goes straight to its transaction.
BeginMessage(r, m, n) ==
    /\ n \in 0 .. MaxUpload
    /\ parent[m] = "unborn" /\ parent' = [parent EXCEPT ![m] = "named"]
    /\ Begin(r, IF n = 0 THEN "put" ELSE "reserve",
             [op |-> "message", parent |-> m, page |-> 0, old |-> None, size |-> n])

\* The first count is read outside any transaction and may be stale later.
BeginAppend(r, b, n) ==
    /\ n \in 1 .. MaxUpload
    /\ parent[b] = "live"
    /\ n + Cardinality(PhotosOf(b)) <= MaxPages
    /\ Begin(r, "reserve", [op |-> "append", parent |-> b, page |-> 0,
                            old |-> None, size |-> n])
    /\ UNCHANGED parent

\* A rotation remembers the photo's current key and works on that object.
BeginRotate(r, ph) ==
    /\ ph \in photos
    /\ Begin(r, "open", [op |-> "rotate", parent |-> ph.parent, page |-> ph.page,
                         old |-> ph.key, size |-> 1])
    /\ UNCHANGED parent

OpenOriginal(r) ==
    /\ pc[r] = "open" /\ job[r].old \in store
    /\ pc' = [pc EXCEPT ![r] = "reserve"]
    /\ UNCHANGED <<dbVars, issued, store, late, job, keys, done, workerVars>>

\* One INSERT reserves every key of the upload before the first byte is stored.
Reserve(r) ==
    /\ pc[r] = "reserve"
    /\ \E ks \in [1 .. job[r].size -> Keys \ issued] :
        /\ \A i, j \in DOMAIN ks : ks[i] = ks[j] => i = j
        /\ keys' = [keys EXCEPT ![r] = ks]
        /\ issued' = issued \cup {ks[i] : i \in DOMAIN ks}
        /\ deletions' = [k \in Keys |-> IF \E i \in DOMAIN ks : ks[i] = k
                                        THEN "held" ELSE deletions[k]]
    /\ pc' = [pc EXCEPT ![r] = "put"]
    /\ UNCHANGED <<parent, photos, store, late, job, done, workerVars>>

\* Objects are stored one after the other, in upload order.
Put(r) ==
    /\ pc[r] = "put" /\ done[r] < Len(keys[r])
    /\ store' = store \cup {keys[r][done[r] + 1]}
    /\ done' = [done EXCEPT ![r] = @ + 1]
    /\ UNCHANGED <<dbVars, issued, late, pc, job, keys, workerVars>>

-----------------------------------------------------------------------------
(* The publishing transactions.                                            *)

\* Mutant: any reservation will do, claimed or expired.
PromotableAny(K) == \A k \in K : deletions[k] # "none"

\* The reservations that the transaction may turn into photos: unclaimed and
\* not yet expired.
Promotable(K) == \A k \in K : deletions[k] = "held"

Finish(r) ==
    /\ pc' = [pc EXCEPT ![r] = "idle"]
    /\ job' = [job EXCEPT ![r] = NoJob]
    /\ keys' = [keys EXCEPT ![r] = <<>>]
    /\ done' = [done EXCEPT ![r] = 0]

\* Every object of request r is stored and its transaction is about to run.
Ready(r, op) == pc[r] = "put" /\ job[r].op = op /\ done[r] = Len(keys[r])

\* Mutant: pages numbered from zero.
NewPhotosFromZero(r, offset) ==
    {[parent |-> job[r].parent, page |-> offset + i - 1, key |-> keys[r][i]]
        : i \in DOMAIN keys[r]}

\* The photo rows of an upload, numbered on from offset.
NewPhotos(r, offset) ==
    {[parent |-> job[r].parent, page |-> offset + i, key |-> keys[r][i]]
        : i \in DOMAIN keys[r]}

\* Mutant: the reservations are counted, not deleted.
InsertKeepingReservations(r, offset) ==
    /\ Promotable(KeysOf(r))
    /\ photos' = photos \cup NewPhotos(r, offset)
    /\ UNCHANGED deletions

\* Reservations become photo rows; UNIQUE (logbook_id, page_number) holds.
InsertPhotos(r, offset) ==
    /\ Promotable(KeysOf(r))
    /\ \A new \in NewPhotos(r, offset), ph \in PhotosOf(job[r].parent) :
           ph.page # new.page
    /\ deletions' = [k \in Keys |-> IF k \in KeysOf(r) THEN "none" ELSE deletions[k]]
    /\ photos' = photos \cup NewPhotos(r, offset)

CreateLogbook(r) ==
    /\ Ready(r, "logbook")
    /\ InsertPhotos(r, 0)
    /\ parent' = [parent EXCEPT ![job[r].parent] = "live"]
    /\ Finish(r)
    /\ UNCHANGED <<issued, store, late, workerVars>>

CreateMessage(r) ==
    /\ Ready(r, "message")
    /\ InsertPhotos(r, 0)
    /\ parent' = [parent EXCEPT ![job[r].parent] = "live"]
    /\ Finish(r)
    /\ UNCHANGED <<issued, store, late, workerVars>>

\* Mutant: the limit is checked before the upload only.
AppendUnchecked(r) ==
    LET count == Cardinality(PhotosOf(job[r].parent)) IN
    /\ Ready(r, "append") /\ parent[job[r].parent] = "live"
    /\ InsertPhotos(r, count)
    /\ Finish(r)
    /\ UNCHANGED <<parent, issued, store, late, workerVars>>

\* Under the logbook's row lock the photos are counted again.
AppendPhotos(r) ==
    LET count == Cardinality(PhotosOf(job[r].parent)) IN
    /\ Ready(r, "append")
    /\ parent[job[r].parent] = "live"
    /\ count + Len(keys[r]) <= MaxPages
    /\ InsertPhotos(r, count)
    /\ Finish(r)
    /\ UNCHANGED <<parent, issued, store, late, workerVars>>

\* Mutant: the replaced object is not queued for deletion.
ReplaceForgettingOld(r) ==
    LET old == [parent |-> job[r].parent, page |-> job[r].page, key |-> job[r].old]
        new == [old EXCEPT !.key = keys[r][1]]
    IN
    /\ Ready(r, "rotate") /\ parent[job[r].parent] = "live" /\ old \in photos
    /\ Promotable(KeysOf(r))
    /\ photos' = (photos \ {old}) \cup {new}
    /\ deletions' = [deletions EXCEPT ![new.key] = "none"]
    /\ Finish(r)
    /\ UNCHANGED <<parent, issued, store, late, workerVars>>

\* The photo must still be the one that was read; the old object is queued.
ReplaceRotatedPhoto(r) ==
    LET old == [parent |-> job[r].parent, page |-> job[r].page, key |-> job[r].old]
        new == [old EXCEPT !.key = keys[r][1]]
    IN
    /\ Ready(r, "rotate")
    /\ parent[job[r].parent] = "live"
    /\ old \in photos
    /\ Promotable(KeysOf(r))
    /\ deletions[old.key] = "none"
    /\ photos' = (photos \ {old}) \cup {new}
    /\ deletions' = [deletions EXCEPT ![new.key] = "none", ![old.key] = "due"]
    /\ Finish(r)
    /\ UNCHANGED <<parent, issued, store, late, workerVars>>

\* Mutant: a failed request takes its reservations back.
AbandonReleasing(r) ==
    /\ pc[r] # "idle"
    /\ deletions' = [k \in Keys |-> IF k \in KeysOf(r) THEN "none" ELSE deletions[k]]
    /\ Finish(r)
    /\ UNCHANGED <<parent, photos, issued, store, late, workerVars>>

\* A request may end without its transaction, or before its reservations, at
\* any point: a failed check or call, ErrUploadExpired, ErrConflict, the
\* deadline, a crash of the process.  Its reservations stay, and a Put that was
\* under way may still reach the store.
Abandon(r) ==
    /\ pc[r] # "idle"
    /\ \/ late' = late
       \/ /\ pc[r] = "put" /\ done[r] < Len(keys[r])
          /\ late' = late \cup {keys[r][done[r] + 1]}
    /\ Finish(r)
    /\ UNCHANGED <<dbVars, issued, store, workerVars>>

Land(k) ==
    /\ k \in late
    /\ late' = late \ {k}
    /\ store' \in {store, store \cup {k}}
    /\ UNCHANGED <<dbVars, issued, requestVars, workerVars>>

-----------------------------------------------------------------------------
(* Deleting a logbook or a message queues all its objects at once.         *)

QueueAndRemove(p) ==
    LET K == {ph.key : ph \in PhotosOf(p)} IN
    /\ parent[p] = "live"
    /\ \A k \in K : deletions[k] = "none"
    /\ deletions' = [k \in Keys |-> IF k \in K THEN "due" ELSE deletions[k]]
    /\ photos' = photos \ PhotosOf(p)
    /\ parent' = [parent EXCEPT ![p] = "gone"]
    /\ UNCHANGED <<issued, store, late, requestVars, workerVars>>

DeleteLogbook(b) == b \in Books /\ QueueAndRemove(b)

DeleteMessage(m) == m \in Messages /\ QueueAndRemove(m)

-----------------------------------------------------------------------------
(* Time and the cleanup workers.                                           *)

\* The keys some request, or a Put left behind, may still write.
InUse == late \cup UNION {KeysOf(r) : r \in Requests}

Expire(k) ==
    /\ deletions[k] = "held"
    /\ TimelyRequests => k \notin InUse
    /\ deletions' = [deletions EXCEPT ![k] = "due"]
    /\ UNCHANGED <<parent, photos, issued, store, late, requestVars, workerVars>>

\* Mutant: a row that was claimed once is never claimed again.
ClaimableOnce == {k \in Keys : deletions[k] = "due"}

Claimable == {k \in Keys : deletions[k] \in {"due", "claimed"}}

\* PendingDeletions.  Rows that another transaction has locked are skipped, so
\* any part of what is due may be claimed; an earlier claim is no obstacle.
Claim(w, K) ==
    /\ batch[w] = {} /\ erased[w] = None
    /\ K # {} /\ K \subseteq Claimable /\ Cardinality(K) <= ClaimLimit
    /\ batch' = [batch EXCEPT ![w] = K]
    /\ deletions' = [k \in Keys |-> IF k \in K THEN "claimed" ELSE deletions[k]]
    /\ UNCHANGED <<parent, photos, issued, store, late, requestVars, erased>>

\* Deleting an object that is not there succeeds.
EraseObject(w, k) ==
    /\ k \in batch[w] /\ erased[w] = None
    /\ store' = store \ {k}
    /\ batch' = [batch EXCEPT ![w] = @ \ {k}]
    /\ erased' = [erased EXCEPT ![w] = k]
    /\ UNCHANGED <<dbVars, issued, late, requestVars>>

\* Mutant: the row is completed even though the store reported an error.
SkipThenComplete(w, k) ==
    /\ k \in batch[w] /\ erased[w] = None
    /\ store' \in {store, store \ {k}}
    /\ batch' = [batch EXCEPT ![w] = @ \ {k}]
    /\ erased' = [erased EXCEPT ![w] = k]
    /\ UNCHANGED <<dbVars, issued, late, requestVars>>

\* The store reports an error, whether or not it deleted the object; the row
\* stays for a later pass.
SkipObject(w, k) ==
    /\ k \in batch[w] /\ erased[w] = None
    /\ store' \in {store, store \ {k}}
    /\ batch' = [batch EXCEPT ![w] = @ \ {k}]
    /\ UNCHANGED <<dbVars, issued, late, requestVars, erased>>

CompleteDeletion(w) ==
    /\ erased[w] # None
    /\ deletions' = [deletions EXCEPT ![erased[w]] = IF @ = "claimed" THEN "none" ELSE @]
    /\ erased' = [erased EXCEPT ![w] = None]
    /\ UNCHANGED <<parent, photos, issued, store, late, requestVars, batch>>

\* The pass ends early: its 45 seconds are over, the statement failed, or the
\* process stopped.
StopWorker(w) ==
    /\ batch[w] # {} \/ erased[w] # None
    /\ batch' = [batch EXCEPT ![w] = {}]
    /\ erased' = [erased EXCEPT ![w] = None]
    /\ UNCHANGED <<dbVars, issued, store, late, requestVars>>

-----------------------------------------------------------------------------

\* All ids and keys of the instance are used up and nothing is left to do.
Quiescent ==
    /\ \A p \in Parents : parent[p] \in {"named", "gone"}
    /\ \A r \in Requests : pc[r] = "idle"
    /\ \A k \in Keys : deletions[k] = "none"
    /\ late = {}
    /\ UNCHANGED vars

RequestNext(r) ==
    \/ \E b \in Books, n \in 1 .. MaxUpload : BeginLogbook(r, b, n) \/ BeginAppend(r, b, n)
    \/ \E m \in Messages, n \in 0 .. MaxUpload : BeginMessage(r, m, n)
    \/ \E ph \in photos : BeginRotate(r, ph)
    \/ OpenOriginal(r)
    \/ Reserve(r)
    \/ Put(r)
    \/ CreateLogbook(r)
    \/ CreateMessage(r)
    \/ AppendPhotos(r)
    \/ ReplaceRotatedPhoto(r)
    \/ Abandon(r)

WorkerNext(w) ==
    \/ \E K \in SUBSET Keys : Claim(w, K)
    \/ \E k \in Keys : EraseObject(w, k) \/ SkipObject(w, k)
    \/ CompleteDeletion(w)
    \/ StopWorker(w)

Next ==
    \/ \E r \in Requests : RequestNext(r)
    \/ \E p \in Parents : DeleteLogbook(p) \/ DeleteMessage(p)
    \/ \E k \in Keys : Expire(k) \/ Land(k)
    \/ \E w \in Workers : WorkerNext(w)
    \/ Quiescent

Spec == Init /\ [][Next]_vars

(***************************************************************************)
(* Requests end (the deadline of the middleware), time passes, the cleanup *)
(* loop ticks every minute, and every operation of a pass that is tried    *)
(* again and again succeeds at last, with all due rows unlocked, however   *)
(* often passes are cut short in between.                                  *)
(***************************************************************************)
FullClaim(w) ==
    \E K \in SUBSET Claimable :
        /\ Cardinality(K) = ClaimLimit \/ K = Claimable
        /\ Claim(w, K)

Fairness ==
    /\ \A r \in Requests : WF_vars(Abandon(r))
    /\ \A k \in Keys : WF_vars(Land(k)) /\ WF_vars(Expire(k))
    /\ \A w \in Workers :
        /\ SF_vars(FullClaim(w))
        /\ \A k \in Keys : SF_vars(EraseObject(w, k))
        /\ SF_vars(CompleteDeletion(w))

FairSpec == Spec /\ Fairness

-----------------------------------------------------------------------------
(* What must hold.                                                         *)

\* The object of every photo a logbook or message shows is in the store: a
\* cleanup worker, a rotation or a crash never takes a published object away.
NoDanglingPhoto == AttachedKeys \subseteq store

\* A published object is not queued for deletion and no worker, not even one
\* that stalled since an earlier claim, still has it in its batch.  Were it
\* queued, the INSERT of Delete would also fail and the book could never be
\* deleted.
PublishedNeverClaimed ==
    \A k \in AttachedKeys :
        /\ deletions[k] = "none"
        /\ \A w \in Workers : k \notin batch[w] /\ erased[w] # k

\* No object is orphaned: whatever the store holds is shown by a photo or is
\* known to object_deletions, whichever request or worker died on the way.
NoLeakedObject ==
    \A k \in store : k \in AttachedKeys \/ deletions[k] # "none"

\* However many appends race, a logbook's pages are 1 .. n, each once, with n
\* within the limit; no two photos share an object, and no photo belongs to a
\* deleted logbook or message.
PagesConsistent ==
    /\ \A p \in Parents :
        /\ {ph.page : ph \in PhotosOf(p)} = 1 .. Cardinality(PhotosOf(p))
        /\ Cardinality(PhotosOf(p)) <= MaxPages
    /\ \A ph, qh \in photos : ph.key = qh.key => ph = qh
    /\ \A ph \in photos : parent[ph.parent] = "live"

\* A photo of a logbook that stays keeps its page: rotations change its object
\* only, and to one that no other step published or condemned before.
PagesStable ==
    [][\A ph \in photos : parent'[ph.parent] = "live" =>
          \E qh \in photos' :
              /\ qh.parent = ph.parent /\ qh.page = ph.page
              /\ qh.key # ph.key => deletions[qh.key] = "held" /\ deletions'[ph.key] = "due"
      ]_vars

\* Every object that no photo shows is deleted in the end, unless a photo comes
\* to show it, and its row in object_deletions goes too.
GarbageCollected ==
    \A k \in Keys :
        /\ (k \in store /\ k \notin AttachedKeys) ~> (k \notin store \/ k \in AttachedKeys)
        /\ (deletions[k] # "none") ~> (deletions[k] = "none")

(***************************************************************************)
(* The stage of a key in the abstract life of an object.                   *)
(***************************************************************************)
custody ==
    [k \in Keys |->
        IF k \notin issued THEN "fresh"
        ELSE IF k \in AttachedKeys THEN "published"
        ELSE IF deletions[k] = "held" THEN "pending"
        ELSE IF deletions[k] # "none" THEN "condemned"
        ELSE "erased"]

Custody == INSTANCE ObjectCustody WITH custody <- custody, store <- store

\* The requests, the transactions and the workers implement the abstract life
\* of an object (as long as requests are timely).
ImplementsCustody == Custody!Spec

=============================================================================
