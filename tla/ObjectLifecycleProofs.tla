------------------------ MODULE ObjectLifecycleProofs ------------------------
(***************************************************************************)
(* Proofs about ObjectLifecycle, for every set of keys, logbooks, messages,*)
(* requests and workers and every value of the limits; at the end, that it *)
(* implements ObjectCustody.                                               *)
(***************************************************************************)
EXTENDS ObjectLifecycle, FiniteSetTheorems, TLAPS

USE ConstantsAssumption DEF Parents

-----------------------------------------------------------------------------
(* Types.  A request that is under way has a job of its kind, and it holds *)
(* keys exactly from its reservation to its end.                           *)

RequestsOK ==
    \A r \in Requests :
        /\ pc[r] # "idle" => job[r].parent \in Parents /\ job[r].op \in Ops
        /\ job[r].op = "rotate" => /\ job[r].page \in Nat \ {0}
                                   /\ job[r].old \in Keys
                                   /\ job[r].size = 1
        /\ pc[r] = "put" => Len(keys[r]) = job[r].size
        /\ pc[r] # "put" => keys[r] = <<>> /\ done[r] = 0
        /\ done[r] <= Len(keys[r])

TypeInv == TypeOK /\ RequestsOK /\ IsFiniteSet(photos)

\* It holds at the start.
LEMMA InitType == Init => TypeInv
<1>1. Init => TypeOK
  BY DEF Init, TypeOK, RowStates, Job, NoJob
<1>2. Init => RequestsOK
  BY DEF Init, RequestsOK, NoJob
<1>3. Init => IsFiniteSet(photos)
  BY FS_EmptySet DEF Init
<1>. QED
  BY <1>1, <1>2, <1>3 DEF TypeInv

\* The requests' part of TypeInv survives a step that starts request r.
LEMMA BeginType ==
  ASSUME TypeInv, NEW r \in Requests, NEW j \in Job, NEW stage \in {"open", "reserve", "put"},
         j.parent \in Parents, j.op \in Ops,
         j.op = "rotate" => j.page \in Nat \ {0} /\ j.old \in Keys /\ j.size = 1,
         stage = "put" => j.size = 0,
         Begin(r, stage, j),
         parent' \in [Parents -> {"unborn", "named", "live", "gone"}]
  PROVE  TypeInv'
<1>1. TypeOK'
  BY DEF TypeInv, TypeOK, Begin, workerVars
<1>2. RequestsOK'
  BY DEF TypeInv, TypeOK, RequestsOK, Begin
<1>3. IsFiniteSet(photos')
  BY DEF TypeInv, Begin
<1>. QED
  BY <1>1, <1>2, <1>3 DEF TypeInv

\* It survives a step that ends request r.
LEMMA FinishType ==
  ASSUME TypeInv, NEW r \in Requests, Finish(r)
  PROVE  /\ pc' \in [Requests -> {"idle", "open", "reserve", "put"}]
         /\ job' \in [Requests -> Job]
         /\ keys' \in [Requests -> Seq(Keys)]
         /\ done' \in [Requests -> Nat]
         /\ RequestsOK'
<1>1. NoJob \in Job
  BY DEF NoJob, Job
<1>2. <<>> \in Seq(Keys)
  OBVIOUS
<1>3. RequestsOK'
  BY DEF TypeInv, TypeOK, RequestsOK, Finish, NoJob
<1>. QED
  BY <1>1, <1>2, <1>3 DEF TypeInv, TypeOK, Finish

\* The rows a transaction inserts are photos, and finitely many.
LEMMA NewPhotosType ==
  ASSUME TypeInv, NEW r \in Requests, NEW offset \in Nat, job[r].parent \in Parents
  PROVE  NewPhotos(r, offset) \subseteq Photo /\ IsFiniteSet(NewPhotos(r, offset))
<1>. DEFINE row(i) == [parent |-> job[r].parent, page |-> offset + i, key |-> keys[r][i]]
            f == [i \in 1 .. Len(keys[r]) |-> row(i)]
<1>1. keys[r] \in Seq(Keys) /\ Len(keys[r]) \in Nat /\ DOMAIN keys[r] = 1 .. Len(keys[r])
  BY DEF TypeInv, TypeOK
<1>2. \A i \in 1 .. Len(keys[r]) : row(i) \in Photo
  BY <1>1 DEF Photo
<1>3. f \in Surjection(1 .. Len(keys[r]), NewPhotos(r, offset))
  BY <1>1 DEF NewPhotos, Surjection
<1>4. IsFiniteSet(1 .. Len(keys[r]))
  <2>1. 1 \in Int /\ Len(keys[r]) \in Int
    BY <1>1
  <2>. QED
    BY <2>1, FS_Interval
<1>. QED
  BY <1>1, <1>2, <1>3, <1>4, FS_Surjection DEF NewPhotos

\* Inserting an upload's photos keeps the tables well typed.
LEMMA InsertType ==
  ASSUME TypeInv, NEW r \in Requests, NEW offset \in Nat,
         job[r].parent \in Parents, InsertPhotos(r, offset)
  PROVE  /\ photos' \subseteq Photo /\ IsFiniteSet(photos')
         /\ deletions' \in [Keys -> RowStates]
<1>1. photos' = photos \cup NewPhotos(r, offset)
  BY DEF InsertPhotos
<1>2. IsFiniteSet(photos')
  BY <1>1, NewPhotosType, FS_Union DEF TypeInv
<1>3. photos' \subseteq Photo
  BY <1>1, NewPhotosType DEF TypeInv, TypeOK
<1>. QED
  BY <1>2, <1>3 DEF TypeInv, TypeOK, InsertPhotos, RowStates

\* The photos of a parent can be counted.
LEMMA CountType == ASSUME TypeInv, NEW p PROVE Cardinality(PhotosOf(p)) \in Nat
<1>1. PhotosOf(p) \in SUBSET photos
  BY DEF PhotosOf
<1>. QED
  BY <1>1, FS_Subset, FS_CardinalityType DEF TypeInv

\* Every step keeps TypeInv.
LEMMA NextType == TypeInv /\ [Next]_vars => TypeInv'
<1>. SUFFICES ASSUME TypeInv, [Next]_vars PROVE TypeInv'
  OBVIOUS
<1>. USE DEF TypeInv
<1>1. ASSUME NEW r \in Requests, NEW b \in Books, NEW n \in 1 .. MaxUpload,
             BeginLogbook(r, b, n)
      PROVE  TypeInv'
  <2>. DEFINE j == [op |-> "logbook", parent |-> b, page |-> 0, old |-> None, size |-> n]
  <2>1. j \in Job /\ j.parent \in Parents /\ j.op \in Ops /\ j.op # "rotate"
    BY DEF Job, Ops
  <2>2. Begin(r, "reserve", j)
    BY <1>1 DEF BeginLogbook
  <2>3. parent' \in [Parents -> {"unborn", "named", "live", "gone"}]
    BY <1>1 DEF BeginLogbook, TypeOK
  <2>. HIDE DEF j
  <2>. QED
    BY <2>1, <2>2, <2>3, BeginType
<1>2. ASSUME NEW r \in Requests, NEW m \in Messages, NEW n \in 0 .. MaxUpload,
             BeginMessage(r, m, n)
      PROVE  TypeInv'
  <2>. DEFINE j == [op |-> "message", parent |-> m, page |-> 0, old |-> None, size |-> n]
              stage == IF n = 0 THEN "put" ELSE "reserve"
  <2>1. /\ j \in Job /\ j.parent \in Parents /\ j.op \in Ops /\ j.op # "rotate"
        /\ stage \in {"open", "reserve", "put"} /\ (stage = "put" => j.size = 0)
    BY DEF Job, Ops
  <2>2. Begin(r, stage, j)
    BY <1>2 DEF BeginMessage
  <2>3. parent' \in [Parents -> {"unborn", "named", "live", "gone"}]
    BY <1>2 DEF BeginMessage, TypeOK
  <2>. HIDE DEF j, stage
  <2>. QED
    BY <2>1, <2>2, <2>3, BeginType
<1>3. ASSUME NEW r \in Requests, NEW b \in Books, NEW n \in 1 .. MaxUpload,
             BeginAppend(r, b, n)
      PROVE  TypeInv'
  <2>. DEFINE j == [op |-> "append", parent |-> b, page |-> 0, old |-> None, size |-> n]
  <2>1. j \in Job /\ j.parent \in Parents /\ j.op \in Ops /\ j.op # "rotate"
    BY DEF Job, Ops
  <2>2. Begin(r, "reserve", j)
    BY <1>3 DEF BeginAppend
  <2>3. parent' \in [Parents -> {"unborn", "named", "live", "gone"}]
    BY <1>3 DEF BeginAppend, TypeOK
  <2>. HIDE DEF j
  <2>. QED
    BY <2>1, <2>2, <2>3, BeginType
<1>4. ASSUME NEW r \in Requests, NEW ph \in photos, BeginRotate(r, ph)
      PROVE  TypeInv'
  <2>. DEFINE j == [op |-> "rotate", parent |-> ph.parent, page |-> ph.page,
                    old |-> ph.key, size |-> 1]
  <2>1. ph \in Photo
    BY DEF TypeOK
  <2>2. /\ j \in Job /\ j.parent \in Parents /\ j.op \in Ops
        /\ j.page \in Nat \ {0} /\ j.old \in Keys /\ j.size = 1
    BY <2>1 DEF Job, Ops, Photo
  <2>3. Begin(r, "open", j)
    BY <1>4 DEF BeginRotate
  <2>4. parent' \in [Parents -> {"unborn", "named", "live", "gone"}]
    BY <1>4 DEF BeginRotate, TypeOK
  <2>. HIDE DEF j
  <2>. QED
    BY <2>2, <2>3, <2>4, BeginType
<1>5. ASSUME NEW r \in Requests, OpenOriginal(r)
      PROVE  TypeInv'
  BY <1>5 DEF OpenOriginal, TypeOK, RequestsOK, dbVars, workerVars
<1>6. ASSUME NEW r \in Requests, Reserve(r)
      PROVE  TypeInv'
  <2>. PICK ks \in [1 .. job[r].size -> Keys \ issued] :
          /\ keys' = [keys EXCEPT ![r] = ks]
          /\ issued' = issued \cup {ks[i] : i \in DOMAIN ks}
          /\ deletions' = [k \in Keys |-> IF \E i \in DOMAIN ks : ks[i] = k
                                          THEN "held" ELSE deletions[k]]
    BY <1>6 DEF Reserve
  <2>1. job[r].size \in Nat
    BY DEF TypeOK, Job
  <2>2. ks \in Seq(Keys) /\ Len(ks) = job[r].size
    BY <2>1
  <2>3. TypeOK'
    BY <1>6, <2>2 DEF Reserve, TypeOK, RowStates, workerVars
  <2>4. RequestsOK'
    BY <1>6, <2>1, <2>2 DEF Reserve, TypeOK, RequestsOK
  <2>. QED
    BY <1>6, <2>3, <2>4 DEF Reserve
<1>7. ASSUME NEW r \in Requests, Put(r)
      PROVE  TypeInv'
  <2>1. keys[r][done[r] + 1] \in Keys
    BY <1>7 DEF Put, TypeOK
  <2>2. TypeOK'
    BY <1>7, <2>1 DEF Put, TypeOK, dbVars, workerVars
  <2>3. RequestsOK'
    BY <1>7 DEF Put, TypeOK, RequestsOK
  <2>. QED
    BY <1>7, <2>2, <2>3 DEF Put, dbVars
<1>8. ASSUME NEW r \in Requests, CreateLogbook(r) \/ CreateMessage(r)
      PROVE  TypeInv'
  <2>1. job[r].parent \in Parents
    BY <1>8 DEF CreateLogbook, CreateMessage, Ready, RequestsOK
  <2>2. InsertPhotos(r, 0) /\ Finish(r)
    BY <1>8 DEF CreateLogbook, CreateMessage
  <2>. QED
    BY <1>8, <2>1, <2>2, InsertType, FinishType
       DEF CreateLogbook, CreateMessage, TypeOK, workerVars
<1>9. ASSUME NEW r \in Requests, AppendPhotos(r)
      PROVE  TypeInv'
  <2>1. job[r].parent \in Parents
    BY <1>9 DEF AppendPhotos, Ready, RequestsOK
  <2>2. Finish(r) /\ InsertPhotos(r, Cardinality(PhotosOf(job[r].parent)))
    BY <1>9 DEF AppendPhotos
  <2>3. Cardinality(PhotosOf(job[r].parent)) \in Nat
    BY CountType
  <2>. QED
    BY <1>9, <2>1, <2>2, <2>3, InsertType, FinishType
       DEF AppendPhotos, TypeOK, workerVars
<1>10. ASSUME NEW r \in Requests, ReplaceRotatedPhoto(r)
       PROVE  TypeInv'
  <2>. DEFINE old == [parent |-> job[r].parent, page |-> job[r].page, key |-> job[r].old]
              new == [old EXCEPT !.key = keys[r][1]]
  <2>1. /\ photos' = (photos \ {old}) \cup {new}
        /\ deletions' = [deletions EXCEPT ![new.key] = "none", ![old.key] = "due"]
        /\ Finish(r)
    BY <1>10 DEF ReplaceRotatedPhoto
  <2>2. new \in Photo
    <3>1. keys[r] \in Seq(Keys) /\ Len(keys[r]) = 1
      BY <1>10 DEF ReplaceRotatedPhoto, Ready, RequestsOK, TypeOK
    <3>2. keys[r][1] \in Keys
      BY <3>1
    <3>. QED
      BY <1>10, <3>2 DEF ReplaceRotatedPhoto, Ready, RequestsOK, Photo
  <2>3. IsFiniteSet(photos')
    BY <2>1, FS_RemoveElement, FS_AddElement
  <2>4. photos' \subseteq Photo /\ deletions' \in [Keys -> RowStates]
    BY <2>1, <2>2 DEF TypeOK, RowStates
  <2>. QED
    BY <1>10, <2>1, <2>3, <2>4, FinishType DEF ReplaceRotatedPhoto, TypeOK, workerVars
<1>11. ASSUME NEW r \in Requests, Abandon(r)
       PROVE  TypeInv'
  <2>1. /\ keys[r] \in Seq(Keys) /\ done[r] \in Nat /\ late \subseteq Keys
        /\ late' = late \/ (done[r] < Len(keys[r]) /\ late' = late \cup {keys[r][done[r] + 1]})
    BY <1>11 DEF Abandon, TypeOK
  <2>2. late' \subseteq Keys
    BY <2>1
  <2>. QED
    BY <1>11, <2>2, FinishType DEF Abandon, TypeOK, dbVars, workerVars
<1>12. ASSUME NEW p \in Parents, DeleteLogbook(p) \/ DeleteMessage(p)
       PROVE  TypeInv'
  <2>1. QueueAndRemove(p)
    BY <1>12 DEF DeleteLogbook, DeleteMessage
  <2>2. photos' \in SUBSET photos /\ IsFiniteSet(photos')
    BY <2>1, FS_Subset DEF QueueAndRemove
  <2>3. TypeOK'
    BY <2>1, <2>2 DEF QueueAndRemove, TypeOK, RowStates, requestVars, workerVars
  <2>4. RequestsOK'
    BY <2>1 DEF QueueAndRemove, RequestsOK, requestVars
  <2>. QED
    BY <2>2, <2>3, <2>4
<1>13. ASSUME NEW k \in Keys, Expire(k) \/ Land(k)
       PROVE  TypeInv'
  <2>1. ASSUME Expire(k)
        PROVE  TypeInv'
    <3>1. deletions' \in [Keys -> RowStates]
      BY <2>1 DEF Expire, TypeOK, RowStates
    <3>2. TypeOK'
      BY <2>1, <3>1 DEF Expire, TypeOK, requestVars, workerVars
    <3>3. RequestsOK' /\ IsFiniteSet(photos')
      BY <2>1 DEF Expire, RequestsOK, requestVars
    <3>. QED
      BY <3>2, <3>3
  <2>2. ASSUME Land(k)
        PROVE  TypeInv'
    <3>1. TypeOK'
      BY <2>2 DEF Land, TypeOK, dbVars, requestVars, workerVars
    <3>2. RequestsOK' /\ IsFiniteSet(photos')
      BY <2>2 DEF Land, RequestsOK, dbVars, requestVars
    <3>. QED
      BY <3>1, <3>2
  <2>. QED
    BY <1>13, <2>1, <2>2
<1>14. ASSUME NEW w \in Workers, WorkerNext(w)
       PROVE  TypeInv'
  <2>1. ASSUME NEW K \in SUBSET Keys, Claim(w, K)
        PROVE  TypeInv'
    BY <2>1 DEF Claim, TypeOK, RowStates, RequestsOK, requestVars
  <2>2. ASSUME NEW k \in Keys, EraseObject(w, k)
        PROVE  TypeInv'
    BY <2>2 DEF EraseObject, TypeOK, RequestsOK, dbVars, requestVars
  <2>3. ASSUME NEW k \in Keys, SkipObject(w, k)
        PROVE  TypeInv'
    BY <2>3 DEF SkipObject, TypeOK, RequestsOK, dbVars, requestVars
  <2>4. ASSUME CompleteDeletion(w)
        PROVE  TypeInv'
    BY <2>4 DEF CompleteDeletion, TypeOK, RowStates, RequestsOK, requestVars
  <2>5. ASSUME StopWorker(w)
        PROVE  TypeInv'
    BY <2>5 DEF StopWorker, TypeOK, RequestsOK, dbVars, requestVars
  <2>. QED
    BY <1>14, <2>1, <2>2, <2>3, <2>4, <2>5 DEF WorkerNext
<1>15. CASE UNCHANGED vars
  BY <1>15 DEF vars, dbVars, requestVars, workerVars, TypeOK, RequestsOK
<1>. QED
  BY <1>1, <1>2, <1>3, <1>4, <1>5, <1>6, <1>7, <1>8, <1>9, <1>10, <1>11, <1>12,
     <1>13, <1>14, <1>15 DEF Next, RequestNext, Quiescent

\* Every variable keeps its type, and requests keep the shape described above.
THEOREM TypeCorrect == Spec => []TypeOK
<1>1. TypeInv => TypeOK
  BY DEF TypeInv
<1>. QED
  BY <1>1, InitType, NextType, PTL DEF Spec

-----------------------------------------------------------------------------
(* The invariant behind NoDanglingPhoto and PublishedNeverClaimed.  Keys   *)
(* are issued once (Issued), so a key belongs to one request or one photo  *)
(* (Owned); what a request has stored stays stored while its reservation   *)
(* is held (Stored), because workers only have keys that are neither held  *)
(* nor published (Workable).                                               *)

Issued ==
    /\ \A ph \in photos : ph.key \in issued
    /\ \A r \in Requests : \A i \in DOMAIN keys[r] : keys[r][i] \in issued
    /\ \A k \in Keys : deletions[k] # "none" => k \in issued
    /\ late \subseteq issued

Owned ==
    /\ \A ph, qh \in photos : ph.key = qh.key => ph = qh
    /\ \A r \in Requests : \A i, j \in DOMAIN keys[r] : keys[r][i] = keys[r][j] => i = j
    /\ \A r \in Requests : \A i \in DOMAIN keys[r], ph \in photos : keys[r][i] # ph.key
    /\ \A r, q \in Requests : \A i \in DOMAIN keys[r], j \in DOMAIN keys[q] :
          keys[r][i] = keys[q][j] => r = q

Stored ==
    \A r \in Requests : \A i \in DOMAIN keys[r] :
        i <= done[r] /\ deletions[keys[r][i]] = "held" => keys[r][i] \in store

Workable ==
    \A w \in Workers, k \in Keys :
        k \in batch[w] \/ k = erased[w] =>
            /\ k \in issued
            /\ deletions[k] # "held"
            /\ \A ph \in photos : ph.key # k

Published == \A ph \in photos : deletions[ph.key] = "none" /\ ph.key \in store

SafeInv == Issued /\ Owned /\ Stored /\ Workable /\ Published

\* It holds at the start.
LEMMA InitSafe == Init => SafeInv
BY DEF Init, SafeInv, Issued, Owned, Stored, Workable, Published

\* Every step keeps SafeInv.
LEMMA NextSafe == TypeInv /\ SafeInv /\ [Next]_vars => SafeInv'
<1>. SUFFICES ASSUME TypeInv, SafeInv, [Next]_vars PROVE SafeInv'
  OBVIOUS
<1>. USE DEF TypeInv, SafeInv
<1>1. ASSUME NEW r \in Requests, NEW stage, NEW j, Begin(r, stage, j)
      PROVE  SafeInv'
  BY <1>1 DEF Begin, Issued, Owned, Stored, Workable, Published, workerVars
<1>2. ASSUME NEW r \in Requests, OpenOriginal(r)
      PROVE  SafeInv'
  BY <1>2 DEF OpenOriginal, Issued, Owned, Stored, Workable, Published, dbVars, workerVars
<1>3. ASSUME NEW r \in Requests, Reserve(r)
      PROVE  SafeInv'
  <2>. PICK ks \in [1 .. job[r].size -> Keys \ issued] :
          /\ \A i, j \in DOMAIN ks : ks[i] = ks[j] => i = j
          /\ keys' = [keys EXCEPT ![r] = ks]
          /\ issued' = issued \cup {ks[i] : i \in DOMAIN ks}
          /\ deletions' = [k \in Keys |-> IF \E i \in DOMAIN ks : ks[i] = k
                                          THEN "held" ELSE deletions[k]]
    BY <1>3 DEF Reserve
  <2>1. /\ UNCHANGED <<photos, store, late, done, batch, erased>>
        /\ done[r] = 0
        /\ photos \subseteq Photo /\ deletions \in [Keys -> RowStates]
        /\ \A i \in DOMAIN ks : ks[i] \in Keys \ issued /\ i >= 1
    BY <1>3 DEF Reserve, RequestsOK, TypeOK, workerVars
  <2>2. Issued'
    BY <2>1 DEF Issued, TypeOK
  <2>3. Owned'
    BY <2>1 DEF Issued, Owned, TypeOK
  <2>4. Stored'
    BY <2>1 DEF Issued, Stored, TypeOK
  <2>5. Workable'
    BY <2>1 DEF Workable
  <2>6. Published'
    BY <2>1 DEF Issued, Published, Photo
  <2>. QED
    BY <2>2, <2>3, <2>4, <2>5, <2>6
<1>4. ASSUME NEW r \in Requests, Put(r)
      PROVE  SafeInv'
  <2>1. UNCHANGED <<photos, deletions, issued, late, keys, batch, erased>>
    BY <1>4 DEF Put, dbVars, workerVars
  <2>2. Stored'
    BY <1>4, <2>1 DEF Put, Stored, TypeOK
  <2>3. Published'
    BY <1>4, <2>1 DEF Put, Published
  <2>4. Issued' /\ Owned' /\ Workable'
    BY <2>1 DEF Issued, Owned, Workable
  <2>. QED
    BY <2>2, <2>3, <2>4
<1>5. ASSUME NEW r \in Requests, NEW offset \in Nat, InsertPhotos(r, offset), Finish(r),
             done[r] = Len(keys[r]), UNCHANGED <<issued, store, late, workerVars>>
      PROVE  SafeInv'
  <2>1. /\ photos' = photos \cup NewPhotos(r, offset)
        /\ \A ph \in NewPhotos(r, offset) : \E i \in DOMAIN keys[r] :
              ph = [parent |-> job[r].parent, page |-> offset + i, key |-> keys[r][i]]
        /\ \A i \in DOMAIN keys[r] :
              keys[r][i] \in Keys /\ deletions[keys[r][i]] = "held" /\ keys[r][i] \in store
    BY <1>5 DEF InsertPhotos, NewPhotos, Promotable, KeysOf, Stored, TypeOK
  <2>2. /\ deletions' = [k \in Keys |-> IF k \in KeysOf(r) THEN "none" ELSE deletions[k]]
        /\ \A k : k \in KeysOf(r) <=> \E i \in DOMAIN keys[r] : keys[r][i] = k
        /\ \A q \in Requests : keys'[q] = IF q = r THEN <<>> ELSE keys[q]
        /\ \A q \in Requests : done'[q] = IF q = r THEN 0 ELSE done[q]
        /\ UNCHANGED <<issued, store, late, batch, erased>>
        /\ photos \subseteq Photo
        /\ \A q \in Requests : \A i \in DOMAIN keys[q] : keys[q][i] \in Keys
    BY <1>5 DEF InsertPhotos, KeysOf, Finish, TypeOK, workerVars
  <2>3. Issued'
    BY <2>1, <2>2 DEF Issued
  <2>4. Owned'
    BY <2>1, <2>2 DEF Owned
  <2>5. Stored'
    BY <2>1, <2>2 DEF Stored
  <2>6. Workable'
    BY <2>1, <2>2 DEF Workable
  <2>7. Published'
    BY <2>1, <2>2 DEF Published, Photo
  <2>. QED
    BY <2>3, <2>4, <2>5, <2>6, <2>7
<1>6. ASSUME NEW r \in Requests, ReplaceRotatedPhoto(r)
      PROVE  SafeInv'
  <2>. DEFINE old == [parent |-> job[r].parent, page |-> job[r].page, key |-> job[r].old]
              new == [old EXCEPT !.key = keys[r][1]]
  <2>1. /\ old \in photos /\ new.key = keys[r][1] /\ old.key = job[r].old
        /\ photos' = (photos \ {old}) \cup {new}
        /\ deletions' = [deletions EXCEPT ![new.key] = "none", ![old.key] = "due"]
        /\ UNCHANGED <<issued, store, late, batch, erased>>
    BY <1>6 DEF ReplaceRotatedPhoto, workerVars
  <2>2. /\ 1 \in DOMAIN keys[r] /\ keys[r][1] \in Keys
        /\ deletions[keys[r][1]] = "held" /\ keys[r][1] \in store /\ old.key \in Keys
    <3>1. keys[r] \in Seq(Keys) /\ Len(keys[r]) = 1 /\ done[r] = 1 /\ job[r].old \in Keys
      BY <1>6 DEF ReplaceRotatedPhoto, Ready, RequestsOK, TypeOK
    <3>2. 1 \in DOMAIN keys[r] /\ keys[r][1] \in Keys
      BY <3>1
    <3>3. deletions[keys[r][1]] = "held"
      BY <1>6, <3>2 DEF ReplaceRotatedPhoto, Promotable, KeysOf
    <3>. QED
      BY <3>1, <3>2, <3>3 DEF Stored
  <2>3. /\ \A q \in Requests : keys'[q] = IF q = r THEN <<>> ELSE keys[q]
        /\ \A q \in Requests : done'[q] = IF q = r THEN 0 ELSE done[q]
        /\ photos \subseteq Photo /\ deletions \in [Keys -> RowStates]
        /\ \A q \in Requests : keys[q] \in Seq(Keys)
    BY <1>6 DEF ReplaceRotatedPhoto, Finish, TypeOK
  <2>. HIDE DEF old, new
  <2>4. Issued'
    BY <2>1, <2>2, <2>3 DEF Issued
  <2>5. Owned'
    BY <2>1, <2>2, <2>3 DEF Owned
  <2>6. Stored'
    BY <2>1, <2>2, <2>3 DEF Stored
  <2>7. Workable'
    BY <2>1, <2>2, <2>3 DEF Workable
  <2>8. Published'
    BY <2>1, <2>2, <2>3 DEF Published, Owned, Photo
  <2>. QED
    BY <2>4, <2>5, <2>6, <2>7, <2>8
<1>7. ASSUME NEW r \in Requests, Abandon(r)
      PROVE  SafeInv'
  <2>1. /\ \A q \in Requests : keys'[q] = IF q = r THEN <<>> ELSE keys[q]
        /\ \A q \in Requests : done'[q] = IF q = r THEN 0 ELSE done[q]
        /\ UNCHANGED <<photos, deletions, issued, store, batch, erased>>
    BY <1>7 DEF Abandon, Finish, TypeOK, dbVars, workerVars
  <2>2. late' \subseteq issued
    <3>1. ASSUME done[r] < Len(keys[r])
          PROVE  done[r] + 1 \in DOMAIN keys[r]
      BY <3>1 DEF TypeOK
    <3>. QED
      BY <1>7, <3>1 DEF Abandon, Issued
  <2>3. Issued'
    BY <2>1, <2>2 DEF Issued
  <2>4. Owned' /\ Workable' /\ Published'
    BY <2>1 DEF Owned, Workable, Published
  <2>5. Stored'
    BY <2>1 DEF Stored
  <2>. QED
    BY <2>3, <2>4, <2>5
<1>8. ASSUME NEW p \in Parents, QueueAndRemove(p)
      PROVE  SafeInv'
  <2>1. /\ photos' = {ph \in photos : ph.parent # p}
        /\ \A k \in Keys : deletions'[k] = deletions[k] \/ deletions'[k] = "due"
        /\ \A k \in Keys : deletions'[k] # deletions[k] =>
              \E ph \in photos : ph.parent = p /\ ph.key = k
        /\ UNCHANGED <<issued, store, late, keys, done, batch, erased>>
        /\ \A ph \in photos : ph.key \in Keys
        /\ \A q \in Requests : \A i \in DOMAIN keys[q] : keys[q][i] \in Keys
    BY <1>8 DEF QueueAndRemove, PhotosOf, TypeOK, Photo, requestVars, workerVars
  <2>2. Issued' /\ Owned' /\ Workable'
    BY <2>1 DEF Issued, Owned, Workable
  <2>3. Stored'
    BY <2>1 DEF Stored
  <2>4. Published'
    BY <2>1 DEF Published, Owned
  <2>. QED
    BY <2>2, <2>3, <2>4
<1>9. ASSUME NEW k \in Keys, Land(k)
      PROVE  SafeInv'
  BY <1>9 DEF Land, Issued, Owned, Stored, Workable, Published, dbVars, requestVars, workerVars
<1>10. ASSUME NEW k \in Keys, Expire(k)
       PROVE  SafeInv'
  BY <1>10 DEF Expire, Issued, Owned, Stored, Workable, Published, TypeOK, Photo,
               requestVars, workerVars
<1>11. ASSUME NEW w \in Workers, NEW K \in SUBSET Keys, Claim(w, K)
       PROVE  SafeInv'
  <2>1. /\ \A k \in K : deletions[k] \in {"due", "claimed"}
        /\ \A v \in Workers : batch'[v] = IF v = w THEN K ELSE batch[v]
        /\ \A k \in Keys : deletions'[k] = IF k \in K THEN "claimed" ELSE deletions[k]
        /\ UNCHANGED <<photos, issued, store, late, keys, done, erased>>
        /\ \A ph \in photos : ph.key \in Keys
        /\ \A q \in Requests : \A i \in DOMAIN keys[q] : keys[q][i] \in Keys
        /\ erased[w] = None
    BY <1>11 DEF Claim, Claimable, TypeOK, Photo, requestVars
  <2>2. Issued' /\ Owned'
    BY <2>1 DEF Issued, Owned
  <2>3. Stored' /\ Published'
    BY <2>1 DEF Stored, Published
  <2>4. Workable'
    BY <2>1 DEF Workable, Issued, Published
  <2>. QED
    BY <2>2, <2>3, <2>4
<1>12. ASSUME NEW w \in Workers, NEW k \in Keys, EraseObject(w, k) \/ SkipObject(w, k)
       PROVE  SafeInv'
  <2>1. /\ k \in batch[w] /\ store' \in {store, store \ {k}}
        /\ \A v \in Workers : batch'[v] \subseteq batch[v]
        /\ \A v \in Workers : erased'[v] = erased[v] \/ (v = w /\ erased'[v] = k)
        /\ UNCHANGED <<photos, deletions, issued, late, keys, done>>
    BY <1>12 DEF EraseObject, SkipObject, TypeOK, dbVars, requestVars
  <2>2. Issued' /\ Owned'
    BY <2>1 DEF Issued, Owned
  <2>3. Stored' /\ Published'
    BY <2>1 DEF Stored, Published, Workable
  <2>4. Workable'
    BY <2>1 DEF Workable
  <2>. QED
    BY <2>2, <2>3, <2>4
<1>13. ASSUME NEW w \in Workers, CompleteDeletion(w)
       PROVE  SafeInv'
  <2>1. /\ \A k \in Keys : \/ deletions'[k] = deletions[k]
                          \/ (deletions'[k] = "none" /\ deletions[k] = "claimed")
        /\ \A v \in Workers : erased'[v] = erased[v] \/ erased'[v] = None
        /\ UNCHANGED <<photos, issued, store, late, keys, done, batch>>
        /\ \A ph \in photos : ph.key \in Keys
        /\ \A q \in Requests : \A i \in DOMAIN keys[q] : keys[q][i] \in Keys
    BY <1>13 DEF CompleteDeletion, TypeOK, Photo, requestVars
  <2>. QED
    BY <2>1 DEF Issued, Owned, Stored, Workable, Published
<1>14. ASSUME NEW w \in Workers, StopWorker(w)
       PROVE  SafeInv'
  BY <1>14 DEF StopWorker, Issued, Owned, Stored, Workable, Published, TypeOK, dbVars, requestVars
<1>15. CASE UNCHANGED vars
  BY <1>15 DEF vars, dbVars, requestVars, workerVars, Issued, Owned, Stored, Workable, Published
<1>16. ASSUME NEW r \in Requests, RequestNext(r)
       PROVE  SafeInv'
  <2>1. ASSUME CreateLogbook(r) \/ CreateMessage(r)
        PROVE  SafeInv'
    BY <2>1, <1>5 DEF CreateLogbook, CreateMessage, Ready
  <2>2. ASSUME AppendPhotos(r)
        PROVE  SafeInv'
    <3>1. Cardinality(PhotosOf(job[r].parent)) \in Nat
      BY CountType
    <3>. QED
      BY <2>2, <3>1, <1>5 DEF AppendPhotos, Ready
  <2>3. ASSUME \/ \E b \in Books, n \in 1 .. MaxUpload : BeginLogbook(r, b, n) \/ BeginAppend(r, b, n)
               \/ \E m \in Messages, n \in 0 .. MaxUpload : BeginMessage(r, m, n)
               \/ \E ph \in photos : BeginRotate(r, ph)
        PROVE  SafeInv'
    BY <2>3, <1>1 DEF BeginLogbook, BeginAppend, BeginMessage, BeginRotate
  <2>. QED
    BY <1>16, <1>2, <1>3, <1>4, <1>6, <1>7, <2>1, <2>2, <2>3 DEF RequestNext
<1>17. ASSUME NEW w \in Workers, WorkerNext(w)
       PROVE  SafeInv'
  BY <1>17, <1>11, <1>12, <1>13, <1>14 DEF WorkerNext
<1>. QED
  BY <1>8, <1>9, <1>10, <1>15, <1>16, <1>17
     DEF Next, Quiescent, DeleteLogbook, DeleteMessage

\* Every object a photo shows, or a held reservation has been stored for, is
\* safe from every worker: the invariant that the proofs below rest on.
THEOREM Safety == Spec => []SafeInv
BY InitType, NextType, InitSafe, NextSafe, PTL DEF Spec

\* The object of every photo is in the store, in every reachable state.
THEOREM NoDangling == Spec => []NoDanglingPhoto
<1>1. SafeInv => NoDanglingPhoto
  BY DEF SafeInv, Published, NoDanglingPhoto, AttachedKeys
<1>. QED
  BY <1>1, Safety, PTL

\* No published object is queued for deletion or in the hands of a worker.
THEOREM NeverClaimed == Spec => []PublishedNeverClaimed
<1>1. TypeInv /\ SafeInv => PublishedNeverClaimed
  BY DEF TypeInv, TypeOK, Photo, SafeInv, Published, Workable, PublishedNeverClaimed, AttachedKeys
<1>. QED
  BY <1>1, InitType, NextType, Safety, PTL DEF Spec

-----------------------------------------------------------------------------
(* NoLeakedObject needs requests to be timely.  Then a key that some       *)
(* request, or a Put it left behind, may still write is held, so no worker *)
(* has it, and an object a worker has deleted stays deleted.               *)

WritersHold ==
    /\ \A r \in Requests : \A i \in DOMAIN keys[r] : deletions[keys[r][i]] = "held"
    /\ \A k \in late : deletions[k] = "held"
    /\ \A r \in Requests : \A i \in DOMAIN keys[r] : keys[r][i] \notin late

ErasedGone == \A w \in Workers : erased[w] \notin store

NoLeak == \A k \in store : deletions[k] # "none" \/ \E ph \in photos : ph.key = k

LeakInv == TimelyRequests => WritersHold /\ ErasedGone /\ NoLeak

\* It holds at the start.
LEMMA InitLeak == Init => LeakInv
BY DEF Init, LeakInv, WritersHold, ErasedGone, NoLeak

\* Every step keeps LeakInv.
LEMMA NextLeak == TypeInv /\ SafeInv /\ LeakInv /\ [Next]_vars => LeakInv'
<1>. SUFFICES ASSUME TimelyRequests, TypeInv, SafeInv, LeakInv, [Next]_vars PROVE LeakInv'
  BY DEF LeakInv
<1>. USE DEF LeakInv
<1>0. /\ photos \subseteq Photo /\ store \subseteq Keys /\ late \subseteq Keys
      /\ deletions \in [Keys -> RowStates] /\ None \notin Keys
      /\ \A ph \in photos : ph.key \in Keys
      /\ \A q \in Requests : keys[q] \in Seq(Keys) /\ done[q] \in Nat
      /\ \A q \in Requests : \A i \in DOMAIN keys[q] : keys[q][i] \in Keys
  BY DEF TypeInv, TypeOK, Photo
<1>1. ASSUME NEW r \in Requests, NEW stage, NEW j, Begin(r, stage, j)
      PROVE  LeakInv'
  BY <1>1 DEF Begin, WritersHold, ErasedGone, NoLeak, workerVars
<1>2. ASSUME NEW r \in Requests, OpenOriginal(r)
      PROVE  LeakInv'
  BY <1>2 DEF OpenOriginal, WritersHold, ErasedGone, NoLeak, dbVars, workerVars
<1>3. ASSUME NEW r \in Requests, Reserve(r)
      PROVE  LeakInv'
  <2>. PICK ks \in [1 .. job[r].size -> Keys \ issued] :
          /\ keys' = [keys EXCEPT ![r] = ks]
          /\ deletions' = [k \in Keys |-> IF \E i \in DOMAIN ks : ks[i] = k
                                          THEN "held" ELSE deletions[k]]
    BY <1>3 DEF Reserve
  <2>1. /\ UNCHANGED <<photos, store, late, erased>>
        /\ \A q \in Requests : keys'[q] = IF q = r THEN ks ELSE keys[q]
        /\ \A i \in DOMAIN ks : ks[i] \in Keys \ issued
        /\ late \subseteq issued
    BY <1>3 DEF Reserve, TypeInv, TypeOK, SafeInv, Issued, workerVars
  <2>2. WritersHold'
    BY <1>0, <2>1 DEF WritersHold
  <2>3. ErasedGone' /\ NoLeak'
    BY <1>0, <2>1 DEF ErasedGone, NoLeak
  <2>. QED
    BY <2>2, <2>3
<1>4. ASSUME NEW r \in Requests, Put(r)
      PROVE  LeakInv'
  <2>1. /\ done[r] + 1 \in DOMAIN keys[r]
        /\ store' = store \cup {keys[r][done[r] + 1]}
        /\ UNCHANGED <<photos, deletions, late, keys, erased>>
    BY <1>0, <1>4 DEF Put, dbVars, workerVars
  <2>2. \A w \in Workers : erased[w] # keys[r][done[r] + 1]
    BY <1>0, <2>1 DEF WritersHold, SafeInv, Workable
  <2>. QED
    BY <2>1, <2>2 DEF WritersHold, ErasedGone, NoLeak
<1>5. ASSUME NEW r \in Requests, NEW offset \in Nat, InsertPhotos(r, offset), Finish(r),
             UNCHANGED <<issued, store, late, workerVars>>
      PROVE  LeakInv'
  <2>0. ASSUME NEW i \in DOMAIN keys[r]
        PROVE  \E ph \in NewPhotos(r, offset) : ph.key = keys[r][i]
    <3>. DEFINE ph == [parent |-> job[r].parent, page |-> offset + i, key |-> keys[r][i]]
    <3>1. ph \in NewPhotos(r, offset) /\ ph.key = keys[r][i]
      BY DEF NewPhotos
    <3>. QED
      BY <3>1
  <2>1. /\ photos' = photos \cup NewPhotos(r, offset)
        /\ \A k \in Keys : deletions'[k] = deletions[k] \/ \E i \in DOMAIN keys[r] : keys[r][i] = k
        /\ \A q \in Requests : keys'[q] = IF q = r THEN <<>> ELSE keys[q]
        /\ UNCHANGED <<store, late, erased>>
    BY <1>5 DEF InsertPhotos, KeysOf, Finish, TypeInv, TypeOK, workerVars
  <2>2. WritersHold'
    BY <1>0, <2>1 DEF WritersHold, SafeInv, Owned
  <2>3. ErasedGone' /\ NoLeak'
    BY <1>0, <2>0, <2>1 DEF ErasedGone, NoLeak
  <2>. QED
    BY <2>2, <2>3
<1>6. ASSUME NEW r \in Requests, ReplaceRotatedPhoto(r)
      PROVE  LeakInv'
  <2>. DEFINE old == [parent |-> job[r].parent, page |-> job[r].page, key |-> job[r].old]
              new == [old EXCEPT !.key = keys[r][1]]
  <2>1. /\ old \in photos /\ new.key = keys[r][1]
        /\ photos' = (photos \ {old}) \cup {new}
        /\ deletions' = [deletions EXCEPT ![new.key] = "none", ![old.key] = "due"]
        /\ \A q \in Requests : keys'[q] = IF q = r THEN <<>> ELSE keys[q]
        /\ UNCHANGED <<store, late, erased>>
    BY <1>6 DEF ReplaceRotatedPhoto, Finish, TypeInv, TypeOK, workerVars
  <2>2. 1 \in DOMAIN keys[r]
    BY <1>0, <1>6 DEF ReplaceRotatedPhoto, Ready, TypeInv, RequestsOK
  <2>3. \A k \in Keys : deletions[k] = "held" => k # old.key
    BY <2>1 DEF SafeInv, Published
  <2>. HIDE DEF old, new
  <2>4. WritersHold'
    BY <1>0, <2>1, <2>2, <2>3 DEF WritersHold, SafeInv, Owned
  <2>5. ErasedGone' /\ NoLeak'
    BY <1>0, <2>1 DEF ErasedGone, NoLeak
  <2>. QED
    BY <2>4, <2>5
<1>7. ASSUME NEW r \in Requests, Abandon(r)
      PROVE  LeakInv'
  <2>1. /\ \A q \in Requests : keys'[q] = IF q = r THEN <<>> ELSE keys[q]
        /\ late' = late \/ (done[r] < Len(keys[r]) /\ late' = late \cup {keys[r][done[r] + 1]})
        /\ UNCHANGED <<photos, deletions, store, erased>>
    BY <1>7 DEF Abandon, Finish, TypeInv, TypeOK, dbVars, workerVars
  <2>2. done[r] < Len(keys[r]) => done[r] + 1 \in DOMAIN keys[r]
    BY <1>0
  <2>3. WritersHold'
    BY <2>1, <2>2 DEF WritersHold, SafeInv, Owned
  <2>. QED
    BY <2>1, <2>3 DEF ErasedGone, NoLeak
<1>8. ASSUME NEW p \in Parents, QueueAndRemove(p)
      PROVE  LeakInv'
  <2>1. /\ \A ph \in photos : ph \in photos' \/ deletions'[ph.key] = "due"
        /\ \A k \in Keys : deletions'[k] = deletions[k]
                        \/ (deletions[k] = "none" /\ deletions'[k] = "due")
        /\ UNCHANGED <<store, late, keys, erased>>
    BY <1>0, <1>8 DEF QueueAndRemove, PhotosOf, requestVars, workerVars
  <2>2. WritersHold'
    BY <1>0, <2>1 DEF WritersHold
  <2>. QED
    BY <1>0, <2>1, <2>2 DEF ErasedGone, NoLeak
<1>9. ASSUME NEW k \in Keys, Land(k)
      PROVE  LeakInv'
  <2>1. /\ k \in late /\ late' = late \ {k} /\ store' \in {store, store \cup {k}}
        /\ UNCHANGED <<photos, deletions, keys, erased>>
    BY <1>9 DEF Land, dbVars, requestVars, workerVars
  <2>2. \A w \in Workers : erased[w] # k
    BY <2>1 DEF WritersHold, SafeInv, Workable
  <2>. QED
    BY <2>1, <2>2 DEF WritersHold, ErasedGone, NoLeak
<1>10. ASSUME NEW k \in Keys, Expire(k)
       PROVE  LeakInv'
  <2>1. /\ k \notin late /\ \A r \in Requests : \A i \in DOMAIN keys[r] : keys[r][i] # k
        /\ deletions' = [deletions EXCEPT ![k] = "due"]
        /\ UNCHANGED <<photos, store, late, keys, erased>>
    BY <1>10 DEF Expire, InUse, KeysOf, requestVars, workerVars
  <2>. QED
    BY <1>0, <2>1 DEF WritersHold, ErasedGone, NoLeak
<1>11. ASSUME NEW w \in Workers, NEW K \in SUBSET Keys, Claim(w, K)
       PROVE  LeakInv'
  <2>1. /\ \A k \in K : deletions[k] # "held"
        /\ \A k \in Keys : deletions'[k] = IF k \in K THEN "claimed" ELSE deletions[k]
        /\ UNCHANGED <<photos, store, late, keys, erased>>
    BY <1>11 DEF Claim, Claimable, requestVars
  <2>. QED
    BY <1>0, <2>1 DEF WritersHold, ErasedGone, NoLeak
<1>12. ASSUME NEW w \in Workers, NEW k \in Keys, EraseObject(w, k) \/ SkipObject(w, k)
       PROVE  LeakInv'
  <2>1. /\ store' \subseteq store
        /\ \A v \in Workers : erased'[v] = erased[v] \/ (erased'[v] = k /\ k \notin store')
        /\ UNCHANGED <<photos, deletions, late, keys>>
    BY <1>12 DEF EraseObject, SkipObject, TypeInv, TypeOK, dbVars, requestVars
  <2>. QED
    BY <2>1 DEF WritersHold, ErasedGone, NoLeak
<1>13. ASSUME NEW w \in Workers, CompleteDeletion(w)
       PROVE  LeakInv'
  <2>1. /\ \A k \in Keys : \/ deletions'[k] = deletions[k]
                          \/ (k = erased[w] /\ deletions[k] = "claimed")
        /\ \A v \in Workers : erased'[v] = erased[v] \/ erased'[v] = None
        /\ UNCHANGED <<photos, store, late, keys>>
    BY <1>0, <1>13 DEF CompleteDeletion, TypeInv, TypeOK, requestVars
  <2>2. WritersHold'
    BY <1>0, <2>1 DEF WritersHold
  <2>. QED
    BY <1>0, <2>1, <2>2 DEF ErasedGone, NoLeak
<1>14. ASSUME NEW w \in Workers, StopWorker(w)
       PROVE  LeakInv'
  <2>1. /\ \A v \in Workers : erased'[v] = erased[v] \/ erased'[v] = None
        /\ UNCHANGED <<photos, deletions, store, late, keys>>
    BY <1>14 DEF StopWorker, TypeInv, TypeOK, dbVars, requestVars
  <2>. QED
    BY <1>0, <2>1 DEF WritersHold, ErasedGone, NoLeak
<1>15. CASE UNCHANGED vars
  BY <1>15 DEF vars, dbVars, requestVars, workerVars, WritersHold, ErasedGone, NoLeak
<1>16. ASSUME NEW r \in Requests, RequestNext(r)
       PROVE  LeakInv'
  <2>1. ASSUME CreateLogbook(r) \/ CreateMessage(r)
        PROVE  LeakInv'
    BY <2>1, <1>5 DEF CreateLogbook, CreateMessage
  <2>2. ASSUME AppendPhotos(r)
        PROVE  LeakInv'
    <3>1. Cardinality(PhotosOf(job[r].parent)) \in Nat
      BY CountType
    <3>. QED
      BY <2>2, <3>1, <1>5 DEF AppendPhotos
  <2>3. ASSUME \/ \E b \in Books, n \in 1 .. MaxUpload : BeginLogbook(r, b, n) \/ BeginAppend(r, b, n)
               \/ \E m \in Messages, n \in 0 .. MaxUpload : BeginMessage(r, m, n)
               \/ \E ph \in photos : BeginRotate(r, ph)
        PROVE  LeakInv'
    BY <2>3, <1>1 DEF BeginLogbook, BeginAppend, BeginMessage, BeginRotate
  <2>. QED
    BY <1>16, <1>2, <1>3, <1>4, <1>6, <1>7, <2>1, <2>2, <2>3 DEF RequestNext
<1>17. ASSUME NEW w \in Workers, WorkerNext(w)
       PROVE  LeakInv'
  BY <1>17, <1>11, <1>12, <1>13, <1>14 DEF WorkerNext
<1>. QED
  BY <1>8, <1>9, <1>10, <1>15, <1>16, <1>17
     DEF Next, Quiescent, DeleteLogbook, DeleteMessage

\* With timely requests every stored object is shown by a photo or queued.
THEOREM NoLeaks ==
  ASSUME TimelyRequests
  PROVE  Spec => []NoLeakedObject
<1>1. LeakInv => NoLeakedObject
  BY DEF LeakInv, NoLeak, NoLeakedObject, AttachedKeys
<1>2. Spec => []LeakInv
  BY InitType, NextType, InitLeak, NextLeak, Safety, PTL DEF Spec
<1>. QED
  BY <1>1, <1>2, PTL

-----------------------------------------------------------------------------
(* PagesConsistent.  A logbook's pages stay 1 .. n because an append counts *)
(* them again under the row lock, and a new logbook's are 1 .. n because    *)
(* nobody else creates it (Creators): its row is not there yet.             *)

Creating(r) == pc[r] # "idle" /\ job[r].op \in {"logbook", "message"}

Creators ==
    /\ \A r \in Requests : Creating(r) =>
          parent[job[r].parent] = "named" /\ job[r].size <= MaxPages
    /\ \A r, q \in Requests : Creating(r) /\ Creating(q) /\ job[r].parent = job[q].parent => r = q

\* UNIQUE (logbook_id, page_number), and the pages without gaps.
Numbered(S) ==
    /\ \A ph, qh \in S : ph.page = qh.page => ph = qh
    /\ {ph.page : ph \in S} = 1 .. Cardinality(S)
    /\ Cardinality(S) <= MaxPages

OfLiving == \A ph \in photos : parent[ph.parent] = "live"

PagesInv == Creators /\ OfLiving /\ \A p \in Parents : Numbered(PhotosOf(p))

\* As many photos as pages.
LEMMA CountedByPages ==
  ASSUME NEW S, IsFiniteSet(S), NEW n \in Nat, {ph.page : ph \in S} = 1 .. n,
         \A ph, qh \in S : ph.page = qh.page => ph = qh
  PROVE  Cardinality(S) = n
<1>. DEFINE f == [ph \in S |-> ph.page]
<1>1. f \in Surjection(S, 1 .. n) /\ f \in Injection(S, 1 .. n)
  <2>1. f \in [S -> 1 .. n] /\ \A t \in 1 .. n : \E ph \in S : f[ph] = t
    <3>1. /\ \A ph \in S : ph.page \in 1 .. n
          /\ \A t \in 1 .. n : \E ph \in S : ph.page = t
      OBVIOUS
    <3>. QED
      BY <3>1
  <2>. QED
    BY <2>1 DEF Injection, Surjection, IsInjective
<1>2. Cardinality(S) = Cardinality(1 .. n)
  <2>. HIDE DEF f
  <2>. QED
    BY <1>1, FS_Surjection
<1>3. Cardinality(1 .. n) = n
  BY FS_Interval
<1>. QED
  BY <1>2, <1>3

\* A set of photos is numbered if its pages are, once each.
LEMMA NumberedByPages ==
  ASSUME NEW S, IsFiniteSet(S), NEW n \in Nat, n <= MaxPages, {ph.page : ph \in S} = 1 .. n,
         \A ph, qh \in S : ph.page = qh.page => ph = qh
  PROVE  Numbered(S)
BY CountedByPages DEF Numbered

LEMMA EmptyNumbered == Numbered({})
<1>1. {ph.page : ph \in {}} = 1 .. 0
  OBVIOUS
<1>. QED
  BY <1>1, NumberedByPages, FS_EmptySet

\* Photos that do not change stay numbered.
LEMMA PagesKept ==
  ASSUME PagesInv, UNCHANGED photos,
         \A p \in Parents : parent[p] = "live" => parent'[p] = "live",
         photos \subseteq Photo, Creators'
  PROVE  PagesInv'
<1>1. OfLiving'
  BY DEF PagesInv, OfLiving, Photo
<1>2. \A p \in Parents : PhotosOf(p)' = PhotosOf(p)
  BY DEF PhotosOf
<1>. QED
  BY <1>1, <1>2 DEF PagesInv, Numbered

\* An upload goes on where the pages of its parent end.
LEMMA InsertNumbered ==
  ASSUME TypeInv, NEW r \in Requests, NEW p \in Parents, p = job[r].parent,
         NEW count \in Nat, count = Cardinality(PhotosOf(p)), Numbered(PhotosOf(p)),
         count + Len(keys[r]) <= MaxPages, InsertPhotos(r, count)
  PROVE  /\ Numbered(PhotosOf(p)')
         /\ \A q \in Parents : q # p => PhotosOf(q)' = PhotosOf(q)
         /\ \A ph \in photos' : ph \in photos \/ ph.parent = p
<1>. DEFINE n == Len(keys[r])
            old == PhotosOf(p)
            new == NewPhotos(r, count)
<1>1. keys[r] \in Seq(Keys) /\ n \in Nat /\ DOMAIN keys[r] = 1 .. n
  BY DEF TypeInv, TypeOK
<1>2. /\ \A i \in 1 .. n : \E ph \in new : ph.page = count + i
      /\ \A ph \in new : \E i \in 1 .. n : ph.page = count + i
      /\ \A ph \in new : ph.parent = p
      /\ \A ph, qh \in new : ph.page = qh.page => ph = qh
  <2>. DEFINE row(i) == [parent |-> p, page |-> count + i, key |-> keys[r][i]]
  <2>1. new = {row(i) : i \in 1 .. n}
    BY <1>1 DEF NewPhotos
  <2>2. \A i \in 1 .. n : row(i).page = count + i /\ row(i).parent = p
    OBVIOUS
  <2>3. \A i, j \in 1 .. n : count + i = count + j => i = j
    BY <1>1
  <2>. HIDE DEF new, n, row
  <2>. QED
    BY <2>1, <2>2, <2>3
<1>3. photos' = photos \cup new /\ \A ph \in old, qh \in new : ph.page # qh.page
  BY DEF InsertPhotos
<1>4. IsFiniteSet(photos')
  BY NewPhotosType, FS_Union, <1>3 DEF TypeInv
<1>5. PhotosOf(p)' = {ph \in photos' : ph.parent = p}
  BY DEF PhotosOf
<1>6. old = {ph \in photos : ph.parent = p}
  BY DEF PhotosOf
<1>. HIDE DEF new, n, old
<1>7. PhotosOf(p)' = old \cup new
  BY <1>2, <1>3, <1>5, <1>6
<1>8. IsFiniteSet(old \cup new)
  <2>1. old \cup new \in SUBSET photos'
    BY <1>5, <1>7
  <2>. QED
    BY <2>1, <1>4, FS_Subset
<1>9. /\ \A ph \in old : ph.page \in 1 .. count
      /\ \A m \in 1 .. count : \E ph \in old : ph.page = m
      /\ \A ph, qh \in old : ph.page = qh.page => ph = qh
  <2>1. {ph.page : ph \in old} = 1 .. count
    BY DEF Numbered, old
  <2>. QED
    BY <2>1 DEF Numbered, old
<1>10. {ph.page : ph \in old \cup new} = 1 .. (count + n)
  <2>1. ASSUME NEW ph \in old \cup new PROVE ph.page \in 1 .. (count + n)
    BY <2>1, <1>1, <1>2, <1>9
  <2>2. ASSUME NEW m \in 1 .. (count + n) PROVE \E ph \in old \cup new : m = ph.page
    <3>1. CASE m <= count
      BY <3>1, <1>9
    <3>2. CASE m > count
      <4>1. m - count \in 1 .. n /\ count + (m - count) = m
        BY <3>2, <1>1
      <4>. QED
        BY <4>1, <1>2
    <3>. QED
      BY <3>1, <3>2
  <2>. QED
    BY <2>1, <2>2
<1>11. \A ph, qh \in old \cup new : ph.page = qh.page => ph = qh
  BY <1>2, <1>3, <1>9
<1>12. count + n \in Nat /\ count + n <= MaxPages
  BY <1>1 DEF n
<1>13. Numbered(old \cup new)
  BY <1>8, <1>10, <1>11, <1>12, NumberedByPages
<1>14. \A q \in Parents : q # p => PhotosOf(q)' = PhotosOf(q)
  BY <1>2, <1>3 DEF PhotosOf
<1>. QED
  BY <1>2, <1>3, <1>7, <1>13, <1>14

LEMMA InitPages == Init => PagesInv
<1>. SUFFICES ASSUME Init PROVE PagesInv
  OBVIOUS
<1>1. \A p \in Parents : PhotosOf(p) = {}
  BY DEF Init, PhotosOf
<1>2. Creators /\ OfLiving
  BY DEF Init, Creators, Creating, OfLiving
<1>. QED
  BY <1>1, <1>2, EmptyNumbered DEF PagesInv

\* A request ends, or another begins, and nobody's logbook is taken.
LEMMA CreatorsEnd ==
  ASSUME TypeInv, Creators, NEW r \in Requests, Finish(r),
         \A q \in Requests : q # r /\ Creating(q) =>
             parent'[job[q].parent] = parent[job[q].parent]
  PROVE  Creators'
<1>1. pc'[r] = "idle" /\ \A q \in Requests : q # r => pc'[q] = pc[q] /\ job'[q] = job[q]
  BY DEF Finish, TypeInv, TypeOK
<1>. QED
  BY <1>1 DEF Creators, Creating

\* Every step keeps PagesInv.
LEMMA NextPages == TypeInv /\ SafeInv /\ PagesInv /\ [Next]_vars => PagesInv'
<1>. SUFFICES ASSUME TypeInv, SafeInv, PagesInv, [Next]_vars PROVE PagesInv'
  OBVIOUS
<1>. DEFINE Kept == UNCHANGED photos /\ Creators'
<1>0. Creators /\ OfLiving /\ photos \subseteq Photo /\ IsFiniteSet(photos)
  BY DEF PagesInv, TypeInv, TypeOK
<1>1. ASSUME NEW r \in Requests, NEW p \in Parents, NEW op \in {"logbook", "message"},
             NEW stage, NEW j, j.op = op, j.parent = p, j.size <= MaxUpload, j.size \in Nat,
             parent[p] = "unborn", parent' = [parent EXCEPT ![p] = "named"], Begin(r, stage, j)
      PROVE  PagesInv'
  <2>1. /\ UNCHANGED photos
        /\ job'[r] = j /\ \A q \in Requests : q # r => pc'[q] = pc[q] /\ job'[q] = job[q]
        /\ parent'[p] = "named" /\ \A q \in Parents : q # p => parent'[q] = parent[q]
    BY <1>1 DEF Begin, TypeInv, TypeOK
  <2>2. \A q \in Requests : Creating(q) => job[q].parent \in Parents
    BY DEF TypeInv, RequestsOK, Creating
  <2>3. \A q \in Requests : Creating(q) => job[q].parent # p
    BY <1>0, <1>1 DEF Creators
  <2>4. j.size <= MaxPages
    BY <1>1
  <2>5. Creators'
    BY <1>0, <1>1, <2>1, <2>2, <2>3, <2>4 DEF Creators, Creating
  <2>. QED
    BY <1>0, <1>1, <2>1, <2>5, PagesKept
<1>2. ASSUME NEW r \in Requests, NEW stage, NEW j, j.op \in {"append", "rotate"},
             UNCHANGED parent, Begin(r, stage, j)
      PROVE  PagesInv'
  <2>1. /\ UNCHANGED photos
        /\ job'[r] = j /\ \A q \in Requests : q # r => pc'[q] = pc[q] /\ job'[q] = job[q]
    BY <1>2 DEF Begin, TypeInv, TypeOK
  <2>2. Creators'
    BY <1>0, <1>2, <2>1 DEF Creators, Creating
  <2>. QED
    BY <1>0, <1>2, <2>1, <2>2, PagesKept
<1>3. ASSUME NEW r \in Requests, OpenOriginal(r) \/ Reserve(r) \/ Put(r)
      PROVE  PagesInv'
  <2>1. /\ UNCHANGED <<photos, parent, job>> /\ pc[r] # "idle"
        /\ \A q \in Requests : q # r => pc'[q] = pc[q]
    BY <1>3 DEF OpenOriginal, Reserve, Put, dbVars, TypeInv, TypeOK
  <2>2. Creators'
    BY <1>0, <2>1 DEF Creators, Creating
  <2>. QED
    BY <1>0, <2>1, <2>2, PagesKept
<1>4. ASSUME NEW r \in Requests, CreateLogbook(r) \/ CreateMessage(r)
      PROVE  PagesInv'
  <2>1. PICK p \in Parents : p = job[r].parent
    BY <1>4 DEF CreateLogbook, CreateMessage, Ready, TypeInv, RequestsOK
  <2>2. /\ Creating(r) /\ InsertPhotos(r, 0) /\ Finish(r) /\ Len(keys[r]) = job[r].size
        /\ parent' = [parent EXCEPT ![p] = "live"] /\ parent \in [Parents -> {"unborn", "named", "live", "gone"}]
    BY <1>4, <2>1 DEF CreateLogbook, CreateMessage, Ready, Creating, TypeInv, TypeOK, RequestsOK
  <2>3. parent[p] = "named" /\ Len(keys[r]) <= MaxPages
    BY <1>0, <2>1, <2>2 DEF Creators
  <2>4. PhotosOf(p) = {}
    BY <1>0, <2>3 DEF OfLiving, PhotosOf
  <2>5. Len(keys[r]) \in Nat
    BY DEF TypeInv, TypeOK
  <2>6. 0 = Cardinality(PhotosOf(p)) /\ 0 + Len(keys[r]) <= MaxPages
    BY <2>3, <2>4, <2>5, FS_EmptySet
  <2>7. /\ Numbered(PhotosOf(p)')
        /\ \A q \in Parents : q # p => PhotosOf(q)' = PhotosOf(q)
        /\ \A ph \in photos' : ph \in photos \/ ph.parent = p
    <3>1. Numbered(PhotosOf(p)) /\ 0 \in Nat
      BY <2>4, EmptyNumbered
    <3>. QED
      BY <2>1, <2>2, <2>6, <3>1, InsertNumbered
  <2>8. OfLiving'
    BY <1>0, <2>2, <2>7 DEF OfLiving, Photo
  <2>9. Creators'
    BY <1>0, <2>1, <2>2, CreatorsEnd DEF Creators, TypeInv, RequestsOK, Creating
  <2>. QED
    BY <2>7, <2>8, <2>9 DEF PagesInv, Numbered
<1>5. ASSUME NEW r \in Requests, AppendPhotos(r)
      PROVE  PagesInv'
  <2>1. PICK p \in Parents : p = job[r].parent
    BY <1>5 DEF AppendPhotos, Ready, TypeInv, RequestsOK
  <2>. DEFINE count == Cardinality(PhotosOf(p))
  <2>2. /\ count + Len(keys[r]) <= MaxPages /\ InsertPhotos(r, count) /\ Finish(r)
        /\ parent[p] = "live" /\ UNCHANGED parent
    BY <1>5, <2>1 DEF AppendPhotos
  <2>3. count \in Nat /\ Numbered(PhotosOf(p))
    BY CountType DEF PagesInv
  <2>4. /\ Numbered(PhotosOf(p)')
        /\ \A q \in Parents : q # p => PhotosOf(q)' = PhotosOf(q)
        /\ \A ph \in photos' : ph \in photos \/ ph.parent = p
    <3>. HIDE DEF count
    <3>1. count = Cardinality(PhotosOf(p))
      BY DEF count
    <3>. QED
      BY <2>1, <2>2, <2>3, <3>1, InsertNumbered
  <2>5. OfLiving'
    BY <1>0, <2>2, <2>4 DEF OfLiving
  <2>6. Creators'
    BY <1>0, <2>2, CreatorsEnd
  <2>. QED
    BY <2>4, <2>5, <2>6 DEF PagesInv, Numbered
<1>6. ASSUME NEW r \in Requests, ReplaceRotatedPhoto(r)
      PROVE  PagesInv'
  <2>. DEFINE old == [parent |-> job[r].parent, page |-> job[r].page, key |-> job[r].old]
              new == [old EXCEPT !.key = keys[r][1]]
  <2>1. /\ old \in photos /\ photos' = (photos \ {old}) \cup {new}
        /\ new.parent = old.parent /\ new.page = old.page
        /\ Finish(r) /\ UNCHANGED parent
    BY <1>6 DEF ReplaceRotatedPhoto
  <2>. HIDE DEF old, new
  <2>2. OfLiving' /\ Creators'
    BY <1>0, <2>1, CreatorsEnd DEF OfLiving
  <2>3. ASSUME NEW p \in Parents
        PROVE  Numbered(PhotosOf(p)')
    <3>. DEFINE S == PhotosOf(p)
                T == PhotosOf(p)'
    <3>1. /\ S = {ph \in photos : ph.parent = p}
          /\ T = {ph \in photos' : ph.parent = p}
      BY DEF PhotosOf
    <3>2. Cardinality(S) \in Nat /\ Numbered(S)
      BY CountType DEF PagesInv
    <3>3. IsFiniteSet(T)
      <4>1. IsFiniteSet(photos') /\ T \in SUBSET photos'
        BY <1>0, <2>1, <3>1, FS_RemoveElement, FS_AddElement
      <4>. QED
        BY <4>1, FS_Subset
    <3>4. T = S \/ (old \in S /\ T = (S \ {old}) \cup {new})
      BY <2>1, <3>1
    <3>. HIDE DEF S, T
    <3>5. {ph.page : ph \in T} = {ph.page : ph \in S}
      BY <2>1, <3>4
    <3>6. \A ph, qh \in T : ph.page = qh.page => ph = qh
      BY <2>1, <3>2, <3>4 DEF Numbered
    <3>7. Numbered(T)
      BY <3>2, <3>3, <3>5, <3>6, NumberedByPages DEF Numbered
    <3>. QED
      BY <3>7 DEF T
  <2>. QED
    BY <2>2, <2>3 DEF PagesInv, Numbered
<1>7. ASSUME NEW r \in Requests, Abandon(r)
      PROVE  PagesInv'
  <2>1. UNCHANGED <<photos, parent>> /\ Finish(r)
    BY <1>7 DEF Abandon, dbVars
  <2>2. Creators'
    BY <1>0, <2>1, CreatorsEnd
  <2>. QED
    BY <1>0, <2>1, <2>2, PagesKept
<1>8. ASSUME NEW p \in Parents, QueueAndRemove(p)
      PROVE  PagesInv'
  <2>1. /\ photos' = {ph \in photos : ph.parent # p} /\ parent[p] = "live"
        /\ \A q \in Parents : q # p => parent'[q] = parent[q]
        /\ UNCHANGED <<pc, job>>
    BY <1>8 DEF QueueAndRemove, PhotosOf, requestVars, TypeInv, TypeOK
  <2>2. OfLiving'
    BY <1>0, <2>1 DEF OfLiving, Photo
  <2>3. Creators'
    <3>1. \A q \in Requests : Creating(q) => job[q].parent \in Parents /\ job[q].parent # p
      BY <1>0, <2>1 DEF Creators, Creating, TypeInv, RequestsOK
    <3>. QED
      BY <1>0, <2>1, <3>1 DEF Creators, Creating
  <2>4. \A q \in Parents : PhotosOf(q)' = IF q = p THEN {} ELSE PhotosOf(q)
    BY <2>1 DEF PhotosOf
  <2>5. ASSUME NEW q \in Parents PROVE Numbered(PhotosOf(q)')
    <3>1. CASE q = p
      BY <2>4, <3>1, EmptyNumbered
    <3>2. CASE q # p
      BY <2>4, <3>2 DEF PagesInv
    <3>. QED
      BY <3>1, <3>2
  <2>. QED
    BY <2>2, <2>3, <2>5 DEF PagesInv, Numbered
<1>9. ASSUME UNCHANGED <<photos, parent, pc, job>>
      PROVE  PagesInv'
  <2>1. Creators'
    BY <1>0, <1>9 DEF Creators, Creating
  <2>. QED
    BY <1>0, <1>9, <2>1, PagesKept
<1>10. ASSUME NEW r \in Requests, RequestNext(r)
       PROVE  PagesInv'
  <2>1. ASSUME NEW b \in Books, NEW n \in 1 .. MaxUpload, BeginLogbook(r, b, n)
        PROVE  PagesInv'
    <3>. DEFINE j == [op |-> "logbook", parent |-> b, page |-> 0, old |-> None, size |-> n]
    <3>1. j.op = "logbook" /\ j.parent = b /\ j.size = n /\ n \in Nat /\ n <= MaxUpload
      OBVIOUS
    <3>2. Begin(r, "reserve", j) /\ parent[b] = "unborn" /\ parent' = [parent EXCEPT ![b] = "named"]
      BY <2>1 DEF BeginLogbook
    <3>. HIDE DEF j
    <3>. QED
      BY <3>1, <3>2, <1>1
  <2>2. ASSUME NEW m \in Messages, NEW n \in 0 .. MaxUpload, BeginMessage(r, m, n)
        PROVE  PagesInv'
    <3>. DEFINE j == [op |-> "message", parent |-> m, page |-> 0, old |-> None, size |-> n]
                stage == IF n = 0 THEN "put" ELSE "reserve"
    <3>1. j.op = "message" /\ j.parent = m /\ j.size = n /\ n \in Nat /\ n <= MaxUpload
      OBVIOUS
    <3>2. Begin(r, stage, j) /\ parent[m] = "unborn" /\ parent' = [parent EXCEPT ![m] = "named"]
      BY <2>2 DEF BeginMessage
    <3>. HIDE DEF j, stage
    <3>. QED
      BY <3>1, <3>2, <1>1
  <2>3. ASSUME NEW b \in Books, NEW n \in 1 .. MaxUpload, BeginAppend(r, b, n)
        PROVE  PagesInv'
    <3>. DEFINE j == [op |-> "append", parent |-> b, page |-> 0, old |-> None, size |-> n]
    <3>1. Begin(r, "reserve", j) /\ UNCHANGED parent /\ j.op = "append"
      BY <2>3 DEF BeginAppend
    <3>. HIDE DEF j
    <3>. QED
      BY <3>1, <1>2
  <2>4. ASSUME NEW ph \in photos, BeginRotate(r, ph)
        PROVE  PagesInv'
    <3>. DEFINE j == [op |-> "rotate", parent |-> ph.parent, page |-> ph.page,
                      old |-> ph.key, size |-> 1]
    <3>1. Begin(r, "open", j) /\ UNCHANGED parent /\ j.op = "rotate"
      BY <2>4 DEF BeginRotate
    <3>. HIDE DEF j
    <3>. QED
      BY <3>1, <1>2
  <2>. QED
    BY <1>10, <2>1, <2>2, <2>3, <2>4, <1>3, <1>4, <1>5, <1>6, <1>7 DEF RequestNext
<1>11. ASSUME NEW w \in Workers, WorkerNext(w)
       PROVE  PagesInv'
  BY <1>11, <1>9 DEF WorkerNext, Claim, EraseObject, SkipObject, CompleteDeletion, StopWorker,
                     dbVars, requestVars
<1>12. ASSUME NEW k \in Keys, Expire(k) \/ Land(k)
       PROVE  PagesInv'
  BY <1>12, <1>9 DEF Expire, Land, dbVars, requestVars
<1>13. CASE UNCHANGED vars
  BY <1>13, <1>9 DEF vars, dbVars, requestVars
<1>. QED
  BY <1>8, <1>10, <1>11, <1>12, <1>13
     DEF Next, Quiescent, DeleteLogbook, DeleteMessage

\* Pages: however appends, rotations and deletions interleave, the photos of a
\* logbook are its pages 1 .. n, within the limit, and shared with nobody.
THEOREM Pages == Spec => []PagesConsistent
<1>1. SafeInv /\ PagesInv => PagesConsistent
  BY DEF SafeInv, Owned, PagesInv, OfLiving, Numbered, PagesConsistent
<1>. QED
  BY <1>1, InitType, NextType, Safety, InitPages, NextPages, PTL DEF Spec

\* A photo stays, or a rotation has replaced its object by a new one.
StaysOrRotated(ph) ==
    \E qh \in photos' :
        /\ qh.parent = ph.parent /\ qh.page = ph.page
        /\ qh.key # ph.key => deletions[qh.key] = "held" /\ deletions'[ph.key] = "due"

LEMMA NextStable ==
  ASSUME TypeInv, [Next]_vars, NEW ph \in photos, parent'[ph.parent] = "live"
  PROVE  StaysOrRotated(ph)
<1>1. ph \in Photo /\ parent \in [Parents -> {"unborn", "named", "live", "gone"}]
  BY DEF TypeInv, TypeOK
<1>2. ASSUME ph \in photos'
      PROVE  StaysOrRotated(ph)
  BY <1>2 DEF StaysOrRotated
<1>3. ASSUME NEW r \in Requests, ReplaceRotatedPhoto(r)
      PROVE  StaysOrRotated(ph)
  <2>. DEFINE old == [parent |-> job[r].parent, page |-> job[r].page, key |-> job[r].old]
              new == [old EXCEPT !.key = keys[r][1]]
  <2>1. /\ photos' = (photos \ {old}) \cup {new}
        /\ new.parent = old.parent /\ new.page = old.page /\ new.key = keys[r][1]
        /\ deletions' = [deletions EXCEPT ![new.key] = "none", ![old.key] = "due"]
        /\ deletions[old.key] = "none" /\ Promotable(KeysOf(r))
    BY <1>3 DEF ReplaceRotatedPhoto
  <2>2. keys[r] \in Seq(Keys) /\ Len(keys[r]) = 1
    BY <1>3 DEF ReplaceRotatedPhoto, Ready, TypeInv, TypeOK, RequestsOK
  <2>3. deletions[keys[r][1]] = "held"
    BY <2>1, <2>2 DEF Promotable, KeysOf
  <2>. HIDE DEF old, new
  <2>4. CASE ph = old
    <3>1. deletions'[old.key] = "due"
      BY <1>1, <2>1, <2>4 DEF TypeInv, TypeOK, Photo
    <3>. QED
      BY <2>1, <2>3, <2>4, <3>1 DEF StaysOrRotated
  <2>5. CASE ph # old
    BY <1>2, <2>1, <2>5
  <2>. QED
    BY <2>4, <2>5
<1>4. ASSUME NEW p \in Parents, QueueAndRemove(p)
      PROVE  StaysOrRotated(ph)
  <2>1. photos' = photos \ PhotosOf(p) /\ parent'[p] = "gone"
    BY <1>1, <1>4 DEF QueueAndRemove
  <2>2. ph \in photos'
    BY <2>1 DEF PhotosOf
  <2>. QED
    BY <1>2, <2>2
<1>5. ASSUME NEW r \in Requests, RequestNext(r), ~ReplaceRotatedPhoto(r)
      PROVE  photos \subseteq photos'
  BY <1>5 DEF RequestNext, BeginLogbook, BeginAppend, BeginMessage, BeginRotate, Begin,
              OpenOriginal, Reserve, Put, CreateLogbook, CreateMessage, AppendPhotos,
              InsertPhotos, Abandon, dbVars
<1>6. ASSUME NEW w \in Workers, WorkerNext(w)
      PROVE  UNCHANGED photos
  BY <1>6 DEF WorkerNext, Claim, EraseObject, SkipObject, CompleteDeletion, StopWorker, dbVars
<1>7. ASSUME \/ \E k \in Keys : Expire(k) \/ Land(k)
             \/ UNCHANGED vars
      PROVE  UNCHANGED photos
  BY <1>7 DEF Expire, Land, vars, dbVars
<1>. QED
  BY <1>2, <1>3, <1>4, <1>5, <1>6, <1>7 DEF Next, Quiescent, DeleteLogbook, DeleteMessage

\* PagesKeep: the photos of a logbook that stays keep their pages, and an
\* object is replaced only by one that was reserved, and then queued.
THEOREM PagesKeep == Spec => PagesStable
<1>1. TypeInv /\ [Next]_vars =>
          [\A ph \in photos : parent'[ph.parent] = "live" =>
              \E qh \in photos' :
                  /\ qh.parent = ph.parent /\ qh.page = ph.page
                  /\ qh.key # ph.key => deletions[qh.key] = "held" /\ deletions'[ph.key] = "due"
          ]_vars
  BY NextStable DEF StaysOrRotated
<1>. QED
  BY <1>1, InitType, NextType, PTL DEF Spec, PagesStable

-----------------------------------------------------------------------------
(* ObjectLifecycle implements ObjectCustody: every step of a request, a    *)
(* transaction or a worker is a step of the abstract life of an object, or *)
(* changes nothing in it, as long as requests are timely.                  *)

Shown(k) == \E ph \in photos : ph.key = k

\* What the refinement mapping says of one key, before and after a step.
LEMMA CustodyBefore ==
  ASSUME NEW k \in Keys
  PROVE  /\ k \notin issued => custody[k] = "fresh"
         /\ k \in issued /\ Shown(k) => custody[k] = "published"
         /\ k \in issued /\ ~Shown(k) /\ deletions[k] = "held" => custody[k] = "pending"
         /\ k \in issued /\ ~Shown(k) /\ deletions[k] \in {"due", "claimed"} => custody[k] = "condemned"
         /\ k \in issued /\ ~Shown(k) /\ deletions[k] = "none" => custody[k] = "erased"
BY DEF custody, AttachedKeys, Shown

\* The same after the step.
LEMMA CustodyAfter ==
  ASSUME NEW k \in Keys
  PROVE  /\ k \notin issued' => custody'[k] = "fresh"
         /\ k \in issued' /\ Shown(k)' => custody'[k] = "published"
         /\ k \in issued' /\ ~Shown(k)' /\ deletions'[k] = "held" => custody'[k] = "pending"
         /\ k \in issued' /\ ~Shown(k)' /\ deletions'[k] \in {"due", "claimed"}
                => custody'[k] = "condemned"
         /\ k \in issued' /\ ~Shown(k)' /\ deletions'[k] = "none" => custody'[k] = "erased"
BY DEF custody, AttachedKeys, Shown

\* A key whose part of the tables stays the same keeps its stage.
LEMMA CustodyKept ==
  ASSUME NEW k \in Keys, k \in issued' <=> k \in issued, Shown(k)' <=> Shown(k),
         deletions \in [Keys -> RowStates],
         \/ deletions'[k] = deletions[k]
         \/ deletions'[k] \in {"due", "claimed"} /\ deletions[k] \in {"due", "claimed"}
  PROVE  custody'[k] = custody[k]
BY CustodyBefore, CustodyAfter DEF RowStates

\* The mapping is a function, so it is known when its values are.
LEMMA CustodyAdvance ==
  ASSUME NEW K \in SUBSET Keys, NEW s,
         \A k \in K : custody'[k] = s,
         \A k \in Keys \ K : custody'[k] = custody[k]
  PROVE  custody' = Custody!Advance(K, s)
<1>1. custody' = [k \in Keys |-> custody'[k]]
  BY DEF custody
<1>. QED
  BY <1>1 DEF Custody!Advance

\* It stays the same when each of its values does.
LEMMA CustodyStutters ==
  ASSUME \A k \in Keys : custody'[k] = custody[k]
  PROVE  custody' = custody
<1>1. custody' = [k \in Keys |-> custody'[k]] /\ custody = [k \in Keys |-> custody[k]]
  BY DEF custody
<1>. QED
  BY <1>1

\* The initial states map to the initial state.
LEMMA InitRefines == Init => Custody!Init
BY DEF Init, Custody!Init, custody

\* Every step maps to a step of the abstract specification or to none.
LEMMA NextRefines ==
  ASSUME TimelyRequests, TypeInv, SafeInv, LeakInv, [Next]_vars
  PROVE  [Custody!Next]_(Custody!vars)
<1>. USE DEF LeakInv
<1>0. /\ deletions \in [Keys -> RowStates] /\ None \notin Keys
      /\ photos \subseteq Photo /\ store \subseteq Keys /\ late \subseteq Keys
      /\ \A ph \in photos : ph.key \in Keys
      /\ \A q \in Requests : keys[q] \in Seq(Keys) /\ done[q] \in Nat
      /\ \A q \in Requests : \A i \in DOMAIN keys[q] : keys[q][i] \in Keys
      /\ \A w \in Workers : batch[w] \in SUBSET Keys
  BY DEF TypeInv, TypeOK, Photo
\* A held key is pending, a key a worker may work on is not shown.
<1>a. ASSUME NEW k \in Keys, deletions[k] = "held"
      PROVE  custody[k] = "pending" /\ k \in issued /\ ~Shown(k)
  <2>1. k \in issued /\ ~Shown(k)
    BY <1>a DEF SafeInv, Issued, Published, Shown
  <2>. QED
    BY <1>a, <2>1, CustodyBefore
<1>b. ASSUME UNCHANGED <<photos, deletions, issued, store>>
      PROVE  UNCHANGED Custody!vars
  BY <1>b DEF custody, AttachedKeys, Custody!vars
<1>c. ASSUME NEW k \in Keys, deletions[k] = "held", store' = store \cup {k},
             UNCHANGED <<photos, deletions, issued>>
      PROVE  Custody!Next
  <2>1. custody' = custody
    BY <1>c DEF custody, AttachedKeys
  <2>2. Custody!Write(k)
    BY <1>a, <1>c, <2>1 DEF Custody!Write, Custody!AllAt
  <2>. QED
    BY <2>2 DEF Custody!Next
<1>1. ASSUME NEW r \in Requests, NEW stage, NEW j, Begin(r, stage, j)
      PROVE  UNCHANGED Custody!vars
  BY <1>1, <1>b DEF Begin
<1>2. ASSUME NEW r \in Requests, OpenOriginal(r) \/ Abandon(r)
      PROVE  UNCHANGED Custody!vars
  BY <1>2, <1>b DEF OpenOriginal, Abandon, dbVars
<1>3. ASSUME NEW r \in Requests, Reserve(r)
      PROVE  Custody!Next
  <2>. PICK ks \in [1 .. job[r].size -> Keys \ issued] :
          /\ issued' = issued \cup {ks[i] : i \in DOMAIN ks}
          /\ deletions' = [k \in Keys |-> IF \E i \in DOMAIN ks : ks[i] = k
                                          THEN "held" ELSE deletions[k]]
    BY <1>3 DEF Reserve
  <2>. DEFINE K == {ks[i] : i \in DOMAIN ks}
  <2>1. /\ K \in SUBSET Keys
        /\ \A k \in K : k \notin issued /\ k \in issued' /\ deletions'[k] = "held"
        /\ \A k \in Keys \ K : (k \in issued' <=> k \in issued) /\ deletions'[k] = deletions[k]
        /\ photos' = photos /\ store' = store
    BY <1>3 DEF Reserve
  <2>. HIDE DEF K
  <2>2. \A k \in K : ~Shown(k) /\ ~Shown(k)'
    <3>1. \A ph \in photos : ph.key \notin K
      BY <2>1 DEF SafeInv, Issued
    <3>. QED
      BY <2>1, <3>1 DEF Shown
  <2>3. \A k \in K : custody[k] = "fresh" /\ custody'[k] = "pending"
    BY <2>1, <2>2, CustodyBefore, CustodyAfter
  <2>4. \A k \in Keys \ K : custody'[k] = custody[k]
    BY <1>0, <2>1, CustodyKept DEF Shown
  <2>5. Custody!Issue(K)
    BY <2>1, <2>3, <2>4, CustodyAdvance DEF Custody!Issue, Custody!AllAt
  <2>. QED
    BY <2>1, <2>5 DEF Custody!Next
<1>4. ASSUME NEW r \in Requests, Put(r)
      PROVE  Custody!Next
  <2>1. done[r] + 1 \in DOMAIN keys[r]
    BY <1>0, <1>4 DEF Put
  <2>2. deletions[keys[r][done[r] + 1]] = "held"
    BY <2>1 DEF WritersHold
  <2>. QED
    BY <1>0, <1>4, <1>c, <2>1, <2>2 DEF Put, dbVars
<1>5. ASSUME NEW r \in Requests, NEW offset \in Nat, InsertPhotos(r, offset),
             done[r] = Len(keys[r]), UNCHANGED <<issued, store>>
      PROVE  Custody!Next
  <2>. DEFINE K == KeysOf(r)
  <2>1. /\ K \in SUBSET Keys /\ K \subseteq store
        /\ \A k \in K : deletions[k] = "held" /\ deletions'[k] = "none"
        /\ \A k \in Keys \ K : deletions'[k] = deletions[k]
    BY <1>0, <1>5 DEF InsertPhotos, Promotable, KeysOf, SafeInv, Stored
  <2>2. \A k \in Keys : Shown(k)' <=> Shown(k) \/ k \in K
    <3>1. photos' = photos \cup NewPhotos(r, offset)
      BY <1>5 DEF InsertPhotos
    <3>2. \A new \in NewPhotos(r, offset) : new.key \in K
      BY DEF NewPhotos, KeysOf
    <3>3. ASSUME NEW i \in DOMAIN keys[r]
          PROVE  \E new \in NewPhotos(r, offset) : new.key = keys[r][i]
      <4>. DEFINE new == [parent |-> job[r].parent, page |-> offset + i, key |-> keys[r][i]]
      <4>1. new \in NewPhotos(r, offset) /\ new.key = keys[r][i]
        BY DEF NewPhotos
      <4>. QED
        BY <4>1
    <3>. QED
      BY <3>1, <3>2, <3>3 DEF Shown, KeysOf
  <2>. HIDE DEF K
  <2>3. \A k \in K : custody[k] = "pending" /\ custody'[k] = "published"
    BY <1>5, <1>a, <2>1, <2>2, CustodyAfter
  <2>4. \A k \in Keys \ K : custody'[k] = custody[k]
    BY <1>0, <1>5, <2>1, <2>2, CustodyKept
  <2>5. custody' = [k \in Keys |-> IF k \in K THEN "published"
                                   ELSE IF k \in {} THEN "condemned" ELSE custody[k]]
    <3>1. custody' = [k \in Keys |-> custody'[k]]
      BY DEF custody
    <3>. QED
      BY <2>3, <2>4, <3>1
  <2>6. Custody!Publish(K, {})
    BY <1>5, <2>1, <2>3, <2>5 DEF Custody!Publish, Custody!AllAt
  <2>. QED
    BY <2>1, <2>6 DEF Custody!Next
<1>6. ASSUME NEW r \in Requests, ReplaceRotatedPhoto(r)
      PROVE  Custody!Next
  <2>. DEFINE old == [parent |-> job[r].parent, page |-> job[r].page, key |-> job[r].old]
              new == [old EXCEPT !.key = keys[r][1]]
  <2>1. /\ old \in photos /\ new.key = keys[r][1]
        /\ photos' = (photos \ {old}) \cup {new}
        /\ deletions' = [deletions EXCEPT ![new.key] = "none", ![old.key] = "due"]
        /\ UNCHANGED <<issued, store>>
    BY <1>6 DEF ReplaceRotatedPhoto
  <2>2. 1 \in DOMAIN keys[r] /\ done[r] = 1
    <3>1. keys[r] \in Seq(Keys) /\ Len(keys[r]) = 1 /\ done[r] = 1
      BY <1>0, <1>6 DEF ReplaceRotatedPhoto, Ready, TypeInv, RequestsOK
    <3>. QED
      BY <3>1
  <2>3. /\ new.key \in Keys /\ old.key \in Keys /\ new.key \in store
        /\ deletions[new.key] = "held" /\ deletions[old.key] = "none"
    BY <1>0, <2>1, <2>2 DEF WritersHold, SafeInv, Stored, Published
  <2>. HIDE DEF old, new
  <2>4. /\ \A k \in Keys : Shown(k)' <=> (Shown(k) /\ k # old.key) \/ k = new.key
        /\ Shown(old.key) /\ old.key \in issued
    BY <1>0, <2>1, <2>3 DEF Shown, SafeInv, Owned, Issued
  <2>5. custody[new.key] = "pending" /\ custody'[new.key] = "published"
    BY <1>a, <2>1, <2>3, <2>4, CustodyAfter
  <2>6. custody[old.key] = "published" /\ custody'[old.key] = "condemned"
    <3>1. deletions'[old.key] = "due"
      BY <1>0, <2>1, <2>3
    <3>. QED
      BY <2>1, <2>3, <2>4, <3>1, CustodyBefore, CustodyAfter
  <2>7. \A k \in Keys \ {old.key, new.key} : custody'[k] = custody[k]
    BY <1>0, <2>1, <2>4, CustodyKept
  <2>8. custody' = [k \in Keys |-> IF k \in {new.key} THEN "published"
                                   ELSE IF k \in {old.key} THEN "condemned" ELSE custody[k]]
    <3>1. custody' = [k \in Keys |-> custody'[k]]
      BY DEF custody
    <3>. QED
      BY <2>3, <2>5, <2>6, <2>7, <3>1
  <2>9. Custody!Publish({new.key}, {old.key})
    BY <2>1, <2>3, <2>5, <2>6, <2>8 DEF Custody!Publish, Custody!AllAt
  <2>. QED
    BY <2>3, <2>9 DEF Custody!Next
<1>7. ASSUME NEW p \in Parents, QueueAndRemove(p)
      PROVE  Custody!Next
  <2>. DEFINE K == {ph.key : ph \in PhotosOf(p)}
  <2>1. /\ K \in SUBSET Keys
        /\ \A k \in K : deletions'[k] = "due"
        /\ \A k \in Keys \ K : deletions'[k] = deletions[k]
        /\ UNCHANGED <<issued, store>>
    BY <1>0, <1>7 DEF QueueAndRemove, PhotosOf
  <2>2. \A k \in K : Shown(k) /\ ~Shown(k)' /\ k \in issued
    BY <1>7 DEF QueueAndRemove, PhotosOf, Shown, SafeInv, Owned, Issued
  <2>3. \A k \in Keys \ K : Shown(k)' <=> Shown(k)
    BY <1>7 DEF QueueAndRemove, PhotosOf, Shown
  <2>. HIDE DEF K
  <2>4. \A k \in K : custody[k] = "published" /\ custody'[k] = "condemned"
    BY <2>1, <2>2, CustodyBefore, CustodyAfter
  <2>5. \A k \in Keys \ K : custody'[k] = custody[k]
    BY <1>0, <2>1, <2>3, CustodyKept
  <2>6. Custody!Condemn(K)
    BY <2>1, <2>4, <2>5, CustodyAdvance DEF Custody!Condemn, Custody!AllAt
  <2>. QED
    BY <2>1, <2>6 DEF Custody!Next
<1>8. ASSUME NEW k \in Keys, Land(k)
      PROVE  [Custody!Next]_(Custody!vars)
  <2>1. deletions[k] = "held"
    BY <1>8 DEF Land, WritersHold
  <2>. QED
    BY <1>8, <1>b, <1>c, <2>1 DEF Land, dbVars
<1>9. ASSUME NEW k \in Keys, Expire(k)
      PROVE  Custody!Next
  <2>1. /\ deletions[k] = "held" /\ deletions'[k] = "due"
        /\ \A j \in Keys \ {k} : deletions'[j] = deletions[j]
        /\ UNCHANGED <<photos, issued, store>>
    BY <1>0, <1>9 DEF Expire
  <2>2. custody[k] = "pending" /\ custody'[k] = "condemned"
    BY <1>a, <2>1, CustodyAfter DEF Shown
  <2>3. \A j \in Keys \ {k} : custody'[j] = custody[j]
    BY <1>0, <2>1, CustodyKept DEF Shown
  <2>4. Custody!Condemn({k})
    BY <2>1, <2>2, <2>3, CustodyAdvance DEF Custody!Condemn, Custody!AllAt
  <2>. QED
    BY <2>4 DEF Custody!Next
<1>10. ASSUME NEW w \in Workers, NEW K \in SUBSET Keys, Claim(w, K)
       PROVE  UNCHANGED Custody!vars
  <2>1. /\ \A k \in Keys :
              \/ deletions'[k] = deletions[k]
              \/ deletions'[k] = "claimed" /\ deletions[k] \in {"due", "claimed"}
        /\ UNCHANGED <<photos, issued, store>>
    BY <1>10 DEF Claim, Claimable
  <2>2. \A k \in Keys : custody'[k] = custody[k]
    BY <1>0, <2>1, CustodyKept DEF Shown
  <2>. QED
    BY <2>1, <2>2, CustodyStutters DEF Custody!vars
<1>11. ASSUME NEW w \in Workers, NEW k \in Keys, EraseObject(w, k) \/ SkipObject(w, k)
       PROVE  [Custody!Next]_(Custody!vars)
  <2>1. /\ k \in batch[w] /\ store' \in {store, store \ {k}}
        /\ UNCHANGED <<photos, deletions, issued>>
    BY <1>11 DEF EraseObject, SkipObject, dbVars
  <2>2. k \in issued /\ ~Shown(k) /\ deletions[k] # "held"
    BY <2>1 DEF SafeInv, Workable, Shown
  <2>3. custody' = custody
    BY <2>1 DEF custody, AttachedKeys
  <2>4. CASE deletions[k] = "none"
    <3>1. k \notin store
      BY <2>2, <2>4 DEF NoLeak, Shown
    <3>2. store' = store
      BY <2>1, <3>1
    <3>. QED
      BY <2>3, <3>2 DEF Custody!vars
  <2>5. CASE deletions[k] \in {"due", "claimed"}
    <3>1. custody[k] = "condemned"
      BY <2>2, <2>5, CustodyBefore
    <3>2. CASE store' = store \ {k}
      <4>1. Custody!Erase(k)
        BY <2>3, <3>1, <3>2 DEF Custody!Erase, Custody!AllAt
      <4>. QED
        BY <4>1 DEF Custody!Next
    <3>3. CASE store' = store
      BY <2>3, <3>3 DEF Custody!vars
    <3>. QED
      BY <2>1, <3>2, <3>3
  <2>. QED
    BY <1>0, <2>2, <2>4, <2>5 DEF RowStates
<1>12. ASSUME NEW w \in Workers, CompleteDeletion(w)
       PROVE  [Custody!Next]_(Custody!vars)
  <2>. DEFINE k == erased[w]
  <2>1. /\ k \in Keys /\ k \notin store
        /\ deletions' = [deletions EXCEPT ![k] = IF @ = "claimed" THEN "none" ELSE @]
        /\ UNCHANGED <<photos, issued, store>>
    BY <1>12 DEF CompleteDeletion, ErasedGone, TypeInv, TypeOK
  <2>2. k \in issued /\ ~Shown(k)
    BY <2>1 DEF SafeInv, Workable, Shown
  <2>. HIDE DEF k
  <2>3. CASE deletions[k] = "claimed"
    <3>1. deletions'[k] = "none" /\ \A j \in Keys \ {k} : deletions'[j] = deletions[j]
      BY <1>0, <2>1, <2>3
    <3>2. custody[k] = "condemned" /\ custody'[k] = "erased"
      BY <2>1, <2>2, <2>3, <3>1, CustodyBefore, CustodyAfter DEF Shown
    <3>3. \A j \in Keys \ {k} : custody'[j] = custody[j]
      BY <1>0, <2>1, <3>1, CustodyKept DEF Shown
    <3>4. Custody!Forget(k)
      BY <2>1, <3>2, <3>3, CustodyAdvance DEF Custody!Forget, Custody!AllAt
    <3>. QED
      BY <2>1, <3>4 DEF Custody!Next
  <2>4. CASE deletions[k] # "claimed"
    <3>1. deletions' = deletions
      BY <1>0, <2>1, <2>4
    <3>. QED
      BY <1>b, <2>1, <3>1
  <2>. QED
    BY <2>3, <2>4
<1>13. ASSUME NEW w \in Workers, StopWorker(w)
       PROVE  UNCHANGED Custody!vars
  BY <1>13, <1>b DEF StopWorker, dbVars
<1>14. CASE UNCHANGED vars
  BY <1>14, <1>b DEF vars, dbVars
<1>15. ASSUME NEW r \in Requests, RequestNext(r)
       PROVE  [Custody!Next]_(Custody!vars)
  <2>1. ASSUME CreateLogbook(r) \/ CreateMessage(r)
        PROVE  Custody!Next
    BY <2>1, <1>5 DEF CreateLogbook, CreateMessage, Ready
  <2>2. ASSUME AppendPhotos(r)
        PROVE  Custody!Next
    <3>1. Cardinality(PhotosOf(job[r].parent)) \in Nat
      BY CountType
    <3>. QED
      BY <2>2, <3>1, <1>5 DEF AppendPhotos, Ready
  <2>3. ASSUME \/ \E b \in Books, n \in 1 .. MaxUpload : BeginLogbook(r, b, n) \/ BeginAppend(r, b, n)
               \/ \E m \in Messages, n \in 0 .. MaxUpload : BeginMessage(r, m, n)
               \/ \E ph \in photos : BeginRotate(r, ph)
        PROVE  UNCHANGED Custody!vars
    BY <2>3, <1>1 DEF BeginLogbook, BeginAppend, BeginMessage, BeginRotate
  <2>. QED
    BY <1>15, <1>2, <1>3, <1>4, <1>6, <2>1, <2>2, <2>3 DEF RequestNext
<1>16. ASSUME NEW w \in Workers, WorkerNext(w)
       PROVE  [Custody!Next]_(Custody!vars)
  BY <1>16, <1>10, <1>11, <1>12, <1>13 DEF WorkerNext
<1>. QED
  BY <1>7, <1>8, <1>9, <1>14, <1>15, <1>16
     DEF Next, Quiescent, DeleteLogbook, DeleteMessage

\* As long as requests are timely, requests and workers together do to each
\* object only what ObjectCustody allows.
THEOREM Refinement ==
  ASSUME TimelyRequests
  PROVE  Spec => ImplementsCustody
<1>1. TypeInv /\ SafeInv /\ LeakInv /\ [Next]_vars => [Custody!Next]_(Custody!vars)
  BY NextRefines
<1>2. Spec => [](TypeInv /\ SafeInv /\ LeakInv)
  BY InitType, NextType, InitLeak, NextLeak, Safety, PTL DEF Spec
<1>. QED
  BY <1>1, <1>2, InitRefines, PTL DEF Spec, ImplementsCustody, Custody!Spec

=============================================================================
