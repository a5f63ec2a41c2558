-------------------------- MODULE LocalStoreProofs --------------------------
(***************************************************************************)
(* The directory of LocalStore never shows a torn object, keeps what was   *)
(* acknowledged, and implements ObjectStore, for any keys and callers and  *)
(* any number of crashes and power losses.                                 *)
(***************************************************************************)
EXTENDS LocalStore, TLAPS

Texts == {"none", "part", "full"}
PutSteps == {"mkdir", "create", "write", "abandon", "sync", "rename", "sync directory"}
Steps == PutSteps \cup {"remove", "ok", "error"}

Putting(c) == call[c].at \in PutSteps

(* The inductive invariant.                                                *)

CallTypes == call \in [Callers -> [op : {"put", "delete"}, key : Keys, at : Steps]]

Types ==
    /\ CallTypes
    /\ directory \in BOOLEAN /\ directories \subseteq BOOLEAN
    /\ name \in [Keys -> Names] /\ names \in [Keys -> SUBSET Names]
    /\ text \in [Keys -> Texts] /\ synced \in [Keys -> BOOLEAN]
    /\ used \subseteq Keys /\ published \subseteq Keys
    /\ acked \subseteq Keys /\ deleted \subseteq Keys
    /\ lost \in BOOLEAN /\ crashes \in Nat /\ losses \in Nat

\* What is in memory is among what a power loss may leave.
Possible ==
    /\ directory \in directories
    /\ \A k \in Keys : name[k] \in names[k] /\ (name[k] # "none" => directory)

\* A file gets its key as a name only when it is on the disk.
WholeOf(k) ==
    /\ synced[k] => text[k] = "full"
    /\ "key" \in names[k] => synced[k] /\ k \in published

Whole == \A k \in Keys : WholeOf(k)

\* A key is put once, by one caller.
UnusedOf(k) == k \notin used => k \notin acked /\ names[k] = {"none"} /\ ~synced[k]

Once ==
    /\ \A k \in Keys : UnusedOf(k)
    /\ \A c \in Callers : Putting(c) => call[c].key \in used \ acked
    /\ \A c, d \in Callers : Putting(c) /\ Putting(d) /\ call[c].key = call[d].key => c = d

\* How far the file is at each step of a call.
ProgressOf(c) ==
    LET k == call[c].key IN
        /\ call[c].op = "put" => call[c].at # "remove"
        /\ call[c].op = "delete" => call[c].at \notin PutSteps
        /\ call[c].at \in {"mkdir", "create"} => name[k] = "none" /\ ~synced[k]
        /\ call[c].at \in {"write", "abandon", "sync"} => name[k] = "temporary" /\ ~synced[k]
        /\ call[c].at = "sync" => text[k] = "full"
        /\ call[c].at = "rename" => name[k] = "temporary" /\ synced[k]
        /\ call[c].at = "sync directory" =>
               name[k] # "temporary" /\ (k \notin deleted => name[k] = "key")
        /\ call[c].at = "remove" => k \in deleted

Progress == \A c \in Callers : ProgressOf(c)

\* What was acknowledged has no other name on the disk.
KeptOf(k) == ~lost /\ k \in acked \ deleted => names[k] = {"key"}

Kept == \A k \in Keys : KeptOf(k)

StoreInv == Types /\ Possible /\ Whole /\ Once /\ Progress /\ Kept

-----------------------------------------------------------------------------
USE DEF Names, Texts, Steps, PutSteps

\* The empty directory satisfies the invariant.
LEMMA InitInv == Init => StoreInv
<1>. SUFFICES ASSUME Init PROVE StoreInv
  OBVIOUS
<1>. USE LocalStoreAssumption DEF Init
<1>1. Types
  BY DEF Types, CallTypes
<1>2. Possible
  BY DEF Possible
<1>3. Whole
  BY DEF Whole, WholeOf
<1>4. Once
  BY DEF Once, UnusedOf, Putting
<1>5. Progress
  BY DEF Progress, ProgressOf
<1>6. Kept
  BY DEF Kept, KeptOf
<1>. QED
  BY <1>1, <1>2, <1>3, <1>4, <1>5, <1>6 DEF StoreInv

\* A step of one caller leaves its operation, its key and the other callers.
LEMMA GoesEffect ==
  ASSUME CallTypes, NEW c \in Callers, NEW s \in Steps, Goes(c, s)
  PROVE  /\ CallTypes'
         /\ \A d \in Callers : call[d].key \in Keys /\ call[d].at \in Steps
         /\ call'[c].op = call[c].op /\ call'[c].key = call[c].key /\ call'[c].at = s
         /\ \A d \in Callers \ {c} : call'[d] = call[d]
BY DEF CallTypes, Goes

\* Renaming a file leaves the other files.
LEMMA RenamedEffect ==
  ASSUME Types, NEW k \in Keys, NEW n \in Names, Renamed(k, n)
  PROVE  /\ name' \in [Keys -> Names] /\ names' \in [Keys -> SUBSET Names]
         /\ name'[k] = n /\ names'[k] = names[k] \cup {n}
         /\ \A j \in Keys \ {k} : name'[j] = name[j] /\ names'[j] = names[j]
BY DEF Types, Renamed

\* While a caller puts a key nobody else does, and it is not acknowledged.
LEMMA Alone ==
  ASSUME Once, NEW c \in Callers, Putting(c)
  PROVE  /\ call[c].key \in used /\ call[c].key \notin acked
         /\ \A d \in Callers \ {c} : Putting(d) => call[d].key # call[c].key
BY DEF Once

\* A new call of one caller leaves the others.
LEMMA CallEffect ==
  ASSUME CallTypes, NEW c \in Callers, NEW k \in Keys, NEW op \in {"put", "delete"}, NEW s \in Steps,
         call' = [call EXCEPT ![c] = [op |-> op, key |-> k, at |-> s]]
  PROVE  /\ CallTypes'
         /\ \A d \in Callers : call[d].key \in Keys
         /\ call'[c].op = op /\ call'[c].key = k /\ call'[c].at = s
         /\ \A d \in Callers \ {c} : call'[d] = call[d]
BY DEF CallTypes

\* A call of Put finds a key that nobody used.
LEMMA CallPutInv ==
  ASSUME StoreInv, NEW c \in Callers, NEW k \in Keys, CallPut(c, k)
  PROVE  StoreInv'
<1>1. /\ Returned(c) /\ k \notin used /\ used' = used \cup {k}
      /\ acked' = acked /\ deleted' = deleted /\ lost' = lost
      /\ published' = published /\ crashes' = crashes /\ losses' = losses
      /\ name' = name /\ names' = names /\ text' = text /\ synced' = synced
      /\ directory' = directory /\ directories' = directories
  BY DEF CallPut, disk
<1>2. /\ CallTypes'
      /\ \A d \in Callers : call[d].key \in Keys
      /\ call'[c].op = "put" /\ call'[c].key = k /\ call'[c].at = "mkdir"
      /\ \A d \in Callers \ {c} : call'[d] = call[d]
  BY CallEffect DEF StoreInv, Types, CallPut
<1>3. k \notin acked /\ name[k] = "none" /\ ~synced[k]
  BY <1>1 DEF StoreInv, Once, UnusedOf, Possible
<1>4. Types'
  BY <1>1, <1>2 DEF StoreInv, Types
<1>5. Possible'
  BY <1>1 DEF StoreInv, Possible
<1>6. Whole'
  BY <1>1 DEF StoreInv, Whole, WholeOf
<1>7. Once'
  <2>1. \A j \in Keys : UnusedOf(j)'
    BY <1>1 DEF StoreInv, Once, UnusedOf
  <2>2. \A d \in Callers : Putting(d)' /\ d # c => Putting(d) /\ call'[d].key = call[d].key
    BY <1>2 DEF Putting
  <2>3. \A d \in Callers : Putting(d)' => call'[d].key \in used' \ acked'
    BY <1>1, <1>2, <1>3, <2>2 DEF StoreInv, Once
  <2>4. \A d \in Callers : Putting(d) => call[d].key # k
    BY <1>1 DEF StoreInv, Once
  <2>. QED
    BY <1>2, <2>1, <2>2, <2>3, <2>4 DEF StoreInv, Once
<1>8. Progress'
  <2>1. ProgressOf(c)'
    BY <1>1, <1>2, <1>3 DEF ProgressOf
  <2>2. ASSUME NEW d \in Callers, d # c PROVE ProgressOf(d)'
    <3>1. ProgressOf(d) /\ call'[d] = call[d]
      BY <1>2, <2>2 DEF StoreInv, Progress
    <3>. QED
      BY <1>1, <3>1 DEF ProgressOf
  <2>. QED
    BY <2>1, <2>2 DEF Progress
<1>9. Kept'
  BY <1>1 DEF StoreInv, Kept, KeptOf
<1>. QED
  BY <1>4, <1>5, <1>6, <1>7, <1>8, <1>9 DEF StoreInv

\* A call of Delete withdraws what was promised about its key.
LEMMA CallDeleteInv ==
  ASSUME StoreInv, NEW c \in Callers, NEW k \in Keys, CallDelete(c, k)
  PROVE  StoreInv'
<1>1. /\ Returned(c) /\ deleted' = deleted \cup {k}
      /\ acked' = acked /\ used' = used /\ lost' = lost
      /\ published' = published /\ crashes' = crashes /\ losses' = losses
      /\ name' = name /\ names' = names /\ text' = text /\ synced' = synced
      /\ directory' = directory /\ directories' = directories
  BY DEF CallDelete, disk
<1>2. /\ CallTypes'
      /\ \A d \in Callers : call[d].key \in Keys
      /\ call'[c].op = "delete" /\ call'[c].key = k /\ call'[c].at = "remove"
      /\ \A d \in Callers \ {c} : call'[d] = call[d]
  BY CallEffect DEF StoreInv, Types, CallDelete
<1>3. Types'
  BY <1>1, <1>2 DEF StoreInv, Types
<1>4. Possible'
  BY <1>1 DEF StoreInv, Possible
<1>5. Whole'
  BY <1>1 DEF StoreInv, Whole, WholeOf
<1>6. Once'
  <2>1. \A d \in Callers : Putting(d)' => Putting(d) /\ call'[d].key = call[d].key
    BY <1>2 DEF Putting
  <2>. QED
    BY <1>1, <2>1 DEF StoreInv, Once, UnusedOf
<1>7. Progress'
  <2>1. ProgressOf(c)'
    BY <1>1, <1>2 DEF ProgressOf
  <2>2. ASSUME NEW d \in Callers, d # c PROVE ProgressOf(d)'
    <3>1. ProgressOf(d) /\ call'[d] = call[d]
      BY <1>2, <2>2 DEF StoreInv, Progress
    <3>. QED
      BY <1>1, <3>1 DEF ProgressOf
  <2>. QED
    BY <2>1, <2>2 DEF Progress
<1>8. Kept'
  BY <1>1 DEF StoreInv, Kept, KeptOf
<1>. QED
  BY <1>3, <1>4, <1>5, <1>6, <1>7, <1>8 DEF StoreInv

\* MkdirAll adds the directory.
LEMMA MkdirAllInv ==
  ASSUME StoreInv, NEW c \in Callers, NEW k \in Keys, call[c].key = k, MkdirAll(c)
  PROVE  StoreInv'
<1>. USE DEF StoreInv, MkdirAll, At, history
<1>1. Types /\ CallTypes /\ Goes(c, "create")
  BY DEF Types
<1>2. /\ CallTypes'
      /\ \A d \in Callers : call[d].key \in Keys
      /\ call'[c].op = call[c].op /\ call'[c].key = k /\ call'[c].at = "create"
      /\ \A d \in Callers \ {c} : call'[d] = call[d]
  BY <1>1, GoesEffect
<1>3. /\ k \in used /\ k \notin acked
      /\ \A d \in Callers \ {c} : Putting(d) => call[d].key # k
  BY Alone DEF Putting
<1>5. ProgressOf(c) /\ WholeOf(k) /\ KeptOf(k)
  BY <1>2 DEF Progress, Whole, Kept
<1>6. Types'
  BY <1>2, <1>3 DEF Types
<1>7. Possible'
  BY <1>2, <1>3, <1>5 DEF Types, Possible, ProgressOf
<1>8. Whole'
  <2>1. WholeOf(k)'
    BY <1>2, <1>3, <1>5 DEF WholeOf, Types, ProgressOf
  <2>2. ASSUME NEW j \in Keys, j # k PROVE WholeOf(j)'
    <3>1. WholeOf(j)
      BY DEF Whole
    <3>. QED
      BY <1>2, <1>3, <2>2, <3>1 DEF WholeOf, Types
  <2>. QED
    BY <2>1, <2>2 DEF Whole
<1>9. Once'
  <2>1. \A j \in Keys : UnusedOf(j)'
    BY <1>2, <1>3 DEF Once, UnusedOf, Types
  <2>2. \A d \in Callers : Putting(d)' => Putting(d) /\ call'[d].key = call[d].key
    BY <1>2, <1>3 DEF Putting
  <2>3. \A d \in Callers : Putting(d)' => call'[d].key \in used' \ acked'
    BY <1>2, <1>3, <2>2 DEF Once
  <2>. QED
    BY <2>1, <2>2, <2>3 DEF Once
<1>10. Progress'
  <2>1. ProgressOf(c)'
    BY <1>2, <1>3, <1>5 DEF Types, ProgressOf
  <2>2. ASSUME NEW d \in Callers, d # c PROVE ProgressOf(d)'
    <3>1. ProgressOf(d) /\ call'[d] = call[d] /\ call[d].key \in Keys
      BY <1>2, <2>2 DEF Progress
    <3>2. CASE call[d].key = k
      BY <1>3, <2>2, <3>1, <3>2 DEF ProgressOf, Putting
    <3>3. CASE call[d].key # k
      <4>1. /\ name'[call[d].key] = name[call[d].key] /\ text'[call[d].key] = text[call[d].key]
            /\ synced'[call[d].key] = synced[call[d].key]
        BY <1>2, <1>3, <3>1, <3>3 DEF Types
      <4>. QED
        BY <3>1, <4>1 DEF ProgressOf
    <3>. QED
      BY <3>2, <3>3
  <2>. QED
    BY <2>1, <2>2 DEF Progress
<1>11. Kept'
  <2>1. KeptOf(k)'
    BY <1>2, <1>3, <1>5 DEF KeptOf, Types, ProgressOf
  <2>2. ASSUME NEW j \in Keys, j # k PROVE KeptOf(j)'
    <3>1. KeptOf(j)
      BY DEF Kept
    <3>. QED
      BY <1>2, <1>3, <2>2, <3>1 DEF KeptOf, Types
  <2>. QED
    BY <2>1, <2>2 DEF Kept
<1>. QED
  BY <1>6, <1>7, <1>8, <1>9, <1>10, <1>11

\* CreateTemp gives the file its first name.
LEMMA CreateTemporaryInv ==
  ASSUME StoreInv, NEW c \in Callers, NEW k \in Keys, call[c].key = k, CreateTemporary(c)
  PROVE  StoreInv'
<1>. USE DEF StoreInv, CreateTemporary, At, history
<1>1. Types /\ CallTypes /\ Goes(c, "write")
  BY DEF Types
<1>2. /\ CallTypes'
      /\ \A d \in Callers : call[d].key \in Keys
      /\ call'[c].op = call[c].op /\ call'[c].key = k /\ call'[c].at = "write"
      /\ \A d \in Callers \ {c} : call'[d] = call[d]
  BY <1>1, GoesEffect
<1>3. /\ k \in used /\ k \notin acked
      /\ \A d \in Callers \ {c} : Putting(d) => call[d].key # k
  BY Alone DEF Putting
<1>4. /\ name' \in [Keys -> Names] /\ names' \in [Keys -> SUBSET Names]
      /\ name'[k] = "temporary" /\ names'[k] = names[k] \cup {"temporary"}
      /\ \A j \in Keys \ {k} : name'[j] = name[j] /\ names'[j] = names[j]
  BY <1>1, <1>2, RenamedEffect
<1>5. ProgressOf(c) /\ WholeOf(k) /\ KeptOf(k)
  BY <1>2 DEF Progress, Whole, Kept
<1>6. Types'
  <2>1. UNCHANGED <<directory, directories, text, synced, used, acked, deleted, lost, crashes, losses>>
    OBVIOUS
  <2>2. published' \subseteq Keys
    BY <1>1, <1>2 DEF Types
  <2>. QED
    BY <1>1, <1>2, <1>4, <2>1, <2>2 DEF Types
<1>7. Possible'
  <2>1. directory' \in directories' /\ directory'
    BY DEF Possible
  <2>2. \A j \in Keys : name'[j] \in names'[j]
    BY <1>4 DEF Possible
  <2>. QED
    BY <2>1, <2>2 DEF Possible
<1>8. Whole'
  <2>1. WholeOf(k)'
    BY <1>2, <1>3, <1>4, <1>5 DEF WholeOf, Types, ProgressOf
  <2>2. ASSUME NEW j \in Keys, j # k PROVE WholeOf(j)'
    <3>1. WholeOf(j)
      BY DEF Whole
    <3>. QED
      BY <1>2, <1>3, <1>4, <2>2, <3>1 DEF WholeOf, Types
  <2>. QED
    BY <2>1, <2>2 DEF Whole
<1>9. Once'
  <2>1. \A j \in Keys : UnusedOf(j)'
    BY <1>2, <1>3, <1>4 DEF Once, UnusedOf, Types
  <2>2. \A d \in Callers : Putting(d)' => Putting(d) /\ call'[d].key = call[d].key
    BY <1>2, <1>3, <1>4 DEF Putting
  <2>3. \A d \in Callers : Putting(d)' => call'[d].key \in used' \ acked'
    BY <1>2, <1>3, <1>4, <2>2 DEF Once
  <2>. QED
    BY <2>1, <2>2, <2>3 DEF Once
<1>10. Progress'
  <2>1. ProgressOf(c)'
    BY <1>2, <1>3, <1>4, <1>5 DEF Types, ProgressOf
  <2>2. ASSUME NEW d \in Callers, d # c PROVE ProgressOf(d)'
    <3>1. ProgressOf(d) /\ call'[d] = call[d] /\ call[d].key \in Keys
      BY <1>2, <2>2 DEF Progress
    <3>2. CASE call[d].key = k
      BY <1>3, <2>2, <3>1, <3>2 DEF ProgressOf, Putting
    <3>3. CASE call[d].key # k
      <4>1. /\ name'[call[d].key] = name[call[d].key] /\ text'[call[d].key] = text[call[d].key]
            /\ synced'[call[d].key] = synced[call[d].key]
        BY <1>2, <1>3, <1>4, <3>1, <3>3 DEF Types
      <4>. QED
        BY <3>1, <4>1 DEF ProgressOf
    <3>. QED
      BY <3>2, <3>3
  <2>. QED
    BY <2>1, <2>2 DEF Progress
<1>11. Kept'
  <2>1. KeptOf(k)'
    BY <1>2, <1>3, <1>4, <1>5 DEF KeptOf, Types, ProgressOf
  <2>2. ASSUME NEW j \in Keys, j # k PROVE KeptOf(j)'
    <3>1. KeptOf(j)
      BY DEF Kept
    <3>. QED
      BY <1>2, <1>3, <1>4, <2>2, <3>1 DEF KeptOf, Types
  <2>. QED
    BY <2>1, <2>2 DEF Kept
<1>. QED
  BY <1>6, <1>7, <1>8, <1>9, <1>10, <1>11

\* Sync puts a whole file on the disk.
LEMMA SyncAndCloseInv ==
  ASSUME StoreInv, NEW c \in Callers, NEW k \in Keys, call[c].key = k, SyncAndClose(c)
  PROVE  StoreInv'
<1>. USE DEF StoreInv, SyncAndClose, At, history
<1>1. Types /\ CallTypes /\ Goes(c, "rename")
  BY DEF Types
<1>2. /\ CallTypes'
      /\ \A d \in Callers : call[d].key \in Keys
      /\ call'[c].op = call[c].op /\ call'[c].key = k /\ call'[c].at = "rename"
      /\ \A d \in Callers \ {c} : call'[d] = call[d]
  BY <1>1, GoesEffect
<1>3. /\ k \in used /\ k \notin acked
      /\ \A d \in Callers \ {c} : Putting(d) => call[d].key # k
  BY Alone DEF Putting
<1>5. ProgressOf(c) /\ WholeOf(k) /\ KeptOf(k)
  BY <1>2 DEF Progress, Whole, Kept
<1>6. Types'
  BY <1>2, <1>3 DEF Types
<1>7. Possible'
  BY <1>2, <1>3, <1>5 DEF Types, Possible, ProgressOf
<1>8. Whole'
  <2>1. WholeOf(k)'
    BY <1>2, <1>3, <1>5 DEF WholeOf, Types, ProgressOf
  <2>2. ASSUME NEW j \in Keys, j # k PROVE WholeOf(j)'
    <3>1. WholeOf(j)
      BY DEF Whole
    <3>. QED
      BY <1>2, <1>3, <2>2, <3>1 DEF WholeOf, Types
  <2>. QED
    BY <2>1, <2>2 DEF Whole
<1>9. Once'
  <2>1. \A j \in Keys : UnusedOf(j)'
    BY <1>2, <1>3 DEF Once, UnusedOf, Types
  <2>2. \A d \in Callers : Putting(d)' => Putting(d) /\ call'[d].key = call[d].key
    BY <1>2, <1>3 DEF Putting
  <2>3. \A d \in Callers : Putting(d)' => call'[d].key \in used' \ acked'
    BY <1>2, <1>3, <2>2 DEF Once
  <2>. QED
    BY <2>1, <2>2, <2>3 DEF Once
<1>10. Progress'
  <2>1. ProgressOf(c)'
    BY <1>2, <1>3, <1>5 DEF Types, ProgressOf
  <2>2. ASSUME NEW d \in Callers, d # c PROVE ProgressOf(d)'
    <3>1. ProgressOf(d) /\ call'[d] = call[d] /\ call[d].key \in Keys
      BY <1>2, <2>2 DEF Progress
    <3>2. CASE call[d].key = k
      BY <1>3, <2>2, <3>1, <3>2 DEF ProgressOf, Putting
    <3>3. CASE call[d].key # k
      <4>1. /\ name'[call[d].key] = name[call[d].key] /\ text'[call[d].key] = text[call[d].key]
            /\ synced'[call[d].key] = synced[call[d].key]
        BY <1>2, <1>3, <3>1, <3>3 DEF Types
      <4>. QED
        BY <3>1, <4>1 DEF ProgressOf
    <3>. QED
      BY <3>2, <3>3
  <2>. QED
    BY <2>1, <2>2 DEF Progress
<1>11. Kept'
  <2>1. KeptOf(k)'
    BY <1>2, <1>3, <1>5 DEF KeptOf, Types, ProgressOf
  <2>2. ASSUME NEW j \in Keys, j # k PROVE KeptOf(j)'
    <3>1. KeptOf(j)
      BY DEF Kept
    <3>. QED
      BY <1>2, <1>3, <2>2, <3>1 DEF KeptOf, Types
  <2>. QED
    BY <2>1, <2>2 DEF Kept
<1>. QED
  BY <1>6, <1>7, <1>8, <1>9, <1>10, <1>11

\* The file gets its key once it is synced.
LEMMA RenameInv ==
  ASSUME StoreInv, NEW c \in Callers, NEW k \in Keys, call[c].key = k, Rename(c)
  PROVE  StoreInv'
<1>. USE DEF StoreInv, Rename, At
<1>1. Types /\ CallTypes /\ Goes(c, "sync directory")
  BY DEF Types
<1>2. /\ CallTypes'
      /\ \A d \in Callers : call[d].key \in Keys
      /\ call'[c].op = call[c].op /\ call'[c].key = k /\ call'[c].at = "sync directory"
      /\ \A d \in Callers \ {c} : call'[d] = call[d]
  BY <1>1, GoesEffect
<1>3. /\ k \in used /\ k \notin acked
      /\ \A d \in Callers \ {c} : Putting(d) => call[d].key # k
  BY Alone DEF Putting
<1>4. /\ name' \in [Keys -> Names] /\ names' \in [Keys -> SUBSET Names]
      /\ name'[k] = "key" /\ names'[k] = names[k] \cup {"key"}
      /\ \A j \in Keys \ {k} : name'[j] = name[j] /\ names'[j] = names[j]
  BY <1>1, <1>2, RenamedEffect
<1>5. ProgressOf(c) /\ WholeOf(k) /\ KeptOf(k)
  BY <1>2 DEF Progress, Whole, Kept
<1>6. Types'
  <2>1. UNCHANGED <<directory, directories, text, synced, used, acked, deleted, lost, crashes, losses>>
    OBVIOUS
  <2>2. published' \subseteq Keys
    BY <1>1, <1>2 DEF Types
  <2>. QED
    BY <1>1, <1>2, <1>4, <2>1, <2>2 DEF Types
<1>7. Possible'
  <2>1. directory' \in directories' /\ directory'
    BY <1>2, <1>5 DEF Types, Possible, ProgressOf
  <2>2. \A j \in Keys : name'[j] \in names'[j]
    BY <1>4 DEF Possible
  <2>. QED
    BY <2>1, <2>2 DEF Possible
<1>8. Whole'
  <2>1. WholeOf(k)'
    BY <1>2, <1>3, <1>4, <1>5 DEF WholeOf, Types, ProgressOf
  <2>2. ASSUME NEW j \in Keys, j # k PROVE WholeOf(j)'
    <3>1. WholeOf(j)
      BY DEF Whole
    <3>. QED
      BY <1>2, <1>3, <1>4, <2>2, <3>1 DEF WholeOf, Types
  <2>. QED
    BY <2>1, <2>2 DEF Whole
<1>9. Once'
  <2>1. \A j \in Keys : UnusedOf(j)'
    BY <1>2, <1>3, <1>4 DEF Once, UnusedOf, Types
  <2>2. \A d \in Callers : Putting(d)' => Putting(d) /\ call'[d].key = call[d].key
    BY <1>2, <1>3, <1>4 DEF Putting
  <2>3. \A d \in Callers : Putting(d)' => call'[d].key \in used' \ acked'
    BY <1>2, <1>3, <1>4, <2>2 DEF Once
  <2>. QED
    BY <2>1, <2>2, <2>3 DEF Once
<1>10. Progress'
  <2>1. ProgressOf(c)'
    BY <1>2, <1>3, <1>4, <1>5 DEF Types, ProgressOf
  <2>2. ASSUME NEW d \in Callers, d # c PROVE ProgressOf(d)'
    <3>1. ProgressOf(d) /\ call'[d] = call[d] /\ call[d].key \in Keys
      BY <1>2, <2>2 DEF Progress
    <3>2. CASE call[d].key = k
      BY <1>3, <2>2, <3>1, <3>2 DEF ProgressOf, Putting
    <3>3. CASE call[d].key # k
      <4>1. /\ name'[call[d].key] = name[call[d].key] /\ text'[call[d].key] = text[call[d].key]
            /\ synced'[call[d].key] = synced[call[d].key]
        BY <1>2, <1>3, <1>4, <3>1, <3>3 DEF Types
      <4>. QED
        BY <3>1, <4>1 DEF ProgressOf
    <3>. QED
      BY <3>2, <3>3
  <2>. QED
    BY <2>1, <2>2 DEF Progress
<1>11. Kept'
  <2>1. KeptOf(k)'
    BY <1>2, <1>3, <1>4, <1>5 DEF KeptOf, Types, ProgressOf
  <2>2. ASSUME NEW j \in Keys, j # k PROVE KeptOf(j)'
    <3>1. KeptOf(j)
      BY DEF Kept
    <3>. QED
      BY <1>2, <1>3, <1>4, <2>2, <3>1 DEF KeptOf, Types
  <2>. QED
    BY <2>1, <2>2 DEF Kept
<1>. QED
  BY <1>6, <1>7, <1>8, <1>9, <1>10, <1>11

\* Syncing the directory fixes the names of its files.
LEMMA SyncDirectoryInv ==
  ASSUME StoreInv, NEW c \in Callers, NEW k \in Keys, call[c].key = k, SyncDirectory(c)
  PROVE  StoreInv'
<1>1. /\ Goes(c, "ok") /\ call[c].at = "sync directory"
      /\ names' = [j \in Keys |-> {name[j]}]
      /\ acked' = acked \cup {k} /\ deleted' = deleted /\ lost' = lost /\ used' = used
      /\ published' = published /\ crashes' = crashes /\ losses' = losses
      /\ name' = name /\ synced' = synced /\ text' = text
      /\ directory' = directory /\ directories' = directories
  BY DEF SyncDirectory, At
<1>2. /\ CallTypes'
      /\ \A d \in Callers : call[d].key \in Keys
      /\ call'[c].op = call[c].op /\ call'[c].key = k /\ call'[c].at = "ok"
      /\ \A d \in Callers \ {c} : call'[d] = call[d]
  BY <1>1, GoesEffect DEF StoreInv, Types
<1>3. /\ k \in used /\ k \notin acked
      /\ \A d \in Callers \ {c} : Putting(d) => call[d].key # k
  BY <1>1, Alone DEF StoreInv, Putting
<1>4. \A j \in Keys : name[j] \in names[j] /\ names'[j] = {name[j]}
  BY <1>1 DEF StoreInv, Possible
<1>5. ProgressOf(c) /\ WholeOf(k)
  BY <1>2 DEF StoreInv, Progress, Whole
<1>6. Types'
  <2>1. \A j \in Keys : {name[j]} \in SUBSET Names
    BY DEF StoreInv, Types
  <2>2. names' \in [Keys -> SUBSET Names]
    BY <1>1, <2>1
  <2>. QED
    BY <1>1, <1>2, <2>2 DEF StoreInv, Types
<1>7. Possible'
  BY <1>1, <1>4 DEF StoreInv, Possible
<1>8. Whole'
  BY <1>1, <1>4 DEF StoreInv, Whole, WholeOf
<1>9. Once'
  <2>1. \A j \in Keys : UnusedOf(j)'
    BY <1>1, <1>3, <1>4 DEF StoreInv, Once, UnusedOf
  <2>2. \A d \in Callers : Putting(d)' => d # c /\ Putting(d) /\ call'[d].key = call[d].key
    BY <1>2 DEF Putting
  <2>3. \A d \in Callers : Putting(d)' => call'[d].key \in used' \ acked'
    BY <1>1, <1>3, <2>2 DEF StoreInv, Once
  <2>. QED
    BY <2>1, <2>2, <2>3 DEF StoreInv, Once
<1>10. Progress'
  <2>1. ProgressOf(c)'
    BY <1>1, <1>2, <1>5 DEF ProgressOf
  <2>2. ASSUME NEW d \in Callers, d # c PROVE ProgressOf(d)'
    BY <1>1, <1>2, <2>2 DEF StoreInv, Progress, ProgressOf
  <2>. QED
    BY <2>1, <2>2 DEF Progress
<1>11. Kept'
  <2>1. KeptOf(k)'
    BY <1>1, <1>2, <1>4, <1>5 DEF KeptOf, ProgressOf
  <2>2. ASSUME NEW j \in Keys, j # k PROVE KeptOf(j)'
    BY <1>1, <1>4, <2>2 DEF StoreInv, Kept, KeptOf
  <2>. QED
    BY <2>1, <2>2 DEF Kept
<1>. QED
  BY <1>6, <1>7, <1>8, <1>9, <1>10, <1>11 DEF StoreInv

\* copyExact tells a whole file from a part.
LEMMA CopyExactInv ==
  ASSUME StoreInv, NEW c \in Callers, NEW k \in Keys, call[c].key = k, CopyExact(c)
  PROVE  StoreInv'
<1>1. PICK s \in {"sync", "abandon"}, t \in {"part", "full"} :
          /\ Goes(c, s) /\ text' = [text EXCEPT ![k] = t]
          /\ s = "sync" => t = "full"
  BY DEF CopyExact
<1>2. /\ call[c].at = "write"
      /\ acked' = acked /\ deleted' = deleted /\ lost' = lost /\ used' = used
      /\ published' = published /\ crashes' = crashes /\ losses' = losses
      /\ name' = name /\ names' = names /\ synced' = synced
      /\ directory' = directory /\ directories' = directories
  BY DEF CopyExact, At, history
<1>3. /\ CallTypes'
      /\ \A d \in Callers : call[d].key \in Keys
      /\ call'[c].op = call[c].op /\ call'[c].key = k /\ call'[c].at = s
      /\ \A d \in Callers \ {c} : call'[d] = call[d]
  BY <1>1, GoesEffect DEF StoreInv, Types
<1>4. /\ k \in used /\ k \notin acked
      /\ \A d \in Callers \ {c} : Putting(d) => call[d].key # k
  BY <1>2, Alone DEF StoreInv, Putting
<1>5. ProgressOf(c) /\ WholeOf(k)
  BY DEF StoreInv, Progress, Whole
<1>6. text' \in [Keys -> Texts] /\ text'[k] = t /\ \A j \in Keys \ {k} : text'[j] = text[j]
  BY <1>1 DEF StoreInv, Types
<1>7. Types'
  BY <1>2, <1>3, <1>6 DEF StoreInv, Types
<1>8. Possible'
  BY <1>2 DEF StoreInv, Possible
<1>9. Whole'
  <2>1. WholeOf(k)'
    BY <1>2, <1>5 DEF WholeOf, ProgressOf
  <2>2. ASSUME NEW j \in Keys, j # k PROVE WholeOf(j)'
    BY <1>2, <1>6, <2>2 DEF StoreInv, Whole, WholeOf
  <2>. QED
    BY <2>1, <2>2 DEF Whole
<1>10. Once'
  <2>1. \A d \in Callers : Putting(d)' => Putting(d) /\ call'[d].key = call[d].key
    BY <1>2, <1>3 DEF Putting
  <2>. QED
    BY <1>2, <2>1 DEF StoreInv, Once, UnusedOf
<1>11. Progress'
  <2>1. ProgressOf(c)'
    BY <1>1, <1>2, <1>3, <1>5, <1>6 DEF ProgressOf
  <2>2. ASSUME NEW d \in Callers, d # c PROVE ProgressOf(d)'
    <3>1. ProgressOf(d) /\ call'[d] = call[d] /\ call[d].key \in Keys
      BY <1>3, <2>2 DEF StoreInv, Progress
    <3>2. CASE call[d].key = k
      BY <1>2, <1>4, <2>2, <3>1, <3>2 DEF ProgressOf, Putting
    <3>3. CASE call[d].key # k
      BY <1>2, <1>6, <3>1, <3>3 DEF ProgressOf
    <3>. QED
      BY <3>2, <3>3
  <2>. QED
    BY <2>1, <2>2 DEF Progress
<1>12. Kept'
  BY <1>2 DEF StoreInv, Kept, KeptOf
<1>. QED
  BY <1>7, <1>8, <1>9, <1>10, <1>11, <1>12 DEF StoreInv

\* Delete removes the name of a key whose object nobody is promised any more.
LEMMA DeleteInv ==
  ASSUME StoreInv, NEW c \in Callers, NEW k \in Keys, call[c].key = k, Delete(c)
  PROVE  StoreInv'
<1>1. /\ Goes(c, "ok") /\ call[c].at = "remove"
      /\ acked' = acked /\ deleted' = deleted /\ lost' = lost /\ used' = used
      /\ published' = published /\ crashes' = crashes /\ losses' = losses
      /\ text' = text /\ synced' = synced
      /\ directory' = directory /\ directories' = directories
  BY DEF Delete, At, history
<1>2. /\ CallTypes'
      /\ \A d \in Callers : call[d].key \in Keys
      /\ call'[c].op = call[c].op /\ call'[c].key = k /\ call'[c].at = "ok"
      /\ \A d \in Callers \ {c} : call'[d] = call[d]
  BY <1>1, GoesEffect DEF StoreInv, Types
<1>3. /\ name' \in [Keys -> Names] /\ names' \in [Keys -> SUBSET Names]
      /\ \/ name[k] = "key" /\ name'[k] = "none" /\ names'[k] = names[k] \cup {"none"}
         \/ name[k] # "key" /\ name'[k] = name[k] /\ names'[k] = names[k]
      /\ \A j \in Keys \ {k} : name'[j] = name[j] /\ names'[j] = names[j]
  <2>1. CASE name[k] = "key"
    <3>1. Renamed(k, "none")
      BY <2>1 DEF Delete
    <3>. QED
      BY <2>1, <3>1, RenamedEffect DEF StoreInv
  <2>2. CASE name[k] # "key"
    <3>1. name' = name /\ names' = names
      BY <2>2 DEF Delete
    <3>. QED
      BY <2>2, <3>1 DEF StoreInv, Types
  <2>. QED
    BY <2>1, <2>2
<1>4. k \in deleted
  BY <1>1 DEF StoreInv, Progress, ProgressOf
<1>5. Types'
  BY <1>1, <1>2, <1>3 DEF StoreInv, Types
<1>6. Possible'
  BY <1>1, <1>3 DEF StoreInv, Possible
<1>7. Whole'
  BY <1>1, <1>3 DEF StoreInv, Whole, WholeOf
<1>8. Once'
  <2>1. \A j \in Keys : UnusedOf(j)'
    BY <1>1, <1>3 DEF StoreInv, Once, UnusedOf
  <2>2. \A d \in Callers : Putting(d)' => Putting(d) /\ call'[d].key = call[d].key
    BY <1>2 DEF Putting
  <2>. QED
    BY <1>1, <2>1, <2>2 DEF StoreInv, Once
<1>9. Progress'
  <2>1. ProgressOf(c)'
    BY <1>1, <1>2 DEF ProgressOf, StoreInv, Progress
  <2>2. ASSUME NEW d \in Callers, d # c PROVE ProgressOf(d)'
    <3>1. ProgressOf(d) /\ call'[d] = call[d] /\ call[d].key \in Keys
      BY <1>2, <2>2 DEF StoreInv, Progress
    <3>2. CASE call[d].key = k
      <4>1. text' = text /\ synced' = synced /\ deleted' = deleted
        BY <1>1 DEF history
      <4>2. CASE name[k] = "key"
        <5>1. call[d].at \notin {"mkdir", "create", "write", "abandon", "sync", "rename"}
          BY <3>1, <3>2, <4>2 DEF ProgressOf
        <5>2. name'[k] = "none"
          BY <1>3, <4>2
        <5>. QED
          BY <1>4, <3>1, <3>2, <4>1, <5>1, <5>2 DEF ProgressOf
      <4>3. CASE name[k] # "key"
        <5>1. name'[k] = name[k]
          BY <1>3, <4>3
        <5>. QED
          BY <3>1, <3>2, <4>1, <5>1 DEF ProgressOf
      <4>. QED
        BY <4>2, <4>3
    <3>3. CASE call[d].key # k
      <4>1. name'[call[d].key] = name[call[d].key]
        BY <1>3, <3>1, <3>3
      <4>. QED
        BY <1>1, <3>1, <4>1 DEF ProgressOf
    <3>. QED
      BY <3>2, <3>3
  <2>. QED
    BY <2>1, <2>2 DEF Progress
<1>10. Kept'
  BY <1>1, <1>3, <1>4 DEF StoreInv, Kept, KeptOf
<1>. QED
  BY <1>5, <1>6, <1>7, <1>8, <1>9, <1>10 DEF StoreInv

\* A call that fails early leaves the disk as it is.
LEMMA FailInv ==
  ASSUME StoreInv, NEW c \in Callers, NEW k \in Keys, call[c].key = k, Fail(c)
  PROVE  StoreInv'
<1>. USE DEF StoreInv, Fail, disk, history
<1>1. Types /\ CallTypes /\ Goes(c, "error")
  BY DEF Types
<1>2. /\ CallTypes'
      /\ \A d \in Callers : call[d].key \in Keys
      /\ call'[c].op = call[c].op /\ call'[c].key = k /\ call'[c].at = "error"
      /\ \A d \in Callers \ {c} : call'[d] = call[d]
  BY <1>1, GoesEffect
<1>5. ProgressOf(c) /\ WholeOf(k) /\ KeptOf(k)
  BY <1>2 DEF Progress, Whole, Kept
<1>6. Types'
  BY <1>2 DEF Types
<1>7. Possible'
  BY <1>2, <1>5 DEF Types, Possible, ProgressOf
<1>8. Whole'
  <2>1. WholeOf(k)'
    BY <1>2, <1>5 DEF WholeOf, Types, ProgressOf
  <2>2. ASSUME NEW j \in Keys, j # k PROVE WholeOf(j)'
    <3>1. WholeOf(j)
      BY DEF Whole
    <3>. QED
      BY <1>2, <2>2, <3>1 DEF WholeOf, Types
  <2>. QED
    BY <2>1, <2>2 DEF Whole
<1>9. Once'
  <2>1. \A j \in Keys : UnusedOf(j)'
    BY <1>2 DEF Once, UnusedOf, Types
  <2>2. \A d \in Callers : Putting(d)' => Putting(d) /\ call'[d].key = call[d].key
    BY <1>2 DEF Putting
  <2>3. \A d \in Callers : Putting(d)' => call'[d].key \in used' \ acked'
    BY <1>2, <2>2 DEF Once
  <2>. QED
    BY <2>1, <2>2, <2>3 DEF Once
<1>10. Progress'
  <2>1. ProgressOf(c)'
    BY <1>2, <1>5 DEF Types, ProgressOf
  <2>2. ASSUME NEW d \in Callers, d # c PROVE ProgressOf(d)'
    <3>1. ProgressOf(d) /\ call'[d] = call[d] /\ call[d].key \in Keys
      BY <1>2, <2>2 DEF Progress
    <3>. QED
      BY <2>2, <3>1 DEF ProgressOf
  <2>. QED
    BY <2>1, <2>2 DEF Progress
<1>11. Kept'
  <2>1. KeptOf(k)'
    BY <1>2, <1>5 DEF KeptOf, Types, ProgressOf
  <2>2. ASSUME NEW j \in Keys, j # k PROVE KeptOf(j)'
    <3>1. KeptOf(j)
      BY DEF Kept
    <3>. QED
      BY <1>2, <2>2, <3>1 DEF KeptOf, Types
  <2>. QED
    BY <2>1, <2>2 DEF Kept
<1>. QED
  BY <1>6, <1>7, <1>8, <1>9, <1>10, <1>11

\* A call that fails later removes its temporary file.
LEMMA AbandonInv ==
  ASSUME StoreInv, NEW c \in Callers, NEW k \in Keys, call[c].key = k, Abandon(c)
  PROVE  StoreInv'
<1>. USE DEF StoreInv, Abandon, history
<1>1. Types /\ CallTypes /\ Goes(c, "error")
  BY DEF Types
<1>2. /\ CallTypes'
      /\ \A d \in Callers : call[d].key \in Keys
      /\ call'[c].op = call[c].op /\ call'[c].key = k /\ call'[c].at = "error"
      /\ \A d \in Callers \ {c} : call'[d] = call[d]
  BY <1>1, GoesEffect
<1>3. /\ k \in used /\ k \notin acked
      /\ \A d \in Callers \ {c} : Putting(d) => call[d].key # k
  BY Alone DEF Putting
<1>4. /\ name' \in [Keys -> Names] /\ names' \in [Keys -> SUBSET Names]
      /\ \/ name'[k] = "none" /\ names'[k] = names[k] \cup {"none"}
         \/ name'[k] = name[k] /\ names'[k] = names[k]
      /\ \A j \in Keys \ {k} : name'[j] = name[j] /\ names'[j] = names[j]
  <2>1. CASE Renamed(k, "none")
    BY <1>1, <1>2, <2>1, RenamedEffect
  <2>2. CASE UNCHANGED <<name, names>>
    BY <1>1, <2>2 DEF Types
  <2>. QED
    BY <2>1, <2>2
<1>5. ProgressOf(c) /\ WholeOf(k) /\ KeptOf(k)
  BY <1>2 DEF Progress, Whole, Kept
<1>6. Types'
  BY <1>2, <1>3, <1>4 DEF Types
<1>7. Possible'
  BY <1>2, <1>3, <1>4, <1>5 DEF Types, Possible, ProgressOf
<1>8. Whole'
  <2>1. WholeOf(k)'
    BY <1>2, <1>3, <1>4, <1>5 DEF WholeOf, Types, ProgressOf
  <2>2. ASSUME NEW j \in Keys, j # k PROVE WholeOf(j)'
    <3>1. WholeOf(j)
      BY DEF Whole
    <3>. QED
      BY <1>2, <1>3, <1>4, <2>2, <3>1 DEF WholeOf, Types
  <2>. QED
    BY <2>1, <2>2 DEF Whole
<1>9. Once'
  <2>1. \A j \in Keys : UnusedOf(j)'
    BY <1>2, <1>3, <1>4 DEF Once, UnusedOf, Types
  <2>2. \A d \in Callers : Putting(d)' => Putting(d) /\ call'[d].key = call[d].key
    BY <1>2, <1>3, <1>4 DEF Putting
  <2>3. \A d \in Callers : Putting(d)' => call'[d].key \in used' \ acked'
    BY <1>2, <1>3, <1>4, <2>2 DEF Once
  <2>. QED
    BY <2>1, <2>2, <2>3 DEF Once
<1>10. Progress'
  <2>1. ProgressOf(c)'
    BY <1>2, <1>3, <1>4, <1>5 DEF Types, ProgressOf
  <2>2. ASSUME NEW d \in Callers, d # c PROVE ProgressOf(d)'
    <3>1. ProgressOf(d) /\ call'[d] = call[d] /\ call[d].key \in Keys
      BY <1>2, <2>2 DEF Progress
    <3>2. CASE call[d].key = k
      BY <1>3, <2>2, <3>1, <3>2 DEF ProgressOf, Putting
    <3>3. CASE call[d].key # k
      <4>1. /\ name'[call[d].key] = name[call[d].key] /\ text'[call[d].key] = text[call[d].key]
            /\ synced'[call[d].key] = synced[call[d].key]
        BY <1>2, <1>3, <1>4, <3>1, <3>3 DEF Types
      <4>. QED
        BY <3>1, <4>1 DEF ProgressOf
    <3>. QED
      BY <3>2, <3>3
  <2>. QED
    BY <2>1, <2>2 DEF Progress
<1>11. Kept'
  <2>1. KeptOf(k)'
    BY <1>2, <1>3, <1>4, <1>5 DEF KeptOf, Types, ProgressOf
  <2>2. ASSUME NEW j \in Keys, j # k PROVE KeptOf(j)'
    <3>1. KeptOf(j)
      BY DEF Kept
    <3>. QED
      BY <1>2, <1>3, <1>4, <2>2, <3>1 DEF KeptOf, Types
  <2>. QED
    BY <2>1, <2>2 DEF Kept
<1>. QED
  BY <1>6, <1>7, <1>8, <1>9, <1>10, <1>11

\* The end of the calls under way, by whatever death.
LEMMA StoppedEffect ==
  ASSUME CallTypes, call' = Stopped
  PROVE  /\ CallTypes'
         /\ \A c \in Callers : ~Putting(c)' /\ call'[c].at \in {"ok", "error"}
<1>1. ASSUME NEW c \in Callers
      PROVE  /\ Stopped[c] \in [op : {"put", "delete"}, key : Keys, at : Steps]
             /\ Stopped[c].at \in {"ok", "error"}
  BY DEF CallTypes, Stopped, Returned
<1>2. Stopped = [c \in Callers |-> Stopped[c]]
  BY DEF Stopped
<1>3. CallTypes'
  BY <1>1, <1>2 DEF CallTypes
<1>. QED
  BY <1>1, <1>3 DEF Putting

\* The end of the process ends all calls.
LEMMA CrashInv ==
  ASSUME StoreInv, Crash
  PROVE  StoreInv'
<1>1. /\ crashes' = crashes + 1
      /\ acked' = acked /\ used' = used /\ deleted' = deleted /\ lost' = lost
      /\ published' = published /\ losses' = losses
      /\ name' = name /\ names' = names /\ text' = text /\ synced' = synced
      /\ directory' = directory /\ directories' = directories
  BY DEF Crash, disk
<1>2. /\ CallTypes'
      /\ \A c \in Callers : ~Putting(c)' /\ call'[c].at \in {"ok", "error"}
  BY StoppedEffect DEF StoreInv, Types, Crash
<1>3. Types'
  BY <1>1, <1>2 DEF StoreInv, Types
<1>4. Possible'
  BY <1>1 DEF StoreInv, Possible
<1>5. Whole'
  BY <1>1 DEF StoreInv, Whole, WholeOf
<1>6. Once'
  BY <1>1, <1>2 DEF StoreInv, Once, UnusedOf
<1>7. Progress'
  BY <1>2 DEF Progress, ProgressOf
<1>8. Kept'
  BY <1>1 DEF StoreInv, Kept, KeptOf
<1>. QED
  BY <1>3, <1>4, <1>5, <1>6, <1>7, <1>8 DEF StoreInv

\* A power loss chooses among what the disk may hold.
LEMMA PowerLossInv ==
  ASSUME StoreInv, PowerLoss
  PROVE  StoreInv'
<1>1. /\ losses' = losses + 1
      /\ acked' = acked /\ used' = used /\ deleted' = deleted
      /\ published' = published /\ crashes' = crashes /\ synced' = synced
      /\ directory' \in directories /\ directories' = {directory'}
      /\ lost' = (lost \/ ~directory')
  BY DEF PowerLoss
<1>2. /\ CallTypes'
      /\ \A c \in Callers : ~Putting(c)' /\ call'[c].at \in {"ok", "error"}
  BY StoppedEffect DEF StoreInv, Types, PowerLoss
<1>3. /\ name' \in [Keys -> Names]
      /\ \A k \in Keys : /\ directory' => name'[k] \in names[k]
                         /\ ~directory' => name'[k] = "none"
  BY DEF PowerLoss
<1>4. names' \in [Keys -> SUBSET Names] /\ \A k \in Keys : names'[k] = {name'[k]}
  <2>1. names' = [k \in Keys |-> {name'[k]}]
    BY DEF PowerLoss
  <2>2. \A k \in Keys : {name'[k]} \in SUBSET Names
    BY <1>3
  <2>. QED
    BY <2>1, <2>2
<1>5. text' \in [Keys -> Texts] /\ \A k \in Keys : synced[k] => text'[k] = text[k]
  BY DEF PowerLoss
<1>6. Types'
  BY <1>1, <1>2, <1>3, <1>4, <1>5 DEF StoreInv, Types
<1>7. Possible'
  BY <1>1, <1>3, <1>4 DEF Possible
<1>8. Whole'
  BY <1>1, <1>3, <1>4, <1>5 DEF StoreInv, Whole, WholeOf
<1>9. Once'
  <2>1. ASSUME NEW k \in Keys PROVE UnusedOf(k)'
    <3>1. UnusedOf(k)
      BY DEF StoreInv, Once
    <3>2. k \notin used => name'[k] = "none" /\ names'[k] = {"none"}
      BY <1>3, <1>4, <3>1 DEF UnusedOf
    <3>. QED
      BY <1>1, <3>1, <3>2 DEF UnusedOf
  <2>. QED
    BY <1>2, <2>1 DEF Once
<1>10. Progress'
  BY <1>2 DEF Progress, ProgressOf
<1>11. Kept'
  BY <1>1, <1>3, <1>4 DEF StoreInv, Kept, KeptOf
<1>. QED
  BY <1>6, <1>7, <1>8, <1>9, <1>10, <1>11 DEF StoreInv

\* Every step of Next keeps the invariant.
LEMMA NextInv == StoreInv /\ [Next]_vars => StoreInv'
<1>. SUFFICES ASSUME StoreInv, [Next]_vars PROVE StoreInv'
  OBVIOUS
<1>1. ASSUME NEW c \in Callers, NEW k \in Keys, CallPut(c, k) PROVE StoreInv'
  BY <1>1, CallPutInv
<1>2. ASSUME NEW c \in Callers, NEW k \in Keys, CallDelete(c, k) PROVE StoreInv'
  BY <1>2, CallDeleteInv
<1>3. ASSUME NEW c \in Callers,
             \/ MkdirAll(c) \/ CreateTemporary(c) \/ CopyExact(c) \/ SyncAndClose(c)
             \/ Rename(c) \/ SyncDirectory(c) \/ Fail(c) \/ Abandon(c) \/ Delete(c)
      PROVE  StoreInv'
  <2>1. call[c].key \in Keys
    BY DEF StoreInv, Types, CallTypes
  <2>. QED
    BY <1>3, <2>1, MkdirAllInv, CreateTemporaryInv, CopyExactInv, SyncAndCloseInv, RenameInv,
       SyncDirectoryInv, FailInv, AbandonInv, DeleteInv
<1>4. CASE Crash
  BY <1>4, CrashInv
<1>5. CASE PowerLoss
  BY <1>5, PowerLossInv
<1>6. CASE UNCHANGED vars
  <2>. USE <1>6 DEF vars, disk, history
  <2>1. Types'
    BY DEF StoreInv, Types, CallTypes
  <2>2. Possible'
    BY DEF StoreInv, Possible
  <2>3. Whole'
    BY DEF StoreInv, Whole, WholeOf
  <2>4. Once'
    BY DEF StoreInv, Once, UnusedOf, Putting
  <2>5. Progress'
    BY DEF StoreInv, Progress, ProgressOf
  <2>6. Kept'
    BY DEF StoreInv, Kept, KeptOf
  <2>. QED
    BY <2>1, <2>2, <2>3, <2>4, <2>5, <2>6 DEF StoreInv
<1>. QED
  BY <1>1, <1>2, <1>3, <1>4, <1>5, <1>6 DEF Next

\* Invariant: StoreInv holds in every reachable state, whatever fails and
\* however often the process or the power dies.
THEOREM Invariant == Spec => []StoreInv
<1>. QED
  BY InitInv, NextInv, PTL DEF Spec

\* TypeCorrect: what is in memory is possible on the disk, a synced file is
\* whole, and no two calls put one key (local.go:31-79).
THEOREM TypeCorrect == Spec => []TypeOK
<1>1. StoreInv => TypeOK
  <2>. SUFFICES ASSUME StoreInv PROVE TypeOK
    OBVIOUS
  <2>1. \A k \in Keys : /\ name[k] \in names[k] /\ names[k] \subseteq Names
                        /\ synced[k] => text[k] = "full"
                        /\ name[k] # "none" => directory
    BY DEF StoreInv, Types, Possible, Whole, WholeOf
  <2>2. \A c \in Callers : ~Returned(c) /\ call[c].op = "put" => Putting(c)
    BY DEF StoreInv, Types, CallTypes, Progress, ProgressOf, Returned, Putting
  <2>3. ASSUME NEW c \in Callers, NEW d \in Callers,
               call[c] = call[d], ~Returned(c), call[c].op = "put"
        PROVE  c = d
    BY <2>2, <2>3 DEF StoreInv, Once, Returned
  <2>. QED
    BY <2>1, <2>3 DEF TypeOK, StoreInv, Possible
<1>. QED
  BY <1>1, Invariant, PTL

\* NotTorn: whoever opens an object reads the whole of it, also after a power
\* loss in the middle of Put (local.go:55-67).
THEOREM NotTorn == Spec => []NeverTorn
<1>1. StoreInv => NeverTorn
  BY DEF StoreInv, Possible, Whole, WholeOf, NeverTorn
<1>. QED
  BY <1>1, Invariant, PTL

\* Durable: what Put has acknowledged stays until somebody deletes it
\* (local.go:67-79).
THEOREM Durable == Spec => []PutSurvives
<1>1. StoreInv => PutSurvives
  BY DEF StoreInv, Types, Possible, Kept, KeptOf, PutSurvives
<1>. QED
  BY <1>1, Invariant, PTL

-----------------------------------------------------------------------------
(* The directory implements ObjectStore.                                   *)

\* What ObjectStore sees of a step, of the files and of the calls.
View(s) == IF s \in {"ok", "error"} THEN s ELSE IF s = "sync directory" THEN "done" ELSE "called"
Objects == {k \in Keys : name[k] = "key"}
Calls == [c \in Callers |-> Abstract(c)]

\* The three views agree with the mapping.
LEMMA CallsView ==
  ASSUME StoreInv, NEW c \in Callers
  PROVE  Calls[c].op = call[c].op /\ Calls[c].key = call[c].key /\ Calls[c].at = View(call[c].at)
<1>1. call[c] \in [op : {"put", "delete"}, key : Keys, at : Steps]
  BY DEF StoreInv, Types, CallTypes
<1>. QED
  BY <1>1 DEF Calls, Abstract, Returned, View

\* How a step of one caller looks.
LEMMA CallsAdvance ==
  ASSUME StoreInv, NEW c \in Callers, NEW s \in Steps, Goes(c, s)
  PROVE  Calls' = [Calls EXCEPT ![c].at = View(s)]
<1>1. call' = [call EXCEPT ![c].at = s] /\ call \in [Callers -> [op : {"put", "delete"}, key : Keys, at : Steps]]
  BY DEF Goes, StoreInv, Types, CallTypes
<1>2. Abstract(c)' = [Abstract(c) EXCEPT !.at = View(s)]
  BY <1>1 DEF Abstract, Returned, View
<1>3. \A d \in Callers \ {c} : Abstract(d)' = Abstract(d)
  BY <1>1 DEF Abstract, Returned
<1>. QED
  BY <1>2, <1>3 DEF Calls

\* A step that its caller cannot see.
LEMMA CallsStutter ==
  ASSUME StoreInv, NEW c \in Callers, NEW s \in Steps, Goes(c, s), View(s) = View(call[c].at)
  PROVE  Calls' = Calls
<1>1. call' = [call EXCEPT ![c].at = s] /\ call \in [Callers -> [op : {"put", "delete"}, key : Keys, at : Steps]]
  BY DEF Goes, StoreInv, Types, CallTypes
<1>2. Abstract(c)' = Abstract(c)
  BY <1>1 DEF Abstract, Returned, View
<1>3. \A d \in Callers \ {c} : Abstract(d)' = Abstract(d)
  BY <1>1 DEF Abstract, Returned
<1>. QED
  BY <1>2, <1>3 DEF Calls

\* A new call looks the same.
LEMMA CallsCalled ==
  ASSUME StoreInv, NEW c \in Callers, NEW k \in Keys, NEW op \in {"put", "delete"},
         NEW s \in {"mkdir", "remove"},
         call' = [call EXCEPT ![c] = [op |-> op, key |-> k, at |-> s]]
  PROVE  Calls' = [Calls EXCEPT ![c] = [op |-> op, key |-> k, at |-> "called"]]
<1>1. call \in [Callers -> [op : {"put", "delete"}, key : Keys, at : Steps]]
  BY DEF StoreInv, Types, CallTypes
<1>2. Abstract(c)' = [op |-> op, key |-> k, at |-> "called"]
  <2>1. call'[c] = [op |-> op, key |-> k, at |-> s]
    BY <1>1
  <2>2. call'[c].at \notin {"ok", "error", "sync directory"}
    <3>1. call'[c].at = s
      BY <2>1
    <3>2. s \notin {"ok", "error", "sync directory"}
      OBVIOUS
    <3>. QED
      BY <3>1, <3>2
  <2>3. Abstract(c)' = [call'[c] EXCEPT !.at = "called"]
    BY <2>2 DEF Abstract, Returned
  <2>. QED
    BY <2>1, <2>3
<1>3. \A d \in Callers \ {c} : Abstract(d)' = Abstract(d)
  BY <1>1 DEF Abstract, Returned
<1>. QED
  BY <1>2, <1>3 DEF Calls

\* The end of all calls looks the same.
LEMMA CallsStopped ==
  ASSUME StoreInv, call' = Stopped
  PROVE  Calls' = [c \in Callers |->
             IF Calls[c].at \in {"ok", "error"} THEN Calls[c] ELSE [Calls[c] EXCEPT !.at = "error"]]
<1>1. ASSUME NEW c \in Callers
      PROVE  Abstract(c)' = IF Calls[c].at \in {"ok", "error"} THEN Calls[c]
                            ELSE [Calls[c] EXCEPT !.at = "error"]
  <2>1. call[c] \in [op : {"put", "delete"}, key : Keys, at : Steps]
    BY DEF StoreInv, Types, CallTypes
  <2>2. call'[c] = IF Returned(c) THEN call[c] ELSE [call[c] EXCEPT !.at = "error"]
    BY DEF Stopped
  <2>3. Calls[c] = Abstract(c)
    BY DEF Calls
  <2>4. CASE Returned(c)
    BY <2>1, <2>2, <2>3, <2>4 DEF Abstract, Returned
  <2>5. CASE ~Returned(c)
    BY <2>1, <2>2, <2>3, <2>5 DEF Abstract, Returned
  <2>. QED
    BY <2>4, <2>5
<1>. QED
  BY <1>1 DEF Calls

\* Every step of the directory is one of ObjectStore, or is not seen.
LEMMA StepRefines == StoreInv /\ StoreInv' /\ [Next]_vars => [Store!Next]_Store!vars
<1>. SUFFICES ASSUME StoreInv, StoreInv', [Next]_vars PROVE Store!Next \/ UNCHANGED Store!vars
  OBVIOUS
<1>. USE DEF Store!vars, Store!Next, Store!Operations
<1>0. /\ \A c \in Callers : call[c].key \in Keys /\ call[c].op \in {"put", "delete"}
      /\ \A c \in Callers : call[c].at \in PutSteps => call[c].op = "put"
      /\ published \subseteq Keys
  BY DEF StoreInv, Types, CallTypes, Progress, ProgressOf
<1>1. ASSUME NEW c \in Callers, NEW k \in Keys, CallPut(c, k) PROVE Store!Call(c, "put", k)
  <2>1. /\ Calls' = [Calls EXCEPT ![c] = [op |-> "put", key |-> k, at |-> "called"]]
        /\ Calls[c].at \in {"ok", "error"}
    BY <1>1, CallsCalled, CallsView DEF CallPut, Returned, View
  <2>2. Objects' = Objects /\ published' = published
    BY <1>1 DEF CallPut, disk, Objects
  <2>. QED
    BY <2>1, <2>2 DEF Store!Call, Store!Returned, Calls, Objects
<1>2. ASSUME NEW c \in Callers, NEW k \in Keys, CallDelete(c, k) PROVE Store!Call(c, "delete", k)
  <2>1. /\ Calls' = [Calls EXCEPT ![c] = [op |-> "delete", key |-> k, at |-> "called"]]
        /\ Calls[c].at \in {"ok", "error"}
    BY <1>2, CallsCalled, CallsView DEF CallDelete, Returned, View
  <2>2. Objects' = Objects /\ published' = published
    BY <1>2 DEF CallDelete, disk, Objects
  <2>. QED
    BY <2>1, <2>2 DEF Store!Call, Store!Returned, Calls, Objects
<1>3. ASSUME NEW c \in Callers, MkdirAll(c) \/ CopyExact(c) \/ SyncAndClose(c) \/ CreateTemporary(c)
      PROVE  UNCHANGED Store!vars
  <2>1. PICK s \in Steps : Goes(c, s) /\ View(s) = "called"
    <3>. USE DEF View
    <3>1. CASE MkdirAll(c)
      BY <3>1 DEF MkdirAll
    <3>2. CASE CopyExact(c)
      BY <3>2 DEF CopyExact
    <3>3. CASE SyncAndClose(c)
      BY <3>3 DEF SyncAndClose
    <3>4. CASE CreateTemporary(c)
      BY <3>4 DEF CreateTemporary
    <3>. QED
      BY <1>3, <3>1, <3>2, <3>3, <3>4
  <2>2. View(call[c].at) = "called"
    BY <1>3 DEF MkdirAll, CopyExact, SyncAndClose, CreateTemporary, View, At
  <2>3. Calls' = Calls
    BY <2>1, <2>2, CallsStutter
  <2>4. published' = published
    BY <1>3 DEF MkdirAll, CopyExact, SyncAndClose, CreateTemporary, history
  <2>5. Objects' = Objects
    <3>1. CASE name' = name
      BY <3>1 DEF Objects
    <3>2. CASE CreateTemporary(c)
      <4>1. /\ name[call[c].key] = "none" /\ name'[call[c].key] = "temporary"
            /\ \A j \in Keys \ {call[c].key} : name'[j] = name[j]
        <5>1. ProgressOf(c) /\ call[c].key \in Keys
          BY <1>0 DEF StoreInv, Progress
        <5>2. Renamed(call[c].key, "temporary")
          BY <3>2 DEF CreateTemporary
        <5>3. /\ name'[call[c].key] = "temporary"
              /\ \A j \in Keys \ {call[c].key} : name'[j] = name[j]
          BY <5>1, <5>2, RenamedEffect DEF StoreInv
        <5>. QED
          BY <3>2, <5>1, <5>3 DEF CreateTemporary, ProgressOf, At
      <4>. QED
        BY <4>1 DEF Objects
    <3>. QED
      BY <1>3, <3>1, <3>2 DEF MkdirAll, CopyExact, SyncAndClose
  <2>. QED
    BY <2>3, <2>4, <2>5 DEF Calls, Objects
<1>4. ASSUME NEW c \in Callers, Rename(c) PROVE Store!Put(c)
  <2>1. /\ Calls' = [Calls EXCEPT ![c].at = "done"]
        /\ Calls[c].op = "put" /\ Calls[c].key = call[c].key /\ Calls[c].at = "called"
    BY <1>4, CallsAdvance, CallsView DEF Rename, At, View
  <2>2. name'[call[c].key] = "key" /\ \A j \in Keys \ {call[c].key} : name'[j] = name[j]
    BY <1>0, <1>4, RenamedEffect DEF Rename, StoreInv
  <2>3. Objects' = Objects \cup {call[c].key}
    BY <1>0, <2>2 DEF Objects
  <2>4. published' = published \cup {call[c].key}
    BY <1>4 DEF Rename
  <2>. QED
    BY <2>1, <2>3, <2>4 DEF Store!Put, Calls, Objects
<1>5. ASSUME NEW c \in Callers, SyncDirectory(c) PROVE Store!Succeed(c)
  <2>1. Calls' = [Calls EXCEPT ![c].at = "ok"] /\ Calls[c].at = "done"
    BY <1>5, CallsAdvance, CallsView DEF SyncDirectory, At, View
  <2>2. Objects' = Objects /\ published' = published
    BY <1>5 DEF SyncDirectory, Objects
  <2>. QED
    BY <2>1, <2>2 DEF Store!Succeed, Calls, Objects
<1>6. ASSUME NEW c \in Callers, Fail(c) \/ Abandon(c) PROVE Store!Fail(c)
  <2>1. Calls' = [Calls EXCEPT ![c].at = "error"]
    BY <1>6, CallsAdvance DEF Fail, Abandon, View
  <2>2. Calls[c].at \notin {"ok", "error"}
    BY <1>6, CallsView DEF Fail, Abandon, View
  <2>3. published' = published
    BY <1>6 DEF Fail, Abandon, history
  <2>4. Objects' = Objects
    <3>1. CASE Fail(c)
      BY <3>1 DEF Fail, disk, Objects
    <3>2. CASE Abandon(c)
      <4>1. ProgressOf(c) /\ call[c].key \in Keys
        BY <1>0 DEF StoreInv, Progress
      <4>2. CASE Renamed(call[c].key, "none")
        <5>1. /\ name'[call[c].key] = "none"
              /\ \A j \in Keys \ {call[c].key} : name'[j] = name[j]
          BY <4>1, <4>2, RenamedEffect DEF StoreInv
        <5>2. name[call[c].key] = "temporary"
          BY <3>2, <4>1 DEF Abandon, ProgressOf
        <5>. QED
          BY <5>1, <5>2 DEF Objects
      <4>3. CASE UNCHANGED <<name, names>>
        BY <4>3 DEF Objects
      <4>. QED
        BY <3>2, <4>2, <4>3 DEF Abandon
    <3>. QED
      BY <1>6, <3>1, <3>2
  <2>. QED
    BY <2>1, <2>2, <2>3, <2>4 DEF Store!Fail, Store!Returned, Calls, Objects
<1>7. ASSUME NEW c \in Callers, Delete(c) PROVE Store!Delete(c)
  <2>1. /\ Calls' = [Calls EXCEPT ![c].at = "ok"]
        /\ Calls[c].op = "delete" /\ Calls[c].key = call[c].key /\ Calls[c].at = "called"
    BY <1>7, CallsAdvance, CallsView DEF Delete, At, View
  <2>2. published' = published
    BY <1>7 DEF Delete, history
  <2>3. Objects' = Objects \ {call[c].key}
    <3>1. CASE name[call[c].key] = "key"
      <4>1. name'[call[c].key] = "none" /\ \A j \in Keys \ {call[c].key} : name'[j] = name[j]
        BY <1>0, <1>7, <3>1, RenamedEffect DEF Delete, StoreInv
      <4>. QED
        BY <4>1 DEF Objects
    <3>2. CASE name[call[c].key] # "key"
      BY <1>7, <3>2 DEF Delete, Objects
    <3>. QED
      BY <3>1, <3>2
  <2>. QED
    BY <2>1, <2>2, <2>3 DEF Store!Delete, Calls, Objects
<1>8. ASSUME Crash PROVE Store!Crash
  <2>1. Objects' = Objects /\ published' = published
    BY <1>8 DEF Crash, disk, Objects
  <2>2. call' = Stopped
    BY <1>8 DEF Crash
  <2>. QED
    BY <2>1, <2>2, CallsStopped DEF Store!Crash, Store!Stopped, Store!Returned, Calls, Objects
<1>9. ASSUME PowerLoss PROVE Store!PowerLoss
  <2>1. published' = published /\ call' = Stopped
    BY <1>9 DEF PowerLoss
  <2>2. Objects' \subseteq published
    BY <2>1 DEF StoreInv, Possible, Whole, WholeOf, Objects
  <2>. QED
    BY <2>1, <2>2, CallsStopped DEF Store!PowerLoss, Store!Stopped, Store!Returned, Calls, Objects
<1>10. CASE UNCHANGED vars
  <2>1. Objects' = Objects /\ published' = published
    BY <1>10 DEF vars, disk, history, Objects
  <2>2. Calls' = Calls
    BY <1>10 DEF vars, Calls, Abstract, Returned
  <2>. QED
    BY <2>1, <2>2 DEF Calls, Objects
<1>. QED
  BY <1>1, <1>2, <1>3, <1>4, <1>5, <1>6, <1>7, <1>8, <1>9, <1>10 DEF Next

\* Refinement: to its callers the directory is the store of ObjectStore: an
\* object appears and goes in one step between call and return (local.go:31-121).
THEOREM Refinement == Spec => ImplementsStore
<1>1. Init => Store!Init
  <2>. SUFFICES ASSUME Init PROVE Store!Init
    OBVIOUS
  <2>1. Objects = {} /\ published = {}
    BY DEF Init, Objects
  <2>2. Calls \in [Callers -> [op : {"put", "delete"}, key : Keys, at : {"error"}]]
    BY DEF Init, Calls, Abstract, Returned
  <2>. QED
    BY <2>1, <2>2 DEF Store!Init, Store!Operations, Calls, Objects
<1>. QED
  BY <1>1, StepRefines, Invariant, PTL DEF Spec, ImplementsStore, Store!Spec

=============================================================================
