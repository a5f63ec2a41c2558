-------------------------- MODULE HistoryPagesProofs --------------------------
(***************************************************************************)
(* A walk through HistoryPages repeats nothing, misses nothing that stays, *)
(* and shows no archive without photos: for any rows, dates, queries, page *)
(* sizes and orders of events.                                             *)
(***************************************************************************)
EXTENDS HistoryPages, FiniteSetTheorems, TLAPS

(* The inductive invariant.                                                *)

\* All that was shown is at the cursor or newer, so that what comes next is new.
Walked ==
    /\ IsFiniteSet(shown) /\ count = Cardinality(shown)
    /\ phase = "ended" => cursor = NoCursor
    /\ phase = "reading" => Accepts
    /\ phase # "ended" /\ (cursor = NoCursor \/ ~Accepts) => shown = {}
    /\ phase # "ended" /\ cursor # NoCursor /\ Accepts => \A p \in shown : ~Older(p, cursor)

\* The page under way is older than the cursor, and its last item is the next.
Fetching ==
    phase = "reading" =>
        /\ IsFiniteSet(fetched.items)
        /\ cursor # NoCursor => \A p \in fetched.items : Older(p, cursor)
        /\ fetched.next # NoCursor =>
               /\ fetched.next.filter = filter
               /\ [at |-> fetched.next.at, id |-> fetched.next.id] \in fetched.items
               /\ \A p \in fetched.items : ~Older(p, fetched.next)

\* What has been there all the time is behind the cursor, or was shown.
Awaited(i) ==
    /\ i \in Stored /\ filter \in rows[i].matches
    /\ phase # "ended" /\ cursor # NoCursor /\ Accepts =>
           Place(i) \in shown \/ Older(Place(i), cursor)
    /\ phase = "reading" =>
           \/ Place(i) \in shown \cup fetched.items
           \/ fetched.next # NoCursor /\ Older(Place(i), fetched.next)
    /\ phase = "ended" => Place(i) \in shown

Steady == \A i \in steady : Awaited(i)

\* Wherever an archive is kept its photos are.
WithPhotos ==
    /\ \A i \in Stored : rows[i].kind = "archive" => photos[i] > 0
    /\ phase = "reading" => \A i \in fetched.archives : fetched.photos[i] > 0
    /\ book # NoRow => book.photos[book.id] > 0
    /\ NoEmptyArchive

HistoryInv == TypeOK /\ Stored \subseteq used /\ Walked /\ Fetching /\ Steady /\ WithPhotos

-----------------------------------------------------------------------------
(* Dates and ids.                                                          *)

LEMMA LeastNatural ==
  ASSUME NEW S \in SUBSET Nat, S # {}
  PROVE  \E m \in S : \A n \in S : m <= n
<1>1. PICK m \in S : \A n \in S : ~(<<n, m>> \in OpToRel(<, Nat))
  BY NatLessThanWellFounded, WFMin
<1>2. ASSUME NEW n \in S PROVE m <= n
  <2>1. ~(n < m)
    BY <1>1 DEF OpToRel
  <2>. QED
    BY <2>1
<1>. QED
  BY <1>2

Dated(p) == p.at \in Nat /\ p.id \in Nat

\* Older is a strict total order of places.
LEMMA OlderIsOrder ==
  ASSUME NEW p, NEW q, NEW r, Dated(p), Dated(q), Dated(r)
  PROVE  /\ Older(p, q) /\ Older(q, r) => Older(p, r)
         /\ ~Older(p, p)
         /\ Older(p, q) => ~Older(q, p)
         /\ ~Older(p, q) /\ ~Older(q, p) => p.at = q.at /\ p.id = q.id
         /\ ~Older(p, q) /\ Older(r, q) => ~Older(p, r)
         /\ Older(p, q) /\ ~Older(r, q) => Older(p, r)
BY DEF Older, Dated

\* The rows that are stored have places.
LEMMA PlaceOfRow ==
  ASSUME TypeOK, NEW i \in Stored
  PROVE  /\ i \in Ids /\ rows[i] \in Row
         /\ Place(i) \in Position /\ Dated(Place(i)) /\ Place(i).id = i
BY HistoryAssumption DEF TypeOK, Stored, Place, Position, Dated, Row

LEMMA CursorDated ==
  ASSUME TypeOK
  PROVE  /\ cursor # NoCursor => cursor \in Cursor /\ Dated(cursor)
         /\ \A p \in shown : p \in Position /\ Dated(p)
BY HistoryAssumption DEF TypeOK, Cursor, Position, Dated

\* Every page that is not empty has an oldest item.
LEMMA OldestItem ==
  ASSUME TypeOK, NEW items \in SUBSET Stored, items # {}
  PROVE  \E i \in items : \A j \in items : ~Older(Place(j), Place(i))
<1>. DEFINE times == {rows[i].at : i \in items}
<1>1. \A i \in items : rows[i] \in Row /\ rows[i].at \in Nat /\ i \in Nat
  BY PlaceOfRow, HistoryAssumption DEF Row
<1>2. times \in SUBSET Nat /\ times # {}
  BY <1>1
<1>3. PICK t \in times : \A u \in times : t <= u
  <2>. HIDE DEF times
  <2>. QED
    BY <1>2, LeastNatural
<1>. DEFINE last == {i \in items : rows[i].at = t}
<1>4. last \in SUBSET Nat /\ last # {}
  BY <1>1
<1>5. PICK m \in last : \A n \in last : m <= n
  <2>. HIDE DEF last
  <2>. QED
    BY <1>4, LeastNatural
<1>6. ASSUME NEW j \in items PROVE ~Older(Place(j), Place(m))
  <2>1. t <= rows[j].at /\ rows[m].at = t /\ m \in items
    BY <1>3, <1>5
  <2>2. rows[j].at = t => m <= j
    BY <1>5
  <2>. QED
    BY <2>1, <2>2, <1>1 DEF Older, Place
<1>. QED
  BY <1>5, <1>6

-----------------------------------------------------------------------------
(* The initial state.                                                      *)

LEMMA InitInv == Init => HistoryInv
<1>. SUFFICES ASSUME Init PROVE HistoryInv
  OBVIOUS
<1>. USE HistoryAssumption DEF Init
<1>1. TypeOK
  BY DEF TypeOK
<1>2. Stored \subseteq used
  BY DEF Stored
<1>3. Walked
  BY FS_EmptySet DEF Walked
<1>4. Fetching
  BY DEF Fetching
<1>5. Steady
  BY DEF Steady
<1>6. WithPhotos
  BY DEF WithPhotos, Stored, NoEmptyArchive
<1>. QED
  BY <1>1, <1>2, <1>3, <1>4, <1>5, <1>6 DEF HistoryInv

-----------------------------------------------------------------------------
(* Writers.                                                                *)

\* Writers do not disturb the walk.
LEMMA WalkKept ==
  ASSUME Walked, Fetching, UNCHANGED <<listing, walk>>
  PROVE  Walked' /\ Fetching'
BY DEF Walked, Fetching, Accepts, walk

\* What stays, at its date and matching, stays awaited.
LEMMA SteadyKept ==
  ASSUME Steady, UNCHANGED <<listing, walk>>, steady' \subseteq steady,
         \A i \in steady' : /\ i \in Stored'
                            /\ filter \in rows'[i].matches /\ rows'[i].at = rows[i].at
  PROVE  Steady'
<1>1. ASSUME NEW i \in steady' PROVE Awaited(i)'
  <2>1. Awaited(i)
    BY <1>1 DEF Steady
  <2>2. Place(i)' = Place(i) /\ (Accepts' <=> Accepts)
    BY <1>1 DEF Place, Accepts, walk
  <2>. QED
    BY <1>1, <2>1, <2>2 DEF Awaited, walk
<1>. QED
  BY <1>1 DEF Steady

LEMMA CreateInv ==
  ASSUME HistoryInv, NEW i \in Ids, NEW row \in Row, Create(i, row)
  PROVE  HistoryInv'
<1>. USE HistoryAssumption
<1>1. PICK n \in 0..MaxPhotos :
          (row.kind = "archive" <=> n > 0) /\ photos' = [photos EXCEPT ![i] = n]
  BY DEF Create
<1>2. /\ i \notin used /\ used' = used \cup {i} /\ rows' = [rows EXCEPT ![i] = row]
      /\ answer' = {} /\ UNCHANGED <<listing, walk, book, steady>>
  BY DEF Create
<1>3. TypeOK
  BY DEF HistoryInv
<1>4. /\ rows'[i] = row /\ row # NoRow /\ photos'[i] = n
      /\ \A j \in Ids \ {i} : rows'[j] = rows[j] /\ photos'[j] = photos[j]
  BY <1>1, <1>2, <1>3 DEF TypeOK
<1>5. TypeOK'
  <2>1. rows' \in [Ids -> Row \cup {NoRow}] /\ photos' \in [Ids -> 0..MaxPhotos]
    BY <1>1, <1>2, <1>3 DEF TypeOK
  <2>2. steady \subseteq {j \in used' : rows'[j] # NoRow}
    BY <1>2, <1>3, <1>4 DEF TypeOK
  <2>. QED
    BY <2>1, <2>2, <1>2, <1>3 DEF TypeOK, walk
<1>6. (Stored \subseteq used)'
  BY <1>2, <1>4 DEF HistoryInv, Stored
<1>7. Walked' /\ Fetching'
  BY <1>2, WalkKept DEF HistoryInv
<1>8. Steady'
  <2>1. ASSUME NEW j \in steady'
        PROVE  j \in Stored' /\ filter \in rows'[j].matches /\ rows'[j].at = rows[j].at
    <3>1. Awaited(j) /\ j # i
      BY <2>1, <1>2, <1>3 DEF HistoryInv, Steady, TypeOK
    <3>. QED
      BY <3>1, <1>4 DEF Awaited, Stored
  <2>. QED
    BY <2>1, <1>2, SteadyKept DEF HistoryInv
<1>9. WithPhotos'
  <2>1. \A j \in Stored' : rows'[j].kind = "archive" => photos'[j] > 0
    BY <1>1, <1>4 DEF HistoryInv, WithPhotos, Stored
  <2>. QED
    BY <2>1, <1>2 DEF HistoryInv, WithPhotos, NoEmptyArchive, walk
<1>. QED
  BY <1>5, <1>6, <1>7, <1>8, <1>9 DEF HistoryInv

LEMMA DeleteInv ==
  ASSUME HistoryInv, NEW i \in Ids, Delete(i)
  PROVE  HistoryInv'
<1>. USE HistoryAssumption
<1>1. /\ rows' = [rows EXCEPT ![i] = NoRow] /\ photos' = [photos EXCEPT ![i] = 0]
      /\ steady' = steady \ {i} /\ answer' = {} /\ UNCHANGED <<listing, used, walk, book>>
  BY DEF Delete
<1>2. TypeOK
  BY DEF HistoryInv
<1>3. /\ rows'[i] = NoRow
      /\ \A j \in Ids \ {i} : rows'[j] = rows[j] /\ photos'[j] = photos[j]
  BY <1>1, <1>2 DEF TypeOK
<1>4. TypeOK'
  <2>1. rows' \in [Ids -> Row \cup {NoRow}] /\ photos' \in [Ids -> 0..MaxPhotos]
    BY <1>1, <1>2 DEF TypeOK
  <2>2. steady' \subseteq {j \in used' : rows'[j] # NoRow}
    BY <1>1, <1>2, <1>3 DEF TypeOK
  <2>. QED
    BY <2>1, <2>2, <1>1, <1>2 DEF TypeOK, walk
<1>5. (Stored \subseteq used)'
  BY <1>1, <1>3 DEF HistoryInv, Stored
<1>6. Walked' /\ Fetching'
  BY <1>1, WalkKept DEF HistoryInv
<1>7. Steady'
  <2>1. ASSUME NEW j \in steady'
        PROVE  j \in Stored' /\ filter \in rows'[j].matches /\ rows'[j].at = rows[j].at
    <3>1. Awaited(j) /\ j # i
      BY <2>1, <1>1 DEF HistoryInv, Steady
    <3>. QED
      BY <3>1, <1>3 DEF Awaited, Stored
  <2>. QED
    BY <2>1, <1>1, SteadyKept DEF HistoryInv
<1>8. WithPhotos'
  <2>1. \A j \in Stored' : rows'[j].kind = "archive" => photos'[j] > 0
    BY <1>3 DEF HistoryInv, WithPhotos, Stored
  <2>. QED
    BY <2>1, <1>1 DEF HistoryInv, WithPhotos, NoEmptyArchive, walk
<1>. QED
  BY <1>4, <1>5, <1>6, <1>7, <1>8 DEF HistoryInv

LEMMA AppendPhotosInv ==
  ASSUME HistoryInv, NEW i \in Ids, AppendPhotos(i)
  PROVE  HistoryInv'
<1>. USE HistoryAssumption
<1>1. /\ photos[i] < MaxPhotos /\ photos' = [photos EXCEPT ![i] = photos[i] + 1]
      /\ answer' = {} /\ UNCHANGED <<listing, rows, used, walk, book, steady>>
  BY DEF AppendPhotos
<1>2. TypeOK
  BY DEF HistoryInv
<1>3. photos' \in [Ids -> 0..MaxPhotos] /\ \A j \in Ids : photos'[j] >= photos[j]
  BY <1>1, <1>2 DEF TypeOK
<1>4. TypeOK'
  BY <1>1, <1>2, <1>3 DEF TypeOK, walk
<1>5. Stored' = Stored
  BY <1>1 DEF Stored
<1>6. Walked' /\ Fetching'
  BY <1>1, WalkKept DEF HistoryInv
<1>7. Steady'
  BY <1>1, <1>5, SteadyKept DEF HistoryInv, Steady, Awaited
<1>8. WithPhotos'
  <2>1. ASSUME NEW j \in Stored, rows[j].kind = "archive" PROVE photos'[j] > 0
    <3>1. photos[j] > 0 /\ photos[j] \in Nat /\ photos'[j] \in Nat /\ photos'[j] >= photos[j]
      BY <2>1, <1>2, <1>3 DEF HistoryInv, WithPhotos, TypeOK, Stored
    <3>. QED
      BY <3>1
  <2>. QED
    BY <2>1, <1>1, <1>5 DEF HistoryInv, WithPhotos, NoEmptyArchive, walk
<1>. QED
  BY <1>1, <1>4, <1>5, <1>6, <1>7, <1>8 DEF HistoryInv

LEMMA EditMessageInv ==
  ASSUME HistoryInv, NEW i \in Ids, NEW matches \in SUBSET Filters, EditMessage(i, matches)
  PROVE  HistoryInv'
<1>. USE HistoryAssumption
<1>1. /\ i \in Stored /\ rows[i].kind = "message"
      /\ rows' = [rows EXCEPT ![i].matches = matches]
      /\ steady' = (IF filter \in matches THEN steady ELSE steady \ {i})
      /\ answer' = {} /\ UNCHANGED <<listing, photos, used, walk, book>>
  BY DEF EditMessage
<1>2. TypeOK
  BY DEF HistoryInv
<1>3. /\ rows'[i] \in Row /\ rows'[i].at = rows[i].at /\ rows'[i].kind = "message"
      /\ rows'[i].matches = matches
  BY <1>1, <1>2, PlaceOfRow DEF TypeOK, Row
<1>4. \A j \in Ids \ {i} : rows'[j] = rows[j]
  BY <1>1, <1>2 DEF TypeOK
<1>5. TypeOK'
  <2>1. rows' \in [Ids -> Row \cup {NoRow}]
    BY <1>1, <1>2, <1>3, <1>4 DEF TypeOK
  <2>2. steady' \subseteq {j \in used' : rows'[j] # NoRow}
    BY <1>1, <1>2, <1>3, <1>4 DEF TypeOK
  <2>. QED
    BY <2>1, <2>2, <1>1, <1>2 DEF TypeOK, walk
<1>6. Stored' = Stored
  BY <1>1, <1>3, <1>4 DEF Stored
<1>7. Walked' /\ Fetching'
  BY <1>1, WalkKept DEF HistoryInv
<1>8. Steady'
  <2>1. ASSUME NEW j \in steady'
        PROVE  j \in Stored' /\ filter \in rows'[j].matches /\ rows'[j].at = rows[j].at
    <3>1. Awaited(j) /\ (j = i => filter \in matches)
      BY <2>1, <1>1 DEF HistoryInv, Steady
    <3>. QED
      BY <3>1, <1>3, <1>4, <1>6 DEF Awaited, Stored
  <2>. QED
    BY <2>1, <1>1, SteadyKept DEF HistoryInv
<1>9. WithPhotos'
  <2>1. \A j \in Stored' : rows'[j].kind = "archive" => photos'[j] > 0
    BY <1>1, <1>3, <1>4, <1>6 DEF HistoryInv, WithPhotos, Stored
  <2>. QED
    BY <2>1, <1>1 DEF HistoryInv, WithPhotos, NoEmptyArchive, walk
<1>. QED
  BY <1>1, <1>5, <1>6, <1>7, <1>8, <1>9 DEF HistoryInv

-----------------------------------------------------------------------------
(* The walk.                                                               *)

\* A walk begins, or goes on for another query with the old cursor.
LEMMA StartInv ==
  ASSUME HistoryInv, NEW f \in Filters, StartWalk(f) \/ ChangeQuery(f)
  PROVE  HistoryInv'
<1>. USE HistoryAssumption
<1>1. /\ filter' = f /\ phase' = "ready" /\ shown' = {} /\ count' = 0
      /\ steady' = Matching(f) /\ answer' = {} /\ fetched' = fetched /\ phase # "reading"
      /\ UNCHANGED <<listing, store, book>>
      /\ cursor' \in {cursor, NoCursor}
      /\ cursor' = NoCursor \/ ~Accepts'
  BY DEF StartWalk, ChangeQuery, Accepts
<1>2. TypeOK
  BY DEF HistoryInv
<1>3. TypeOK'
  <2>1. steady' \subseteq {i \in used' : rows'[i] # NoRow}
    BY <1>1 DEF HistoryInv, Matching, Stored, store
  <2>. QED
    BY <2>1, <1>1, <1>2 DEF TypeOK, store
<1>4. (Stored \subseteq used)'
  BY <1>1 DEF HistoryInv, Stored, store
<1>5. Walked'
  BY <1>1, FS_EmptySet DEF Walked
<1>6. Fetching'
  BY <1>1 DEF Fetching
<1>7. Steady'
  BY <1>1 DEF Steady, Awaited, Matching, Stored, store
<1>8. WithPhotos'
  BY <1>1 DEF HistoryInv, WithPhotos, NoEmptyArchive, Stored, store
<1>. QED
  BY <1>3, <1>4, <1>5, <1>6, <1>7, <1>8 DEF HistoryInv

LEMMA RefuseInv ==
  ASSUME HistoryInv, Refuse
  PROVE  HistoryInv'
<1>. USE HistoryAssumption
<1>1. /\ phase = "ready" /\ ~Accepts /\ cursor' = NoCursor /\ answer' = {}
      /\ UNCHANGED <<listing, store, filter, phase, fetched, book, shown, count, steady>>
  BY DEF Refuse
<1>2. shown = {}
  BY <1>1 DEF HistoryInv, Walked
<1>3. TypeOK'
  BY <1>1 DEF HistoryInv, TypeOK, store
<1>4. (Stored \subseteq used)' /\ Walked' /\ Fetching'
  BY <1>1, <1>2 DEF HistoryInv, Stored, Walked, Fetching, store
<1>5. Steady'
  BY <1>1 DEF HistoryInv, Steady, Awaited, Stored, store
<1>6. WithPhotos'
  BY <1>1 DEF HistoryInv, WithPhotos, NoEmptyArchive, Stored, store
<1>. QED
  BY <1>3, <1>4, <1>5, <1>6 DEF HistoryInv

\* The places of finitely many rows are as many.
LEMMA FinitePlaces ==
  ASSUME NEW S, IsFiniteSet(S)
  PROVE  IsFiniteSet({Place(i) : i \in S})
<1>. DEFINE T == {Place(i) : i \in S}
            f == [i \in S |-> Place(i)]
<1>1. f \in Surjection(S, T)
  BY DEF Surjection
<1>. QED
  BY <1>1, FS_Surjection

\* What a query leaves out is older than all it takes.
LEMMA NewestAreNewest ==
  ASSUME NEW S, NEW n, NEW top, Newest(S, n, top)
  PROVE  /\ top \subseteq S /\ Cardinality(top) <= n
         /\ top # S => Cardinality(top) = n
         /\ \A i \in top, j \in S \ top : Older(Place(j), Place(i))
BY DEF Newest

\* The page of a query: all of what is behind the cursor, or its newest part
\* and, as the next cursor, the place of its last item.
LEMMA PageRead ==
  ASSUME HistoryInv, NEW read \in SUBSET Ids, NEW items \in SUBSET read, ReadRows(read, items)
  PROVE  /\ items \subseteq Candidates /\ IsFiniteSet(items)
         /\ items = read => read = Candidates /\ NextCursor(read, items) = NoCursor
         /\ items # read =>
               /\ NextCursor(read, items) \in Cursor /\ NextCursor(read, items) # NoCursor
               /\ NextCursor(read, items).filter = filter
               /\ \E last \in items :
                     /\ Place(last) = [at |-> NextCursor(read, items).at,
                                       id |-> NextCursor(read, items).id]
                     /\ \A j \in items : ~Older(Place(j), Place(last))
         /\ \A j \in Candidates \ items : \A i \in items : Older(Place(j), Place(i))
<1>. USE HistoryAssumption
<1>1. Newest(Candidates, Limit + 1, read) /\ Newest(read, Limit, items)
  BY DEF ReadRows
<1>2. read \subseteq Candidates /\ items \subseteq read /\ Candidates \subseteq Stored
  BY <1>1, NewestAreNewest DEF Candidates, Matching
<1>3. IsFiniteSet(read) /\ IsFiniteSet(items)
  BY FS_Subset
<1>4. Cardinality(items) \in Nat /\ Cardinality(read) \in Nat
  BY <1>3, FS_CardinalityType
<1>5. items = read => read = Candidates
  <2>1. Cardinality(items) <= Limit /\ (read # Candidates => Cardinality(read) = Limit + 1)
    BY <1>1, NewestAreNewest
  <2>. QED
    BY <2>1, <1>4
<1>6. ASSUME items # read
      PROVE  /\ NextCursor(read, items) \in Cursor /\ NextCursor(read, items) # NoCursor
             /\ NextCursor(read, items).filter = filter
             /\ \E last \in items :
                   /\ Place(last) = [at |-> NextCursor(read, items).at,
                                     id |-> NextCursor(read, items).id]
                   /\ \A j \in items : ~Older(Place(j), Place(last))
  <2>1. items # {}
    <3>1. Cardinality(items) = Limit
      BY <1>1, <1>6, NewestAreNewest
    <3>. QED
      BY <3>1, <1>3, FS_EmptySet
  <2>. DEFINE last == CHOOSE i \in items : \A j \in items : ~Older(Place(j), Place(i))
  <2>2. last \in items /\ \A j \in items : ~Older(Place(j), Place(last))
    BY <2>1, <1>2, OldestItem DEF HistoryInv
  <2>3. NextCursor(read, items) = [filter |-> filter, at |-> rows[last].at, id |-> last]
    BY <1>6 DEF NextCursor
  <2>. HIDE DEF last
  <2>4. rows[last] \in Row /\ last \in Ids /\ filter \in Filters
    BY <2>2, <1>2, PlaceOfRow DEF HistoryInv, TypeOK
  <2>5. NextCursor(read, items) \in Cursor
    BY <2>3, <2>4 DEF Cursor, Row
  <2>6. Place(last) = [at |-> NextCursor(read, items).at, id |-> NextCursor(read, items).id]
    BY <2>3 DEF Place
  <2>. QED
    BY <2>2, <2>3, <2>5, <2>6
<1>7. ASSUME NEW j \in Candidates \ items, NEW i \in items
      PROVE  Older(Place(j), Place(i))
  <2>1. CASE j \in read
    BY <2>1, <1>1, <1>7, NewestAreNewest
  <2>2. CASE j \notin read
    BY <2>2, <1>1, <1>7, NewestAreNewest
  <2>. QED
    BY <2>1, <2>2
<1>8. items = read => NextCursor(read, items) = NoCursor
  BY DEF NextCursor
<1>. QED
  BY <1>2, <1>3, <1>5, <1>6, <1>7, <1>8

LEMMA ReadRowsInv ==
  ASSUME HistoryInv, NEW read \in SUBSET Ids, NEW items \in SUBSET read, ReadRows(read, items)
  PROVE  HistoryInv'
<1>. USE HistoryAssumption
<1>. DEFINE next == NextCursor(read, items)
            places == {Place(i) : i \in items}
            archives == {i \in items : rows[i].kind = "archive"}
<1>1. /\ phase = "ready" /\ Accepts /\ phase' = "reading"
      /\ fetched' = [items |-> places, archives |-> archives, next |-> next,
                     photos |-> Snapshot(items)]
      /\ answer' = {}
      /\ UNCHANGED <<listing, store, filter, cursor, shown, count, book, steady>>
  BY DEF ReadRows
<1>2. /\ items \subseteq Candidates /\ IsFiniteSet(items)
      /\ items = read => read = Candidates /\ next = NoCursor
      /\ items # read =>
            /\ next \in Cursor /\ next # NoCursor /\ next.filter = filter
            /\ \E last \in items : /\ Place(last) = [at |-> next.at, id |-> next.id]
                                   /\ \A j \in items : ~Older(Place(j), Place(last))
      /\ \A j \in Candidates \ items : \A i \in items : Older(Place(j), Place(i))
  BY PageRead
<1>3. IsFiniteSet(places)
  BY <1>2, FinitePlaces
<1>4. TypeOK
  BY DEF HistoryInv
<1>. HIDE DEF next
<1>5. ASSUME NEW i \in items
      PROVE  /\ i \in Stored /\ i \in Ids /\ Place(i) \in Position /\ Dated(Place(i))
             /\ cursor # NoCursor => Older(Place(i), cursor)
  BY <1>2, <1>4, PlaceOfRow DEF Candidates, Matching
<1>6. fetched' \in Fetched
  <2>1. places \in SUBSET Position /\ archives \in SUBSET Ids
    BY <1>5
  <2>2. next \in Cursor \cup {NoCursor}
    BY <1>2
  <2>3. Snapshot(items) \in [Ids -> 0..MaxPhotos]
    BY <1>4 DEF Snapshot, TypeOK
  <2>. QED
    BY <2>1, <2>2, <2>3, <1>1 DEF Fetched
<1>7. /\ fetched'.items = places /\ fetched'.next = next
      /\ fetched'.archives = archives /\ fetched'.photos = Snapshot(items)
  BY <1>1
<1>8. TypeOK'
  BY <1>1, <1>4, <1>6 DEF TypeOK, store
<1>9. (Stored \subseteq used)' /\ Walked'
  BY <1>1 DEF HistoryInv, Stored, Walked, Accepts, store
<1>10. Fetching'
  <2>1. cursor # NoCursor => \A p \in places : Older(p, cursor)
    BY <1>5
  <2>2. ASSUME next # NoCursor
        PROVE  /\ next.filter = filter /\ [at |-> next.at, id |-> next.id] \in places
               /\ \A p \in places : ~Older(p, next)
    <3>1. PICK last \in items : /\ Place(last) = [at |-> next.at, id |-> next.id]
                                /\ \A j \in items : ~Older(Place(j), Place(last))
      BY <1>2, <2>2
    <3>2. Place(last).at = next.at /\ Place(last).id = next.id
      BY <3>1
    <3>3. \A j \in items : ~Older(Place(j), next)
      BY <3>1, <3>2 DEF Older
    <3>. QED
      BY <3>1, <3>3, <1>2, <2>2
  <2>. HIDE DEF places
  <2>. QED
    BY <2>1, <2>2, <1>1, <1>3, <1>7 DEF Fetching
<1>11. Steady'
  <2>1. ASSUME NEW i \in steady PROVE Awaited(i)'
    <3>1. Awaited(i) /\ Place(i)' = Place(i) /\ Stored' = Stored
      BY <2>1, <1>1 DEF HistoryInv, Steady, Place, Stored, store
    <3>2. Place(i) \in shown \/ i \in Candidates
      BY <3>1, <1>1 DEF Awaited, Candidates, Matching
    <3>3. ASSUME i \in Candidates, i \notin items
          PROVE  next # NoCursor /\ Older(Place(i), next)
      <4>1. items # read
        BY <3>3, <1>2
      <4>2. PICK last \in items : Place(last) = [at |-> next.at, id |-> next.id]
        BY <4>1, <1>2
      <4>3. Older(Place(i), Place(last))
        BY <3>3, <1>2
      <4>4. Place(last).at = next.at /\ Place(last).id = next.id
        BY <4>2
      <4>. QED
        BY <4>1, <4>3, <4>4, <1>2 DEF Older
    <3>4. Place(i) \in shown \cup places \/ (next # NoCursor /\ Older(Place(i), next))
      <4>1. i \in items => Place(i) \in places
        OBVIOUS
      <4>. HIDE DEF places
      <4>2. CASE i \in items
        BY <4>1, <4>2
      <4>3. CASE i \notin items
        BY <4>3, <3>2, <3>3
      <4>. QED
        BY <4>2, <4>3
    <3>. HIDE DEF places
    <3>5. Accepts' <=> Accepts
      BY <1>1 DEF Accepts
    <3>. QED
      BY <3>1, <3>4, <3>5, <1>1, <1>7 DEF Awaited, store
  <2>. QED
    BY <2>1, <1>1 DEF Steady
<1>12. WithPhotos'
  <2>1. ASSUME NEW i \in archives PROVE Snapshot(items)[i] > 0
    BY <1>5 DEF Snapshot, HistoryInv, WithPhotos
  <2>. HIDE DEF archives
  <2>. QED
    BY <2>1, <1>1, <1>7 DEF HistoryInv, WithPhotos, Stored, NoEmptyArchive, store
<1>. QED
  BY <1>8, <1>9, <1>10, <1>11, <1>12 DEF HistoryInv

\* The answered page holds places that were not shown before, because what was
\* shown is at the cursor or newer, and the page is older.
LEMMA AnswerPageInv ==
  ASSUME HistoryInv, AnswerPage
  PROVE  HistoryInv'
<1>. USE HistoryAssumption
<1>. DEFINE items == fetched.items
            next == fetched.next
            item(p) == [id |-> p.id, archive |-> p.id \in fetched.archives,
                        photos |-> fetched.photos[p.id]]
<1>1. /\ phase = "reading" /\ answer' = {item(p) : p \in items}
      /\ shown' = shown \cup items /\ count' = count + Cardinality(items)
      /\ cursor' = next /\ phase' = (IF next = NoCursor THEN "ended" ELSE "ready")
      /\ fetched' = NoRow
      /\ UNCHANGED <<listing, store, filter, book, steady>>
  BY DEF AnswerPage, PhotosOf
<1>2. TypeOK /\ fetched \in Fetched
  BY <1>1 DEF HistoryInv, TypeOK
<1>3. /\ items \in SUBSET Position /\ next \in Cursor \cup {NoCursor}
      /\ fetched.photos \in [Ids -> 0..MaxPhotos]
      /\ \A p \in items : Dated(p) /\ p.id \in Ids
  BY <1>2 DEF Fetched, Position, Dated
<1>4. /\ IsFiniteSet(items)
      /\ cursor # NoCursor => \A p \in items : Older(p, cursor)
      /\ next # NoCursor => /\ next.filter = filter
                            /\ [at |-> next.at, id |-> next.id] \in items
                            /\ \A p \in items : ~Older(p, next)
  BY <1>1 DEF HistoryInv, Fetching
<1>5. /\ Accepts /\ IsFiniteSet(shown) /\ count = Cardinality(shown)
      /\ cursor = NoCursor => shown = {}
      /\ cursor # NoCursor => \A p \in shown : ~Older(p, cursor)
  BY <1>1 DEF HistoryInv, Walked
<1>. HIDE DEF items, next
<1>6. shown \cap items = {}
  BY <1>4, <1>5
<1>7. IsFiniteSet(shown \cup items) /\ Cardinality(shown \cup items) = count + Cardinality(items)
  <2>1. Cardinality(shown \cap items) = 0
    BY <1>6, FS_EmptySet
  <2>2. Cardinality(shown) \in Nat /\ Cardinality(items) \in Nat
    BY <1>4, <1>5, FS_CardinalityType
  <2>. QED
    <3>1. /\ IsFiniteSet(shown \cup items)
          /\ Cardinality(shown \cup items) =
                 Cardinality(shown) + Cardinality(items) - Cardinality(shown \cap items)
      BY <1>4, <1>5, FS_Union
    <3>. QED
      BY <3>1, <2>1, <2>2, <1>5
<1>8. TypeOK'
  <2>1. \A p \in items : item(p) \in Item
    <3>. SUFFICES ASSUME NEW p \in items PROVE item(p) \in Item
      OBVIOUS
    <3>1. p.id \in Ids /\ fetched.photos[p.id] \in 0..MaxPhotos
      BY <1>3
    <3>2. (p.id \in fetched.archives) \in BOOLEAN
      OBVIOUS
    <3>. QED
      BY <3>1, <3>2 DEF Item
  <2>2. answer' \subseteq Item
    <3>. HIDE DEF item
    <3>. QED
      BY <2>1, <1>1
  <2>3. count' \in Nat
    BY <1>1, <1>2, <1>4, FS_CardinalityType DEF TypeOK
  <2>. HIDE DEF item
  <2>. QED
    BY <2>2, <2>3, <1>1, <1>2, <1>3 DEF TypeOK, store
<1>. HIDE DEF item
<1>9. ASSUME next # NoCursor
      PROVE  \A p \in shown : ~Older(p, next)
  <2>1. next \in Cursor /\ Dated(next)
    BY <1>3, <1>9 DEF Cursor, Dated
  <2>. DEFINE last == [at |-> next.at, id |-> next.id]
  <2>2. last \in items /\ Dated(last) /\ last.at = next.at /\ last.id = next.id
    BY <2>1, <1>4, <1>9 DEF Dated
  <2>. HIDE DEF last
  <2>3. ASSUME NEW p \in shown PROVE ~Older(p, next)
    <3>1. cursor # NoCursor /\ ~Older(p, cursor) /\ Dated(p) /\ Dated(cursor)
      BY <2>3, <1>2, <1>5, CursorDated
    <3>2. Older(last, cursor)
      BY <3>1, <2>2, <1>4
    <3>3. ~Older(p, last)
      BY <3>1, <3>2, <2>2, OlderIsOrder
    <3>. QED
      BY <3>3, <2>2 DEF Older
  <2>. QED
    BY <2>3
<1>10. Accepts'
  BY <1>1, <1>4 DEF Accepts
<1>11. (Stored \subseteq used)'
  BY <1>1 DEF HistoryInv, Stored, store
<1>12. Walked'
  BY <1>1, <1>4, <1>7, <1>9, <1>10 DEF Walked
<1>13. Fetching'
  BY <1>1 DEF Fetching
<1>14. Steady'
  <2>1. ASSUME NEW i \in steady PROVE Awaited(i)'
    <3>1. /\ i \in Stored /\ filter \in rows[i].matches
          /\ Place(i) \in shown \cup items \/ (next # NoCursor /\ Older(Place(i), next))
      <4>1. Awaited(i)
        BY <2>1 DEF HistoryInv, Steady
      <4>. QED
        BY <4>1, <1>1 DEF Awaited, items, next
    <3>2. Place(i)' = Place(i) /\ Stored' = Stored
      BY <1>1 DEF Place, Stored, store
    <3>. QED
      BY <3>1, <3>2, <1>1 DEF Awaited, store
  <2>. QED
    BY <2>1, <1>1 DEF Steady
<1>15. WithPhotos'
  <2>1. \A p \in items : item(p).archive => item(p).photos > 0
    BY <1>1 DEF HistoryInv, WithPhotos, item
  <2>2. NoEmptyArchive'
    BY <2>1, <1>1 DEF NoEmptyArchive
  <2>. QED
    BY <2>2, <1>1 DEF HistoryInv, WithPhotos, Stored, store
<1>. QED
  BY <1>8, <1>11, <1>12, <1>13, <1>14, <1>15 DEF HistoryInv

LEMMA FailPageInv ==
  ASSUME HistoryInv, FailPage
  PROVE  HistoryInv'
<1>. USE HistoryAssumption
<1>1. /\ phase = "reading" /\ phase' = "ready" /\ fetched' = NoRow /\ answer' = {}
      /\ UNCHANGED <<listing, store, filter, cursor, shown, count, book, steady>>
  BY DEF FailPage
<1>2. TypeOK'
  BY <1>1 DEF HistoryInv, TypeOK, store
<1>3. (Stored \subseteq used)' /\ Walked' /\ Fetching'
  BY <1>1 DEF HistoryInv, Stored, Walked, Fetching, Accepts, store
<1>4. Steady'
  <2>1. ASSUME NEW i \in steady PROVE Awaited(i)'
    <3>1. Awaited(i) /\ Place(i)' = Place(i) /\ (Accepts' <=> Accepts)
      BY <2>1, <1>1 DEF HistoryInv, Steady, Place, Accepts, store
    <3>. QED
      BY <3>1, <1>1 DEF Awaited, Stored, store
  <2>. QED
    BY <2>1, <1>1 DEF Steady
<1>5. WithPhotos'
  BY <1>1 DEF HistoryInv, WithPhotos, NoEmptyArchive, Stored, store
<1>. QED
  BY <1>2, <1>3, <1>4, <1>5 DEF HistoryInv

-----------------------------------------------------------------------------
(* One archive.                                                            *)

LEMMA OpenBookInv ==
  ASSUME HistoryInv, NEW i \in Ids, OpenBook(i)
  PROVE  HistoryInv'
<1>. USE HistoryAssumption
<1>1. /\ i \in Stored /\ rows[i].kind = "archive"
      /\ book' = [id |-> i, photos |-> Snapshot({i})] /\ answer' = {}
      /\ UNCHANGED <<listing, store, walk, steady>>
  BY DEF OpenBook
<1>2. TypeOK
  BY DEF HistoryInv
<1>3. Snapshot({i}) \in [Ids -> 0..MaxPhotos] /\ Snapshot({i})[i] = photos[i]
  BY <1>2 DEF Snapshot, TypeOK
<1>4. book' \in Opened /\ book'.photos[book'.id] = photos[i]
  BY <1>1, <1>3 DEF Opened
<1>5. TypeOK'
  BY <1>1, <1>2, <1>4 DEF TypeOK, store, walk
<1>6. (Stored \subseteq used)' /\ Walked' /\ Fetching'
  BY <1>1, WalkKept DEF HistoryInv, Stored, store
<1>7. Steady'
  BY <1>1, SteadyKept DEF HistoryInv, Steady, Awaited, Stored, store, walk
<1>8. WithPhotos'
  BY <1>1, <1>4 DEF HistoryInv, WithPhotos, NoEmptyArchive, Stored, store, walk
<1>. QED
  BY <1>5, <1>6, <1>7, <1>8 DEF HistoryInv

LEMMA AnswerBookInv ==
  ASSUME HistoryInv, AnswerBook
  PROVE  HistoryInv'
<1>. USE HistoryAssumption
<1>. DEFINE item == [id |-> book.id, archive |-> TRUE, photos |-> book.photos[book.id]]
<1>1. /\ book # NoRow /\ answer' = {item} /\ book' = NoRow
      /\ UNCHANGED <<listing, store, walk, steady>>
  BY DEF AnswerBook, PhotosOf
<1>2. TypeOK /\ book \in Opened
  BY <1>1 DEF HistoryInv, TypeOK
<1>3. item \in Item /\ item.photos > 0
  BY <1>1, <1>2 DEF HistoryInv, WithPhotos, Opened, Item
<1>. HIDE DEF item
<1>4. TypeOK'
  BY <1>1, <1>2, <1>3 DEF TypeOK, store, walk
<1>5. (Stored \subseteq used)' /\ Walked' /\ Fetching'
  BY <1>1, WalkKept DEF HistoryInv, Stored, store
<1>6. Steady'
  BY <1>1, SteadyKept DEF HistoryInv, Steady, Awaited, Stored, store, walk
<1>7. WithPhotos'
  BY <1>1, <1>3 DEF HistoryInv, WithPhotos, NoEmptyArchive, Stored, store, walk
<1>. QED
  BY <1>4, <1>5, <1>6, <1>7 DEF HistoryInv

-----------------------------------------------------------------------------
LEMMA NextInv == HistoryInv /\ [Next]_vars => HistoryInv'
<1>. SUFFICES ASSUME HistoryInv, [Next]_vars PROVE HistoryInv'
  OBVIOUS
<1>1. CASE \E i \in Ids, row \in Row : Create(i, row)
  BY <1>1, CreateInv
<1>2. CASE \E i \in Ids : Delete(i) \/ AppendPhotos(i) \/ OpenBook(i)
  BY <1>2, DeleteInv, AppendPhotosInv, OpenBookInv
<1>3. CASE \E i \in Ids, matches \in SUBSET Filters : EditMessage(i, matches)
  BY <1>3, EditMessageInv
<1>4. CASE \E f \in Filters : StartWalk(f) \/ ChangeQuery(f)
  BY <1>4, StartInv
<1>5. CASE Refuse
  BY <1>5, RefuseInv
<1>6. CASE \E read \in SUBSET Ids : \E items \in SUBSET read : ReadRows(read, items)
  BY <1>6, ReadRowsInv
<1>7. CASE AnswerPage
  BY <1>7, AnswerPageInv
<1>8. CASE FailPage
  BY <1>8, FailPageInv
<1>9. CASE AnswerBook
  BY <1>9, AnswerBookInv
<1>10. CASE UNCHANGED vars
  <2>1. UNCHANGED <<listing, rows, photos, used, walk, book, answer, steady>>
    BY <1>10 DEF vars, store
  <2>2. TypeOK' /\ (Stored \subseteq used)' /\ Walked' /\ Fetching'
    BY <2>1, WalkKept DEF HistoryInv, TypeOK, Stored, walk
  <2>3. Steady'
    BY <2>1, SteadyKept DEF HistoryInv, Steady, Awaited, Stored, walk
  <2>4. WithPhotos'
    BY <2>1 DEF HistoryInv, WithPhotos, NoEmptyArchive, Stored, walk
  <2>. QED
    BY <2>2, <2>3, <2>4 DEF HistoryInv
<1>. QED
  BY <1>1, <1>2, <1>3, <1>4, <1>5, <1>6, <1>7, <1>8, <1>9, <1>10 DEF Next

\* Invariant: the walk, the page under way and its cursor (ParseCursor,
\* ParseMessageCursor) agree, in every state.
THEOREM Invariant == Spec => []HistoryInv
BY InitInv, NextInv, PTL DEF Spec

\* TypeCorrect: rows, cursors, pages and answers have their types.
THEOREM TypeCorrect == Spec => []TypeOK
<1>1. HistoryInv => TypeOK
  BY DEF HistoryInv
<1>. QED
  BY <1>1, Invariant, PTL

\* NoRowTwice: no row is in two pages of one walk of List or
\* ListMessages, whatever is written meanwhile.
THEOREM NoRowTwice == Spec => []NeverTwice
<1>1. HistoryInv => NeverTwice
  BY DEF HistoryInv, Walked, NeverTwice
<1>. QED
  BY <1>1, Invariant, PTL

\* AllShown: a walk of List or ListMessages that has ended has shown all
\* rows that were there and matched from its first page on.
THEOREM AllShown == Spec => []NothingMissed
<1>1. HistoryInv => NothingMissed
  <2>. SUFFICES ASSUME HistoryInv, phase = "ended", NEW i \in steady
                PROVE  \E p \in shown : i = p.id
    BY DEF NothingMissed
  <2>1. Place(i) \in shown /\ i = Place(i).id
    BY PlaceOfRow DEF HistoryInv, Steady, Awaited
  <2>. QED
    BY <2>1
<1>. QED
  BY <1>1, Invariant, PTL

\* ArchivesWithPhotos: no answer shows an archive without photos: List,
\* ListMessages and Get read them in the snapshot of the rows.
THEOREM ArchivesWithPhotos == Spec => []NoEmptyArchive
<1>1. HistoryInv => NoEmptyArchive
  BY DEF HistoryInv, WithPhotos
<1>. QED
  BY <1>1, Invariant, PTL

=============================================================================
