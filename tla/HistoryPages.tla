---------------------------- MODULE HistoryPages ----------------------------
(***************************************************************************)
(* How a client reads the history page by page while others write.  Two    *)
(* listings work alike: "archives", GET /logbooks, ordered by log_date, and *)
(* "history", GET /machines/{id}/messages, the view machine_messages of     *)
(* messages and archives ordered by created_at.  Both order equal dates by  *)
(* id, newest first, take one row more than the page holds to learn whether *)
(* another page follows, and hand out the place of the page's last item as  *)
(* the cursor of the next.  A page of the history and an opened archive are *)
(* read by two statements, of one snapshot.                                 *)
(***************************************************************************)
EXTENDS Naturals, FiniteSets

CONSTANTS
    Ids,        \* UUIDs, random: their order has nothing to do with time
    Times,      \* values of log_date, or of created_at
    Filters,    \* machine, shift and dates, or machine and q
    Limit,      \* items of a page
    MaxPhotos,  \* photos of an archive: bounds AppendPhotos
    NoRow,      \* not stored, not being read
    NoCursor    \* the first page is asked for

VARIABLES
    listing,    \* which of the two listings the client reads, or single archives
    rows,       \* what each id is, as committed
    photos,     \* number of photos of each archive, as committed
    used,       \* ids ever given out
    filter,     \* what the client asks for
    cursor,     \* where it goes on
    phase,      \* "ready" to ask, "reading" the answer, "ended" after the last page
    fetched,    \* the page whose photos the second statement is to read
    book,       \* the archive whose photos the second statement is to read
    answer,     \* what the step just taken answered
    shown,      \* positions answered since the walk began
    count,      \* how many items these answers had
    steady      \* ids that have matched since the walk began

store == <<rows, photos, used>>
walk == <<filter, cursor, phase, fetched, shown, count>>
vars == <<listing, store, walk, book, answer, steady>>

Row == [kind : {"message", "archive"}, at : Times, matches : SUBSET Filters]
Position == [at : Times, id : Ids]
Cursor == [filter : Filters, at : Times, id : Ids]

\* Rows of a page, the cursor to go on with, and the photos in the snapshot.
Fetched == [items : SUBSET Position, archives : SUBSET Ids,
            next : Cursor \cup {NoCursor}, photos : [Ids -> 0..MaxPhotos]]
Opened == [id : Ids, photos : [Ids -> 0..MaxPhotos]]
Item == [id : Ids, archive : BOOLEAN, photos : 0..MaxPhotos]

ASSUME HistoryAssumption ==
    /\ Ids \subseteq Nat /\ IsFiniteSet(Ids)
    /\ Times \subseteq Nat
    /\ Limit \in Nat \ {0}
    /\ MaxPhotos \in Nat \ {0}
    /\ NoRow \notin Row /\ NoRow \notin Fetched /\ NoRow \notin Opened
    /\ NoCursor \notin Cursor

TypeOK ==
    /\ listing \in {"archives", "history", "one"}
    /\ rows \in [Ids -> Row \cup {NoRow}]
    /\ photos \in [Ids -> 0..MaxPhotos]
    /\ used \subseteq Ids
    /\ filter \in Filters
    /\ cursor \in Cursor \cup {NoCursor}
    /\ phase \in {"ready", "reading", "ended"}
    /\ fetched \in Fetched \cup {NoRow}
    /\ phase = "reading" <=> fetched # NoRow
    /\ book \in Opened \cup {NoRow}
    /\ answer \subseteq Item
    /\ shown \subseteq Position
    /\ count \in Nat
    /\ steady \subseteq {i \in used : rows[i] # NoRow}

Init ==
    /\ listing \in {"archives", "history", "one"}
    /\ rows = [i \in Ids |-> NoRow]
    /\ photos = [i \in Ids |-> 0]
    /\ used = {}
    /\ filter \in Filters
    /\ cursor = NoCursor /\ phase = "ready" /\ fetched = NoRow
    /\ book = NoRow /\ answer = {}
    /\ shown = {} /\ count = 0 /\ steady = {}

Stored == {i \in Ids : rows[i] # NoRow}
Place(i) == [at |-> rows[i].at, id |-> i]

-----------------------------------------------------------------------------
(* Writers.                                                                *)

\* A message or an archive is committed; its date, or the moment its statement
\* or transaction began, is not that of the commit: it may fall anywhere.
Create(i, row) ==
    /\ i \notin used
    /\ listing # "history" => row.kind = "archive"
    /\ used' = used \cup {i}
    /\ rows' = [rows EXCEPT ![i] = row]
    /\ \E n \in 0..MaxPhotos :
           /\ row.kind = "archive" <=> n > 0
           /\ photos' = [photos EXCEPT ![i] = n]
    /\ answer' = {}
    /\ UNCHANGED <<listing, walk, book, steady>>

\* The rows of the photos go with the archive, or before the message.
Delete(i) ==
    /\ i \in Stored
    /\ rows' = [rows EXCEPT ![i] = NoRow]
    /\ photos' = [photos EXCEPT ![i] = 0]
    /\ steady' = steady \ {i}
    /\ answer' = {}
    /\ UNCHANGED <<listing, used, walk, book>>

AppendPhotos(i) ==
    /\ i \in Stored /\ rows[i].kind = "archive"
    /\ photos[i] < MaxPhotos
    /\ photos' = [photos EXCEPT ![i] = @ + 1]
    /\ answer' = {}
    /\ UNCHANGED <<listing, rows, used, walk, book, steady>>

\* A text edited begins or ceases to match queries.
EditMessage(i, matches) ==
    /\ i \in Stored /\ rows[i].kind = "message"
    /\ rows' = [rows EXCEPT ![i].matches = matches]
    /\ steady' = IF filter \in matches THEN steady ELSE steady \ {i}
    /\ answer' = {}
    /\ UNCHANGED <<listing, photos, used, walk, book>>

-----------------------------------------------------------------------------
(* The client's walk.                                                      *)

Matching(f) == {i \in Stored : f \in rows[i].matches}

\* From the newest: no cursor.
StartWalk(f) ==
    /\ phase # "reading" /\ listing # "one"
    /\ filter' = f /\ cursor' = NoCursor /\ phase' = "ready"
    /\ shown' = {} /\ count' = 0 /\ steady' = Matching(f)
    /\ answer' = {}
    /\ UNCHANGED <<listing, store, fetched, book>>

\* A client that changes its query, but not the cursor it goes on with.  The
\* archives' cursor does not know its filter: there it is the client's duty.
ChangeQuery(f) ==
    /\ phase = "ready" /\ cursor # NoCursor
    /\ listing = "history" /\ cursor.filter = filter /\ f # filter
    /\ filter' = f
    /\ shown' = {} /\ count' = 0 /\ steady' = Matching(f)
    /\ answer' = {}
    /\ UNCHANGED <<listing, store, cursor, phase, fetched, book>>

\* (at, id) < (at, id), compared as SQL compares rows.
Older(p, q) == p.at < q.at \/ (p.at = q.at /\ p.id < q.id)

\* Mutant: whatever cursor comes is good for the query that comes with it.
AcceptsAny == TRUE

\* The history's cursor carries the machine and the hash of the query.
Accepts == cursor # NoCursor /\ listing = "history" => cursor.filter = filter

Refuse ==
    /\ phase = "ready" /\ ~Accepts
    /\ cursor' = NoCursor
    /\ answer' = {}
    /\ UNCHANGED <<listing, store, filter, phase, fetched, book, shown, count, steady>>

\* Mutant: the id is left out of the comparison.
CandidatesByDate ==
    {i \in Matching(filter) : cursor # NoCursor => rows[i].at <= cursor.at}

\* WHERE (at, id) < cursor.
Candidates ==
    {i \in Matching(filter) : cursor # NoCursor => Older(Place(i), cursor)}

\* ORDER BY at DESC, id DESC LIMIT n.
Newest(S, n, top) ==
    /\ top \subseteq S
    /\ \A i \in top, j \in S \ top : Older(Place(j), Place(i))
    /\ Cardinality(top) <= n
    /\ top # S => Cardinality(top) = n

\* The place of the page's last item, if more was read than the page holds.
NextCursor(read, items) ==
    IF items = read THEN NoCursor
    ELSE LET last == CHOOSE i \in items : \A j \in items : ~Older(Place(j), Place(i))
         IN [filter |-> filter, at |-> rows[last].at, id |-> last]

\* What a transaction will read of the photos of S.
Snapshot(S) == [i \in Ids |-> IF i \in S THEN photos[i] ELSE 0]

\* The query, and the cut to the page.
ReadRows(read, items) ==
    /\ phase = "ready" /\ Accepts /\ listing # "one"
    /\ Newest(Candidates, Limit + 1, read)
    /\ Newest(read, Limit, items)
    /\ phase' = "reading"
    /\ fetched' = [items |-> {Place(i) : i \in items},
                   archives |-> {i \in items : rows[i].kind = "archive"},
                   next |-> NextCursor(read, items),
                   photos |-> Snapshot(items)]
    /\ answer' = {}
    /\ UNCHANGED <<listing, store, filter, cursor, shown, count, book, steady>>

\* Mutant: the second statement sees what was committed meanwhile.
CommittedPhotos(snapshot) == photos

\* REPEATABLE READ: the photos of the snapshot the rows were read in.
PhotosOf(snapshot) == snapshot

\* The photos are read, and the client has the page.
AnswerPage ==
    /\ phase = "reading"
    /\ answer' = {[id |-> p.id, archive |-> p.id \in fetched.archives,
                   photos |-> PhotosOf(fetched.photos)[p.id]] : p \in fetched.items}
    /\ shown' = shown \cup fetched.items
    /\ count' = count + Cardinality(fetched.items)
    /\ cursor' = fetched.next
    /\ phase' = IF fetched.next = NoCursor THEN "ended" ELSE "ready"
    /\ fetched' = NoRow
    /\ UNCHANGED <<listing, store, filter, book, steady>>

\* The statement or the answer fails; the client asks for the same page again.
FailPage ==
    /\ phase = "reading"
    /\ phase' = "ready" /\ fetched' = NoRow
    /\ answer' = {}
    /\ UNCHANGED <<listing, store, filter, cursor, shown, count, book, steady>>

-----------------------------------------------------------------------------
(* Opening one archive.                                                    *)

OpenBook(i) ==
    /\ book = NoRow /\ listing = "one"
    /\ i \in Stored /\ rows[i].kind = "archive"
    /\ book' = [id |-> i, photos |-> Snapshot({i})]
    /\ answer' = {}
    /\ UNCHANGED <<listing, store, walk, steady>>

AnswerBook ==
    /\ book # NoRow
    /\ answer' = {[id |-> book.id, archive |-> TRUE, photos |-> PhotosOf(book.photos)[book.id]]}
    /\ book' = NoRow
    /\ UNCHANGED <<listing, store, walk, steady>>

-----------------------------------------------------------------------------
Next ==
    \/ \E i \in Ids, row \in Row : Create(i, row)
    \/ \E i \in Ids : Delete(i) \/ AppendPhotos(i) \/ OpenBook(i)
    \/ \E i \in Ids, matches \in SUBSET Filters : EditMessage(i, matches)
    \/ \E f \in Filters : StartWalk(f) \/ ChangeQuery(f)
    \/ Refuse
    \/ \E read \in SUBSET Ids : \E items \in SUBSET read : ReadRows(read, items)
    \/ AnswerPage \/ FailPage
    \/ AnswerBook

Spec == Init /\ [][Next]_vars

-----------------------------------------------------------------------------
(* Properties.                                                             *)

\* NeverTwice: however rows come and go, and however often a page is asked for
\* again, no row is in two pages of one walk.
NeverTwice == count = Cardinality(shown)

\* NothingMissed: a walk that has reached the last page has shown every row that
\* was stored and matched from its first request on (docs/openapi.yaml
\* 499-506: next_cursor "apa adanya", left out on the last page).
NothingMissed ==
    phase = "ended" => steady \subseteq {p.id : p \in shown}

\* NoEmptyArchive: an archive is stored with photos and deleted with them; no
\* answer shows one whose photos were deleted between two statements.
NoEmptyArchive ==
    \A item \in answer : item.archive => item.photos > 0

=============================================================================
