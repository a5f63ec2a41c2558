---------------------------- MODULE PhotoEditing ----------------------------
(***************************************************************************)
(* One photo in the dialogs of several browsers.  Each dialog collects     *)
(* clicks, shows them at once as a preview and saves them half a second    *)
(* after the last one; the server turns the pixels of the photo it read    *)
(* and replaces it, with its markers, unless it has changed meanwhile.     *)
(* Markers are placed on what the dialog shows; their request says nothing *)
(* of the photo they were placed on.                                       *)
(***************************************************************************)
EXTENDS PhotoGeometry, FiniteSets

CONSTANTS
    Dialogs,      \* browsers whose user may edit the photo: its uploader, admins
    Width, Height,
    TakenAs,      \* EXIF orientations of the photos taken
    Points,       \* the pixels that users mark
    Lossless,     \* PNG and WebP: the same pixels are encoded as the same bytes
    MaxClicks,    \* bound on clicks
    MaxGiveUps,   \* bound on requests whose answer does not come
    MaxMarkers    \* bound on markers

ASSUME PhotoEditingAssumption ==
    /\ Width \in Nat \ {0} /\ Height \in Nat \ {0}
    /\ TakenAs \subseteq Orientations
    /\ Points \subseteq Cells(Width, Height)
    /\ Lossless \in BOOLEAN
    /\ MaxClicks \in Nat /\ MaxGiveUps \in Nat /\ MaxMarkers \in Nat

VARIABLES
    photo,      \* the row of the photo and its object
    markers,    \* the rows of its markers
    dialog,     \* the rotation queue and the marker request of each dialog
    jobs,       \* rotations on their way or at work in the server
    posts,      \* markers on their way
    wanted,     \* the image the clicks in each dialog ask for
    disturbed,  \* dialogs that cannot know the photo: others turned it, answers were
                \* lost, or the photo was fetched again during a save
    clicks, giveUps, placed     \* counters of the bounds

server == <<photo, markers>>
counters == <<clicks, giveUps, placed>>
vars == <<server, dialog, jobs, posts, wanted, disturbed, counters>>

-----------------------------------------------------------------------------
(* Photos, hashes.                                                         *)

\* The picture taken; its pixels are named by their places.
Taken(o) ==
    [w |-> Width, h |-> Height, orientation |-> o,
     at |-> [c \in Cells(Width, Height) |-> c]]

\* key counts the replacements, each of which has a storage key of its own.
Photo(picture, key) == [picture |-> picture, key |-> key]

\* Two files have one hash if they have the same bytes: encoding a JPEG again
\* changes them, encoding the same pixels as PNG does not.
Sha(p) == <<p.picture, IF Lossless /\ p.key > 0 THEN 1 ELSE p.key>>

Fresh(p) ==
    [photo |-> p, current |-> p, queued |-> 0, preview |-> 0, timer |-> FALSE,
     flight |-> 0, error |-> FALSE, disposed |-> FALSE, marking |-> FALSE]

Init ==
    /\ \E o \in TakenAs : photo = Photo(Taken(o), 0)
    /\ markers = {}
    /\ dialog = [d \in Dialogs |-> Fresh(photo)]
    /\ jobs = {} /\ posts = {}
    /\ wanted = [d \in Dialogs |-> Shown(photo.picture)]
    /\ disturbed = [d \in Dialogs |-> FALSE]
    /\ clicks = 0 /\ giveUps = 0 /\ placed = 0

-----------------------------------------------------------------------------
(* The rotation queue.                                                     *)

Normalize(degrees) == degrees % 360

\* An image turned on the screen, by CSS.
Turns(image, degrees) == Quarters(image, Normalize(degrees) \div 90)

Busy(q) == q.flight # 0 \/ q.queued # 0

\* finish: nothing queued, nothing under way: what is saved is what is shown.
Finish(q) ==
    IF Busy(q) THEN q ELSE [q EXCEPT !.preview = 0, !.photo = q.current]

\* The degrees that flush sends.
Sent(queued) == IF queued = 270 THEN -90 ELSE queued

\* flush, up to the call of save.
Flush(q) ==
    IF q.flight # 0 \/ q.queued = 0
    THEN [q EXCEPT !.timer = FALSE]
    ELSE [q EXCEPT !.timer = FALSE, !.error = FALSE, !.queued = 0,
                   !.flight = Sent(q.queued)]

\* Mutant: the turn that failed is forgotten.
FailedForgetting(q) ==
    Finish([q EXCEPT !.timer = FALSE, !.error = TRUE, !.flight = 0])

Failed(q) ==
    Finish([q EXCEPT !.timer = FALSE, !.error = TRUE, !.flight = 0,
                     !.queued = Normalize(q.queued + q.flight)])

\* Mutant: clicks made during the save wait for a timer that has fired.
SavedWaiting(q, result) ==
    Finish([q EXCEPT !.current = result, !.flight = 0])

Saved(q, result) ==
    LET r == [q EXCEPT !.current = result, !.flight = 0] IN
    IF ~r.error /\ r.queued # 0 /\ ~r.timer THEN Flush(r) ELSE Finish(r)

\* The request of a queue that knows the photo p.  The dialog awaits its answer,
\* or, if it has been opened anew since, the queue it had then (orphan), with
\* the rest of that queue; or nobody does any more.
NewJob(d, degrees, p, awaited) ==
    [dialog |-> d, degrees |-> degrees, sha |-> Sha(p), step |-> "sent", photo |-> p,
     awaited |-> awaited, orphan |-> ~awaited, rest |-> 0]

\* A dialog's queue becomes q, others are the jobs left; a flight that begins
\* sends its request, with the hash of the photo as the dialog knows it.
Becomes(d, q, others) ==
    /\ dialog' = [dialog EXCEPT ![d] = q]
    /\ jobs' = IF q.flight # 0 /\ ~\E j \in others : j.dialog = d /\ j.awaited
               THEN others \cup {NewJob(d, q.flight, q.current, TRUE)}
               ELSE others

Click(d, degrees) ==
    LET q == dialog[d]
        r == [q EXCEPT !.queued = Normalize(q.queued + degrees),
                       !.preview = Normalize(q.preview + degrees),
                       !.error = FALSE,
                       !.timer = Normalize(q.queued + degrees) # 0]
    IN /\ ~q.disposed /\ ~q.marking
       /\ clicks < MaxClicks
       /\ clicks' = clicks + 1
       /\ dialog' = [dialog EXCEPT ![d] = Finish(r)]
       /\ wanted' = [wanted EXCEPT ![d] = Turns(@, degrees)]
       /\ UNCHANGED <<server, jobs, posts, disturbed, giveUps, placed>>

TimerFires(d) ==
    /\ dialog[d].timer
    /\ Becomes(d, Flush(dialog[d]), jobs)
    /\ UNCHANGED <<server, posts, wanted, disturbed, counters>>

\* The button beside the error.
Retry(d) ==
    /\ dialog[d].error /\ ~dialog[d].disposed
    /\ Becomes(d, Flush(dialog[d]), jobs)
    /\ UNCHANGED <<server, posts, wanted, disturbed, counters>>

\* The component is unmounted; what has not failed is sent on.
Dispose(d) ==
    LET q == [dialog[d] EXCEPT !.disposed = TRUE, !.timer = FALSE] IN
    /\ ~dialog[d].disposed
    /\ Becomes(d, IF q.error THEN q ELSE Flush(q), jobs)
    /\ UNCHANGED <<server, posts, wanted, disturbed, counters>>

\* What the dialog that is closed still waits for is left to the queue it had,
\* which goes on alone.
Orphaned(d, j) ==
    IF j.dialog = d /\ j.awaited
    THEN [j EXCEPT !.awaited = FALSE, !.orphan = TRUE, !.rest = dialog[d].queued]
    ELSE j

Ignored(d, p) == IF p.dialog = d THEN [p EXCEPT !.awaited = FALSE] ELSE p

\* Opened again: a queue and a marker request of its own, whatever is under way,
\* and the photo as the page has it, which may have been fetched anew.
Open(d) ==
    /\ dialog[d].disposed
    /\ \E p \in {photo, dialog[d].photo} :
           /\ dialog' = [dialog EXCEPT ![d] = Fresh(p)]
           /\ wanted' = [wanted EXCEPT ![d] = Shown(p.picture)]
           /\ disturbed' = [disturbed EXCEPT ![d] = p # photo \/ \E j \in jobs : j.dialog = d]
    /\ jobs' = {Orphaned(d, j) : j \in jobs}
    /\ posts' = {Ignored(d, p) : p \in posts}
    /\ UNCHANGED <<server, counters>>

\* The book is fetched again, after a save or when the browser is back online:
\* the dialog shows the photo that is stored, its queue keeps the one it knows.
Refetch(d) ==
    /\ ~dialog[d].disposed
    /\ dialog' = [dialog EXCEPT ![d].photo = photo]
    /\ disturbed' = [disturbed EXCEPT ![d] = @ \/ Busy(dialog[d])]
    /\ UNCHANGED <<server, jobs, posts, wanted, counters>>

-----------------------------------------------------------------------------
(* The server.                                                             *)

Step(j, step, p) == (jobs \ {j}) \cup {[j EXCEPT !.step = step, !.photo = p]}

\* A job that ends is kept for its answer, if anybody awaits that.
Ended(j, step, p) == IF j.awaited \/ j.orphan THEN Step(j, step, p) ELSE jobs \ {j}

\* Mutant: the server turns whatever is stored.
ReadUnchecked(j) ==
    /\ j.step = "sent"
    /\ jobs' = Step(j, "read", photo)
    /\ UNCHANGED <<server, dialog, posts, wanted, disturbed, counters>>

\* RotatePhoto: the row, the hash the client sent, the object.
ReadOriginal(j) ==
    /\ j.step = "sent"
    /\ jobs' = IF Sha(photo) = j.sha THEN Step(j, "read", photo) ELSE Ended(j, "failed", j.photo)
    /\ UNCHANGED <<server, dialog, posts, wanted, disturbed, counters>>

TurnMarkers(degrees) ==
    {LET at == TurnMarker(degrees, Scale(Width, Height), m.x, m.y)
     IN [m EXCEPT !.x = at[1], !.y = at[2]] : m \in markers}

\* Mutant: the photo is not compared again under its lock.
UnchangedUnchecked(j) == TRUE

Unchanged(j) == Sha(photo) = Sha(j.photo) /\ photo.key = j.photo.key

\* ReplaceRotatedPhoto: the rows of the photo and of its markers in one
\* transaction, under the lock of the photo.
ReplaceRotatedPhoto(j) ==
    /\ j.step = "read"
    /\ IF Unchanged(j)
       THEN /\ photo' = Photo(RotatePixels(j.photo.picture, j.degrees), photo.key + 1)
            /\ markers' = TurnMarkers(j.degrees)
            /\ jobs' = Ended(j, "done", photo')
            /\ disturbed' = [d \in Dialogs |-> disturbed[d] \/ d # j.dialog]
       ELSE /\ jobs' = Ended(j, "failed", j.photo)
            /\ UNCHANGED <<server, disturbed>>
    /\ UNCHANGED <<dialog, posts, wanted, counters>>

\* Store, database or deadline: an error before the transaction.
FailRotation(j) ==
    /\ j.step \in {"sent", "read"}
    /\ jobs' = Ended(j, "failed", j.photo)
    /\ UNCHANGED <<server, dialog, posts, wanted, disturbed, counters>>

\* A queue whose dialog has been opened anew sends the rest of its clicks; with
\* none it tells the page of the photo.  After a failure nobody asks it to retry.
AnswerOrphan(j) ==
    IF j.orphan /\ j.step = "done"
    THEN IF j.rest # 0
         THEN /\ jobs' = (jobs \ {j}) \cup {NewJob(j.dialog, Sent(j.rest), j.photo, FALSE)}
              /\ UNCHANGED dialog
         ELSE jobs' = jobs \ {j} /\ dialog' = [dialog EXCEPT ![j.dialog].photo = j.photo]
    ELSE jobs' = jobs \ {j} /\ UNCHANGED dialog

Answer(j) ==
    /\ j.step \in {"done", "failed"}
    /\ IF j.awaited
       THEN Becomes(j.dialog, IF j.step = "done" THEN Saved(dialog[j.dialog], j.photo)
                                                 ELSE Failed(dialog[j.dialog]), jobs \ {j})
       ELSE AnswerOrphan(j)
    /\ UNCHANGED <<server, posts, wanted, disturbed, counters>>

\* The answer is lost, or the browser has waited long enough.
GiveUp(j) ==
    /\ j.awaited \/ j.orphan
    /\ giveUps < MaxGiveUps
    /\ giveUps' = giveUps + 1
    /\ jobs' = (jobs \ {j}) \cup {[j EXCEPT !.awaited = FALSE, !.orphan = FALSE, !.rest = 0]}
    /\ dialog' = IF j.awaited THEN [dialog EXCEPT ![j.dialog] = Failed(@)] ELSE dialog
    /\ disturbed' = [disturbed EXCEPT ![j.dialog] = TRUE]
    /\ UNCHANGED <<server, posts, wanted, clicks, placed>>

-----------------------------------------------------------------------------
(* Markers.                                                                *)

\* Mutant: the dialog offers markers while a rotation is saved.
MayMarkAlways(q) == ~q.disposed /\ ~q.marking

MayMark(q) == ~q.disposed /\ ~q.marking /\ ~Busy(q)

\* A click on a pixel of the photo as it is shown.
PlaceMarker(d, point) ==
    LET i == Shown(dialog[d].photo.picture)
        c == CHOOSE c \in DOMAIN i.at : i.at[c] = point
    IN /\ MayMark(dialog[d])
       /\ placed < MaxMarkers
       /\ placed' = placed + 1
       /\ dialog' = [dialog EXCEPT ![d].marking = TRUE]
       /\ posts' = posts \cup {[dialog |-> d, point |-> point, seen |-> i, awaited |-> TRUE,
                                x |-> MiddleX(c, i.w, i.h), y |-> MiddleY(c, i.w, i.h)]}
       /\ UNCHANGED <<server, jobs, wanted, disturbed, clicks, giveUps>>

Answered(p) ==
    /\ posts' = posts \ {p}
    /\ dialog' = IF p.awaited THEN [dialog EXCEPT ![p.dialog].marking = FALSE] ELSE dialog

\* AddPhotoMarker, under the lock of the photo, and its answer.  pointed, seen
\* and excused are not stored: they say what the marker was meant for.
AddPhotoMarker(p) ==
    /\ markers' = markers \cup
           {[x |-> p.x, y |-> p.y, pointed |-> p.point,
             seen |-> p.seen = Shown(photo.picture),
             excused |-> ~p.awaited \/ disturbed[p.dialog]]}
    /\ Answered(p)
    /\ UNCHANGED <<photo, jobs, wanted, disturbed, counters>>

FailMarker(p) ==
    /\ Answered(p)
    /\ UNCHANGED <<server, jobs, wanted, disturbed, counters>>

GiveUpMarker(p) ==
    /\ p.awaited
    /\ giveUps < MaxGiveUps
    /\ giveUps' = giveUps + 1
    /\ posts' = (posts \ {p}) \cup {[p EXCEPT !.awaited = FALSE]}
    /\ dialog' = [dialog EXCEPT ![p.dialog].marking = FALSE]
    /\ UNCHANGED <<server, jobs, wanted, disturbed, clicks, placed>>

DeletePhotoMarker(m) ==
    /\ markers' = markers \ {m}
    /\ UNCHANGED <<photo, dialog, jobs, posts, wanted, disturbed, counters>>

-----------------------------------------------------------------------------
Next ==
    \/ \E d \in Dialogs, degrees \in {90, -90} : Click(d, degrees)
    \/ \E d \in Dialogs : TimerFires(d) \/ Retry(d) \/ Dispose(d) \/ Open(d) \/ Refetch(d)
    \/ \E j \in jobs : ReadOriginal(j) \/ ReplaceRotatedPhoto(j) \/ FailRotation(j)
                         \/ Answer(j) \/ GiveUp(j)
    \/ \E d \in Dialogs, point \in Points : PlaceMarker(d, point)
    \/ \E p \in posts : AddPhotoMarker(p) \/ FailMarker(p) \/ GiveUpMarker(p)
    \/ \E m \in markers : DeletePhotoMarker(m)

Spec == Init /\ [][Next]_vars

-----------------------------------------------------------------------------
(* Properties.                                                             *)

TypeOK ==
    /\ photo.key \in 0..MaxClicks + MaxGiveUps
    /\ DOMAIN photo.picture.at = Cells(photo.picture.w, photo.picture.h)
    /\ \A m \in markers : m.x \in 0..Scale(Width, Height) /\ m.y \in 0..Scale(Width, Height)
    /\ \A d \in Dialogs :
           /\ dialog[d].queued \in {0, 90, 180, 270}
           /\ dialog[d].preview \in {0, 90, 180, 270}
           /\ dialog[d].flight \in {0} \cup Rotations
           /\ dialog[d].flight # 0 <=> \E j \in jobs : j.dialog = d /\ j.awaited
           /\ dialog[d].marking <=> \E p \in posts : p.dialog = d /\ p.awaited

\* PreviewHonest: what an undisturbed dialog shows, with its preview, is what
\* will be stored when all it has queued and sent is saved, however clicks,
\* saves, failures and retries follow each other (frontend/README.md:118-130).
PreviewHonest ==
    \A d \in Dialogs : LET q == dialog[d] IN
        ~disturbed[d] => Turns(Shown(q.photo.picture), q.preview)
            = Turns(Shown(q.current.picture), q.flight + q.queued)

\* AddsUp: unless others turned the photo or an answer was lost, what is stored
\* and what is still to be saved add up to the clicks, and no pixel of any EXIF
\* orientation is misplaced.
AddsUp ==
    \A d \in Dialogs : LET q == dialog[d]
                            waiting == \E j \in jobs : j.dialog = d /\ j.step # "done"
        IN ~disturbed[d] =>
            Turns(Shown(photo.picture), q.queued + (IF waiting THEN q.flight ELSE 0))
                = wanted[d]

\* MarkersFollow: a marker that reached the server before the photo it was
\* placed on was turned points to its pixel for good, whatever rotations of any
\* dialog come between.
MarkersFollow ==
    \A m \in markers : m.seen => PixelAt(Shown(photo.picture), m.x, m.y) = m.pointed

\* DialogLocks: within one dialog markers and rotations wait for each other: only
\* a rotation of somebody else, an answer lost, or closing the dialog and opening
\* it again before the answer, brings a marker to a photo other than the one it
\* was placed on (PhotoDialog.jsx:366, 464-465).
DialogLocks == \A m \in markers : m.seen \/ m.excused

\* MarkersLand: markers follow the rotation of their photo
\* (frontend/README.md:143-144): each points to the pixel that was clicked.
MarkersLand == \A m \in markers : PixelAt(Shown(photo.picture), m.x, m.y) = m.pointed

\* TurnedAsKnown: a rotation turns the photo with the hash that was sent, by the
\* degrees that were sent, though it is read and replaced in two steps; so that
\* what is sent again after a lost answer does not turn the photo it has turned
\* (photoRotation.js:31-36, service/photo_rotation.go).
TurnedAsKnown ==
    [][photo' # photo =>
           \E j \in jobs \ jobs' :
               /\ Sha(photo) = j.sha
               /\ photo'.picture = RotatePixels(photo.picture, j.degrees)]_vars

\* NoLostClick: whatever is queued has a timer, a save under way after which it
\* is sent, or an error; beside that the user finds "retry" until the dialog is
\* closed, which gives up what has failed.
NoLostClick ==
    \A d \in Dialogs :
        dialog[d].queued # 0 => dialog[d].timer \/ dialog[d].flight # 0 \/ dialog[d].error

=============================================================================
