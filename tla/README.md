# A verification project for IMCProLogbook

The repository holds a logbook for the machines of a plant: operators send text
and photos to a machine's conversation, older entries are archives of photos per
machine, date and shift. A Go server (`cmd/`, `internal/`) keeps accounts,
messages and photo metadata in PostgreSQL and the photos themselves in a
directory or an S3 bucket; a React client (`frontend/src`) shows them.

This directory models the parts of it where several actors meet: two stores
without a common transaction, long requests and background workers, logins and
resets, and a browser that puts one timeline together from three sources.

## Inventory

| Component | State | Operations | What is hard | What makes it correct |
|---|---|---|---|---|
| Photo objects (`service/logbooks.go`, `repository/repository.go`, `photo_rotation.go`, `storage/`) | rows of logbooks, messages, photos; `object_deletions`; the object store | create, append, rotate, delete, cleanup | no transaction spans both stores; requests die anywhere; several workers | no photo without its object, no object without a photo or a queued deletion, pages 1..n |
| Local object store (`storage/local.go`) | a directory of files, in memory and on the disk | put, delete | every step may fail; the process or the power dies between two | objects are whole or absent, acknowledged ones survive |
| Messages (`service/messages.go`, `repository/messages.go`) | rows of `messages` | create, edit, delete, list | commit and publication are two steps; pages are cut while rows come and go | events follow commits, walks show each row once |
| Broker and WebSocket (`message_events.go`, `message_socket.go`) | subscribers with channels of 64 | subscribe, publish, write, cut off | slow subscribers, revoked sessions, restarts | a connected subscriber misses nothing or is cut off |
| Conversation page (`Conversation.jsx`, `lib/messages.js`, `lib/api.js`, `MessageDrafts.jsx`) | timeline, cursor, overlays, drafts | load, page, receive, send, edit, delete | pages, events and answers arrive in any order | the page ends up showing the database |
| Archives: queries (`repository.go`, `shifts.js`, `Book.jsx`) | none of its own | list, open | equal dates; rows and photos are read by two statements | no row twice, none missed, no archive without photos |
| Sessions (`service/auth.go`, `repository/auth.go`) | `users`, `sessions`, row locks | login, logout, reset, disable, purge | bcrypt between reading the account and storing the session | every session is for the present password of an active account |
| Client session (`auth.jsx`, `lib/api.js`) | identity, generation | login, logout, expiry | late answers of an earlier session | only the latest identity is shown |
| HTTP layer (`middleware.go`, `server.go`) | windows of the login limiter, upload slots | allow, acquire, release | clocks read before the lock, the full table, panics | two windows of attempts at most in a minute, slots come back |
| Process (`cmd/logbook/main.go`) | listener, pool, store, workers | start, stop | who still uses what is closed | nothing is closed before its users have ended, and the end is reached |
| Push (`service/push.go`, `repository/push.go`, `lib/push.js`) | queue, subscriptions, the browser's one subscription | enqueue, deliver, subscribe, give up | full queue, 410 answers, change of account | a browser's subscription belongs to its user |
| Rotation queue and dialog (`lib/photoRotation.js`, `PhotoDialog.jsx`) | queued degrees, a save under way, the preview | rotate, retry, dispose | clicks during saves, failures, retries | what is saved adds up to what was asked |
| Markers and geometry (`photo_markers`, `service/photo_rotation.go`) | markers in parts of width and height | add, delete, turn | EXIF orientations; a rotation between placing and storing | a marker stays on its pixel |
| S3 store (`storage/s3.go`) | the bucket | put, delete | a Put given up may still land | as for photo objects |
| Deployment (`scripts/deploy.sh`), configuration, migrations, static server, service worker's cache, styling | | | sequential | not modelled |

Interactions: every handler and every socket asks Sessions; messages and
archives share the photo store, which calls the local or the S3 store; messages
publish to the broker, which feeds the pages; a created message is handed to
Push; rotations change photos and markers in one transaction; the process starts
and stops all of them.

`PROJECT.json` lists the hazards of this code at their lines, each with the
property that covers it or the reason why none does.

## Modules

| Module | Models |
|---|---|
| `ObjectCustody` | abstract: the life of one stored object (fresh, pending, published, condemned, erased) |
| `ObjectLifecycle` | requests, transactions, object store and cleanup workers; implements `ObjectCustody` |
| `ObjectStore` | abstract: what Put, Open and Delete of a store promise |
| `LocalStore` | the store in a directory, step by step, with power losses; implements `ObjectStore` |
| `SessionPolicy` | abstract: login and account change in one step each |
| `Sessions` | logins, maintenance commands and sockets, statement by statement; implements `SessionPolicy` |
| `EventStream` | abstract: what a subscriber of a machine's events is promised |
| `MessageFeed` | messages, events, broker, channel and wire of one subscriber |
| `Conversation` | extends `MessageFeed` with one browser's page and its requests; implements `EventStream` |
| `HistoryPages` | walks through archives and history, page by page, while others write |
| `PhotoGeometry` | operators: pixels under EXIF orientations and turns, markers; and what a viewer shows |
| `PhotoEditing` | extends `PhotoGeometry`: several dialogs that turn and mark one photo, and the server |
| `PushDelivery` | one browser's push subscription under several accounts, its rows, fan-out, queue and workers |
| `ServerProcess` | login limiter, upload slots, background workers and shutdown |
| `ObjectLifecycleProofs`, `SessionsProofs`, `LocalStoreProofs`, `ServerProcessProofs`, `HistoryPagesProofs`, `PushDeliveryProofs`, `ConversationProofs`, `PhotoEditingProofs` | the theorems about the module each is named for |
| `MC*` | instances for TLC: symmetry sets and values only |

Operators whose comment begins with "Mutant" are not part of any behaviour: each
is a wrong version of the definition after it, and `PROJECT.json` says which
property fails when it takes that definition's place.

### ObjectLifecycle

A transaction is one action, because each one takes the row lock of the logbook
or message first, creates the row, or is a single statement; every call of the
object store is an action of its own. `parent`, `photos` and `deletions` are the
tables; a key's row in `object_deletions` is `"held"` while its `not_before` is
in the future, `"due"` after, `"claimed"` once a worker took it. `pc`, `job`,
`keys`, `done` are the local state of a request from `Begin*` over `Reserve` and
`Put` to its transaction (`CreateLogbook`, `CreateMessage`, `AppendPhotos`,
`ReplaceRotatedPhoto`); `Abandon` ends it anywhere, as errors, deadlines and
crashes do, and may leave a `Put` behind (`late`, `Land`). `batch` and `erased`
are a cleanup pass (`Claim`, `EraseObject`, `SkipObject`, `CompleteDeletion`,
`StopWorker`). A transaction whose COMMIT succeeded but whose answer was lost is
the transaction's action: the row of the database decides, not the answer.

Left out: validation of images, contents and hashes (a key stands for its
object), `updated_at` and the turn of the markers in `ReplaceRotatedPhoto` (the
latter is in `PhotoEditing`), machines, shifts, and the check that one machine, date and
shift has one logbook (its failure is an `Abandon`).

### Sessions

`users` and `sessions` are committed rows; what a transaction has written and
not committed is kept with it in `login` and `admin`, and `locks` holds row
locks. `Verify` reads the account and stands for bcrypt; `LockAccount` is the
`SELECT ... FOR UPDATE`, which returns the latest committed row; `CommitLogin`
the INSERT and commit. `StartUpdate`, `Revoke`, `CommitUpdate` are the statements
of `updateUser`. The hash in a session is not a column: it records for which
password the session was issued, so that `SessionsCurrent` can say so. Expired
sessions are not valid whether purged or not.

### MessageFeed and Conversation

A message's texts are numbered; `rows[m]` is the current one, 0 none. Ids are in
the order of `created_at`, commits are not. `Commit` puts an event into `outbox`,
`PublishMessage` takes any event out of it: handlers run concurrently, so
publications of different, and without `Paced` of the same, messages may overtake
each other. `Restart` loses what is not in the database.

The page's state is that of the component: `items` and `cursor`, the refs
`deletedMessages`, `liveMessages`, `editedMessages` (`deleted`, `live`, `edited`),
the list request under way, and `draft`, which outlives the page. React's effects
are actions: `ReceiveReady` asks for a reload, `LoadFirst` is the effect that
runs later. `ListMessages` is a snapshot and `AnswerList` takes it at some moment
of the request; `ShowPage` is the arrival of the answer. Sends over the socket
and over HTTP are one operation whose answer comes at any time after its
publication or never; both orders of answer and event occur. A list request that
survives a server restart is answered or fails: both are allowed.

`EventStream` is what the page may rely on, without channel and frames: a
subscription begins with the ready frame, then brings every event published
since, in that order, until it is cut off or ends; after that it brings nothing,
so that what was missed is in the rows alone and the next ready frame has to
reload them. Its `stream` is the wire followed by the channel: `WriteEvent` is a
stutter, `PublishMessage` is `Bring` while there is a place in the channel and
`BreakOff` when there is none.

Left out: searching (`q`, in `HistoryPages`), archives among the messages (there
too), authorship (any message may be edited from here: a superset), the draft's
text and photos. Message photos' rotations publish no event in the code, so pages
are not told of them.

### HistoryPages

`rows` and `photos` are what is committed; `listing` says whether the client
walks through `GET /logbooks` or through the view `machine_messages`, or opens
single archives; reads change nothing, so one client of each kind is enough.
`ReadRows`
is the first statement of a page: the rows after the cursor that match, in the
order of date and id, `Limit` plus one of them; `AnswerPage` is the second
statement, which reads the photos of the page's archives. Both statements run in
one transaction that sees one snapshot, which `fetched` and `book` carry from
the first to the second. `Accepts` and `Refuse` are the query digest in the
cursor. Texts and shifts are sets of filters that a row matches; `EditMessage`
changes the set. Random ids are model integers whose order has nothing to do
with dates.

### PhotoGeometry and PhotoEditing

`Upright`, `Turned`, `RotatePixels` and `TurnMarker` are the formulas of
`photo_rotation.go` and of the UPDATE in `ReplaceRotatedPhoto`; `Shown` and
`Clockwise` say, without them, what a viewer shows of an EXIF orientation and
what a turn is. `PhotoEditing` compares the two on every picture it reaches.

A dialog is the state of `createPhotoRotation` (`queued`, `preview`, `timer`,
`flight`, `error`, `disposed`), the photo it shows and the one it sends hashes
of. It may be closed at any time (`Dispose`): the dialog's own button waits for a
rotation, leaving the page does not, and neither waits for a marker. The queue of
a closed dialog goes on alone: when the dialog has been opened again (`Open`) its
requests are orphans with the clicks that are still to be sent (`AnswerOrphan`).
The dialog opened has a queue and a marker request of its own, so that it does
not know what is under way, and the page's row of the photo, which may be an old
one from the query cache. Going to the next photo and back keeps the dialog and
its marker request, and so the lock; the model lets it go there too, a superset.

A rotation in the server has two steps, reading photo and object and
replacing them under the lock (`Unchanged` is the comparison there), between
which rotations of other dialogs come. An answer may be lost after or before the
replacement; `disturbed` marks dialogs that cannot know the photo from then on.
`seen`, `pointed` and `excused` are kept with a marker for the properties only.
Two files have one hash if they have the same bytes: encoding PNG and WebP
again yields the same, JPEG does not (`Lossless`). Left out: parsing EXIF,
codecs, floating point, and the lock of the reader of an object.

### PushDelivery

`page.tasks` is the chain of promises in `push.js`: `syncPush` and `disablePush`
run one after the other, each step between two awaits an action; `fresh` is the
comparison of the session generation after an await. `cookie` is the session the
browser sends by itself, which a late answer to a logout empties. Requests are
served at any time while they are awaited, and even after their page has gone.
`fanout`, `jobs` and `worker` are `EnqueueUsers`, the channel and the goroutines;
`Deliver` asks the provider, whose 404 or 410 may reach the server long after the
browser has subscribed again. Left out: several tabs of one browser, whose
promise chains do not know each other, a change of the VAPID key, and what the
service worker shows.

### ServerProcess

`windows` is the limiter's map. Time is in ages: a window's age, the age of a
clock reading that still waits for the lock (`late`), and in `lately` the ages of
an address's last `2 * Limit + 1` admitted attempts, newest first, counted up to
`Span`, a window less the longest wait. `RateBound` says that the first of those
is `Span` ago by then: more than two windows of attempts never fall into that
time. Here the documentation and the code differ: `docs/openapi.yaml:321`
promises 10 attempts per minute and address, while windows that begin anew
(`middleware.go:237`) admit 10 at the end of one and 10 at the beginning of the
next, up to 20 within a minute. `RateBound` is what the code ensures, not what
that line says.

`Allow` is the whole of `allow` under its lock, with the purge of a full table.
`tokens` is the channel of upload slots. `phase` runs through the deferred calls
of `run()`; `cleaner` and `sender` are the goroutines they wait for. After its
context has ended the cleanup may begin one round more, cancelled as it begins,
when `select` finds both ready. `connected` are the requests that hold a
connection of the database pool (`Acquire`, `Release`), and `ClosePool` is
pgxpool's `Close`, which waits for all of them: those of hijacked sockets, which
`Shutdown` does not wait for, and of requests that `Shutdown` gave up (`forced`,
also true when the listener failed) included.

### LocalStore

`call` is the program counter of a Put or Delete in `local.go`, one system call
per action, each of which may fail (`Fail`, `Abandon`); the removal of the temporary
file that follows may fail too, and its error is ignored. `name`, `text` are what
the process sees of a file; `names`, `directories` and `synced` what is known of
the disk: until the directory is synced a power loss may leave any name the file
has had since, and of a file that is not synced any part. `Crash` ends the
process, `PowerLoss` the machine. `used`, `published`, `acked`, `deleted` are
kept for the properties and the refinement. Syncing a directory fixes the names
in it, not the directory's own entry in its parent, which `local.go` never syncs
(`lost`, and the exception in `PutSurvives`); Delete syncs nothing, so an object
deleted may be back after a power loss (`ObjectStore.PowerLoss` allows it).

## Runs

| Run | Question | Properties | Instance |
|---|---|---|---|
| `objects_safety` | is a published object ever lost, condemned or misnumbered? | `TypeOK`, `NoDanglingPhoto`, `PublishedNeverClaimed`, `PagesConsistent`, `PagesStable` | 3 keys, a logbook, a message, 2 requests, 2 workers, requests of any length |
| `objects_timely` | is an object ever orphaned; is `ObjectCustody` implemented; is all garbage collected? | `NoLeakedObject`, `ImplementsCustody`, `GarbageCollected` | 2 keys, a logbook, 2 requests that end before their reservations, 2 workers |
| `sessions` | can a session survive a reset or a disable; is `SessionPolicy` implemented; does everybody get an answer? | `TypeOK`, `SessionsCurrent`, `ImplementsPolicy`, `SocketsFollowSessions`, `LoginsAnswered` | 2 accounts, 2 hashes, 2 tokens, 2 logins, 2 commands, a socket |
| `conversation_writers` | what may push a page that sends, edits and deletes behind the database; does it catch up? | `GapsAreOldSends`, `CatchesUp` | 1 message of 2 texts, channel and wire of 1, own sends, edits and deletions, paced writes |
| `conversation_races` | is a message ever missing when writes overtake each other; is `EventStream` implemented? | `NothingMissing`, `ImplementsStream` | 2 messages of 1 text, pages of 1, channel and wire of 1, written and deleted elsewhere, no pacing |
| `conversation_lastsent` | finding: is reloaded history shown as persisted? | `ReloadsHistory` | 1 message of 2 texts, own sends |
| `history_pages` | does a walk repeat or miss a row, or show an archive without photos? | `NeverTwice`, `NothingMissed`, `NoEmptyArchive` | 3 ids, 2 dates, 2 filters, pages of 1, 2 photos |
| `photo_editing` | do previews, stored pixels and markers agree; is a photo ever turned that was not meant? | `PreviewHonest`, `AddsUp`, `MarkersFollow`, `DialogLocks`, `NoLostClick`, `TurnedAsKnown` | 2 dialogs, 3 x 2 pixels, orientation 8, 2 clicks, 1 lost answer, 1 marker |
| `photo_markers` | finding: does each marker point to the pixel that was clicked? | `MarkersLand` | 1 dialog, 3 x 2 pixels, 1 click, 1 marker, no lost answer |
| `push_delivery` | does an account get another's notifications; does anyone wait for the push service? | `TypeOK`, `OnlyTheOwner`, `SilentAfterSignOut`, `OnIsActive`, `MessagesAnswered`, `WorkersExit` | 2 accounts, 2 logins, 2 subscriptions, 1 trouble, 1 message, 1 worker, queue of 1 |
| `server_process` | how many attempts are let in; do slots come back; who is cut off by the shutdown, and does it end? | `RateBound`, `ClosedLast`, `UploadsRecover`, `StopsInTheEnd` | 2 clients, 2 addresses, 2 attempts in 2 ticks, 1 window, 1 slot |
| `local_store` | is an object torn or lost; is `ObjectStore` implemented? | `TypeOK`, `NeverTorn`, `PutSurvives`, `ImplementsStore` | 2 keys, 2 callers, 1 crash, 1 power loss |

Why these bounds are enough to be of interest:

- objects: two requests and three keys let an append race an append, a rotation a
  rotation (each replacing one key by another) or a deletion; two workers can
  hold the same key, one of them stalled; `ClaimLimit` 1 leaves rows unclaimed.
  `MaxPages` 2 is reached by two appends.
- sessions: two logins and two maintenance commands queue for one account's lock
  while a second account shows that others are left alone.
- conversation: one place in the channel makes every second event a cut-off, one
  frame on the wire separates writing from receiving. In `conversation_races`
  pages of one message make the second message an older page, with a cursor
  between them; the browser writes nothing itself there. In
  `conversation_writers` the one message has two texts, so that it changes while its page, its event or the answer to an own write is under
  way. Larger instances take longer than minutes; the theorems are about any
  number of messages with own writes and, but for texts, without pacing.
- history: three rows with two dates have equal dates among them; pages of one
  need three of them, with a cursor between each two; an archive of one photo can
  grow by another.
- photos: 3 x 2 pixels differ under all eight orientations, and a corner moves
  under every turn. TLC takes orientation 8 only, a quarter turn, which every wrong
  direction or order of turns shows; the theorems are about all eight and all
  sizes. Two clicks are a save and a click during it, or two rotations of two
  dialogs, and leave room for a dialog to be closed and opened again at any
  moment. `Lossless` lets a hash come back, the harder case.
- push: two logins are a change of account with its late requests; two endpoints
  are one that is gone and its successor; a queue of one is full with one job.
- process: with one window the second address finds the table full; a window of
  two ticks and readings one tick old can overlap; one slot makes uploads wait
  for each other.
- local store: one key is put while the other is deleted, in one directory that
  one caller syncs for both; a crash and a power loss in either order.

What is proved (below) needs none of these bounds: the safety properties of every
run and the four refinements hold for any number of actors, keys, rows and
messages, and for pictures of every size. The runs are there to find a mistake
before a proof does, and for liveness.

Two runs expect a violation: each states what the repository says of itself and
is described under "findings" in `PROJECT.json`.

- `conversation_lastsent` (`message_events.go:12`): the message last sent is merged
  over the reloaded history as it was when it was sent.
- `photo_markers` (`frontend/README.md:143-144`, markers follow the rotation): a
  dialog that is left and opened again while its rotation or its marker is under
  way does not know of it, and lets a marker be placed on a photo, or turns a
  photo on which a marker was placed, that is another by the time the marker is
  stored. Neither another browser nor a lost answer is needed.

`CHECK_DEADLOCK FALSE` is set where the system may stop: the conversation and
the history, when ids and texts of the instance are used up; push delivery, when
users rest; the process, which exits. `ObjectLifecycle` names its only terminal
states (`Quiescent`), all others may not be stuck.

### Assumptions of the runs

- `TimelyRequests` (objects_timely): a reservation lasts 24 hours, a request at
  most 15 minutes (`config.go` bounds REQUEST_TIMEOUT), and a Put given up by its
  request arrives within the rest of those 24 hours. The safety of published
  photos does not need it, `NoLeakedObject` does: an object written after its row
  was cleaned up is known to nobody.
- `Paced` (writers, lastsent): nobody writes a message before its last
  write is published and answered. The code does not order publications of one
  message, nor answers and events, and nothing on the page compares versions;
  without the assumption a page may keep an older text until its next reload.
  `NothingMissing` is what holds without it.
- `CatchesUp` supposes that the message last sent from this browser is not changed
  later; the run `conversation_lastsent` shows why. `GapsAreOldSends` supposes
  nothing of the kind: the merge of that message is the only step after which a
  page is behind the database with nothing on its way. Without sends it never is
  (`NoGap`, which no run lists because `GapsAreOldSends` says more). The theorem
  of `NoGap` has the hypotheses `Paced` and `"send" \notin Ops`, that of
  `GapsAreOldSends` only `Paced`; those of `NothingMissing`, `ImplementsStream`
  and `TypeOK` have none.
- A transaction of `MessageFeed` commits with an answer or not at all. A COMMIT
  whose answer is lost leaves a row without event (listed as a hazard).
- `PreviewHonest` and `AddsUp` speak of dialogs whose answers arrived and whose
  photo nobody else turned; `MarkersFollow` of markers that reached the photo
  they were placed on, and `DialogLocks` says when they do: in a dialog that knows
  of all rotations and stays open until the marker is answered. The request of a
  marker carries no hash, so that a rotation in another browser, or one of the
  same browser from a dialog opened anew, can misplace it.
- `Delay` (server_process): a request that has read its clock gets the limiter's
  lock before `Delay` ticks pass, which is less than a window.

### Fairness

- Objects: requests end (the middleware's deadline), time passes (`Expire`,
  `Land`), the cleanup loop ticks every minute and claims all that is due up to
  its limit (`FullClaim`), and store and database calls that are tried for ever
  succeed at last; strong fairness, since passes are cut short in between.
- Sessions: PostgreSQL grants a row lock to waiters in order (strong fairness of
  `LockAccount`), statements of a transaction return, a socket's ticker fires.
- Conversation: handlers publish, frames move, effects run, list requests are
  answered, the client reconnects after three seconds, and a connection cut off by
  the broker ends. Nothing is assumed of users or writers; `CatchesUp` speaks of
  behaviours in which connections stop failing and writers rest.
- Push: the fan-out loop and the workers are goroutines that run; a request to a
  provider has ten seconds. Nothing is assumed of users, pages or requests.
- Process: handlers, rounds of the cleanup and sends end at their deadlines,
  `Shutdown` at its own, and so does what requests ask of the database, so that
  connections come back. Nothing is assumed of sockets, which may never end. A
  cleanup that waits again and again after its context has ended, and a push
  worker that waits again and again while the service is closed, take the stop
  signal at last (strong fairness: `select` chooses at random among what is ready).

## Proofs

All theorems are checked by TLAPS for every value of the constants that meets the
assumption named in the module that declares them. Those say that limits are
numbers, most of them not zero; that placeholders (`None`, `NoRow`, `NoCursor`,
`NoUser`, `NoSession`) are none of the values they stand in for; that different
kinds of actors are disjoint; that `Delay` is less than a window
(`ServerProcessAssumption`), the ids of the history are a finite set of numbers
(`HistoryAssumption`), an upload has at most as many photos as its parent may
have (`ConstantsAssumption`), and points are pixels of the picture
(`PhotoEditingAssumption`). No assumption is about behaviour, except the switches
`TimelyRequests` and `Paced`, which appear as hypotheses of the theorems that
need them.

In each module an inductive invariant holds what the properties need, TLC checks
it on the instance of the run, and one lemma per action shows that the action
keeps it.

- `ObjectLifecycleProofs`: `TypeCorrect`; then `Safety`, the inductive invariant
  `SafeInv`, which strengthens `NoDanglingPhoto` and `PublishedNeverClaimed` by
  what links requests, reservations and workers: keys are issued once (`Issued`);
  a key belongs to one request or one photo (`Owned`); what a request has put is
  in the store while its reservation is held (`Stored`); whatever a worker has in
  hand is neither held nor of a photo (`Workable`), so that it can never be
  attached again; and a photo's key has no row and its object is stored
  (`Published`). `NoDangling` and `NeverClaimed` follow without any assumption on timing;
  `NoLeaks` needs `TimelyRequests`, and an invariant (`LeakInv`): a key that some
  request, or a `Put` it left behind, may still write has a held row
  (`WritersHold`), and what a worker erased stays erased (`ErasedGone`). `Pages`
  is `PagesConsistent`: an append numbers from the number of photos there are, so
  it needs that this number is the last page, by counting (`CountedByPages`);
  `PagesKeep` is the action property `PagesStable`. `Refinement`, step by step:
  every action of `ObjectLifecycle` is an action of `ObjectCustody` or a stutter
  of it.
- `SessionsProofs`: `TypeCorrect` with the ownership of locks; `AlwaysCurrent`
  with the inductive invariant: the account a locked login saw is the committed
  one, a revoking transaction has seen every session of its account (nobody else
  can commit one while it holds the lock), tokens are issued once. `Refinement`:
  `CommitLogin` is `Issue`, `CommitUpdate` is `Change`, the steps before stutter.
- `LocalStoreProofs`: `Invariant`, the inductive invariant `StoreInv`. The
  properties alone are not inductive: it adds how far the file is at each step of
  its Put (`Progress`), that a key has one Put at most and none after it was
  acknowledged (`Once`), and what a power loss may leave: a file found under its
  key was synced (`Whole`), what was acknowledged has no other name on the disk
  (`Kept`). `TypeCorrect`, `NotTorn`, `Durable` follow; `Refinement`:
  `Rename` is the Put of `ObjectStore`, `SyncDirectory` its success, the steps
  before stutter, and a power loss leaves some of what was ever named.
- `ServerProcessProofs`: `ProcessInv`. `RateBounded` needs to know whose each age
  in `lately` is (`AgesOf`): as many as the window has attempts are its own and
  may be young, at most `Limit` are of the window before and older than this one,
  less `Delay`, and all others no longer count, also when the table was purged.
  `ClosedInOrder` needs which goroutine has ended in which phase (`Order`),
  `TypeCorrect` that a taken slot is that of one request (`SlotsTaken`) and that
  connections are held by requests that query the database (`Connections`).
- `HistoryPagesProofs`: `HistoryInv`: everything shown is at the cursor or newer
  (`Walked`), the page under way is older than the cursor and ends at the next
  one (`Fetching`), and a row that was there all the time was shown or is still
  ahead (`Steady`). That gives `NoRowTwice` and `AllShown`; `ArchivesWithPhotos`
  needs that committed archives and those a page has read have photos.
- `PushDeliveryProofs`: `PushInv`. A browser's one subscription passes from
  account to account while requests of the one before are still under way. It
  says what the first call of the chain has made sure of at each step (`Stages`:
  before it registers, whoever holds the subscription or has a request for it is
  its own user), what the one awaited request may do (`Waits`), that a logout's
  `disablePush` is the last call (`PageOK`) and that after it nothing subscribes
  (`Silent`). `OwnerKnown`, `NothingLeft`, `OnIsTrue` and `TypeCorrect` follow.
- `ConversationProofs`: `PageInv`, without any hypothesis: what an event says of
  a deletion is true for good (`News`), and a page that has been told of
  everything since its ready frame has every message in its reach in the
  timeline, in the page under way, among what events brought, or announced on the
  way (`Reaches`). That is `NoneMissing`, and `TypeCorrect`. `Refinement` of
  `EventStream` rests on three lemmas about sequences: the front of the wire is
  the front of the stream, the end of the channel its end, and moving a frame
  from one to the other leaves it as it is. `PacedInv` is about texts, for paced
  writes: events keep their order from the outbox over channel and wire
  (`InOrder`), and each override, and each item of a page of history that nothing
  overrides, is the present text or about to be replaced (`Holds`). For the
  timeline itself that is no invariant, because of the message last sent; so
  `Holds(S)` adds it for a set S of messages, and `NextHolds` shows that every
  step keeps it for any S, `ShowSent` for one without the message it merges, if
  that has changed. With one message at a time this is `GapsExplained`; where
  nothing is ever sent, `ShowSent` never happens and it is `NothingFallsThrough`.
  TLC finds `NoGap` violated with one message when either of its hypotheses is
  dropped.
- `PhotoEditingProofs`: first the geometry, for pictures of any width and height,
  all eight orientations and all turns: quarter turns add up, undoing an
  orientation and then turning the pixels is what a viewer shows after a turn
  (`RotationShown`), and a marker in the middle of a pixel is turned into the
  middle of that pixel (`MiddleTurned`). Then `EditingInv`. The properties are
  not inductive alone: a dialog that knows of all rotations has the stored photo
  as its own until a save of its own is done, and then the awaited answer is the
  stored photo (`Agreed`); its flight is one request, which is awaited
  (`Flights`); and an open dialog that awaits the answer to its marker turns
  nothing (`Requests`); one that was closed and opened again awaits nothing, and
  what it left under way counts as a disturbance. `PreviewIsHonest`,
  `ClicksAddUp`, `MarkersStay`, `DialogsLock` and `ClicksKept` follow.
  `TurnsKnown` is the action property `TurnedAsKnown`: a job that has read the
  photo has found the hash it was sent with (`Reads`), and replaces the photo
  only if it is still that one. `ReplacementsPaid` counts the photo's replacements:
  together with the saves under way they are no more than clicks and lost
  answers, which bounds the key in `TypeCorrect`.

`Conversation`, `HistoryPages`, `PhotoEditing` and `ServerProcess` state a `TypeOK`
that no run lists; their `TypeCorrect` proves it.

Only model-checked: liveness (`GarbageCollected`, `SocketsFollowSessions`,
`LoginsAnswered`, `CatchesUp`, `MessagesAnswered`, `WorkersExit`,
`UploadsRecover`, `StopsInTheEnd`), since reasoning under fairness is beyond the
prover, and the counterexamples of `conversation_lastsent` and `photo_markers`
(`ReloadsHistory`, `MarkersLand`). Every other property of the runs is a theorem.

## Plan

Everything with a protocol of its own is modelled, and every safety property the
runs check is proved. What is left:

- `SessionPolicy`, `ObjectCustody` and `EventStream`: properties stated of the
  abstract specifications and carried over by the refinements, where that is
  shorter than what is proved now.
- The hazards in `PROJECT.json` that no property covers, each with its reason.

## Not modelled

- Several tabs of one browser with their own promise chains, and a change of the
  VAPID key.
- The inside of the S3 service, image codecs, parsing of EXIF, floating point,
  bcrypt and token formats, texts and their normalisation.
- The entry of a new logbook's directory in its parent is never synced, and a
  Delete is not synced: both are in the model as what a power loss may take or
  bring back, and no property forbids it because the code does not prevent it.
  Files `.upload-*` left by a crash, or by a removal that failed
  (`local.go:53`), and `.health-*` left by a crash are never removed.
- `cleanupLoop` gives objects and sessions one context of 45 seconds
  (`main.go:198`): a long cleanup of objects leaves the purge to a later round.
- Marker rows have no foreign key (`migrations/00007_photo_markers.sql:4`) and
  nothing deletes them with their photo; they are never read again.
- `unsubscribe()` in `push.js:71` may fail itself, after the registration it makes up
  for; `PushDelivery.Lose` takes the subscription to be given up.
- The button "Muat ulang riwayat" of a send that failed (`Conversation.jsx:439`)
  reloads the history at any time and lets the message last sent be merged again;
  in the model a reload without a ready frame follows a list that failed, and
  `ShowSent` comes again only after leaving the conversation and coming back.
- A 401 of an earlier session that comes late: `expireSession` compares generations
  (`api.js:57-58`); `PushDelivery` has the end of the present session only.
- The search box, the composer's draft, the query cache and AbortControllers of
  the client, which change nothing that outlives the page.
- `scripts/deploy.sh`, configuration, migrations, the static file server, the
  service worker's cache, layout: sequential code or data.
