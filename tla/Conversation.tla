---------------------------- MODULE Conversation ----------------------------
(***************************************************************************)
(* A browser that shows one machine's conversation, composed with the      *)
(* server's MessageFeed.  The page combines three sources that know        *)
(* nothing of each other: pages of history fetched over HTTP, events from  *)
(* the WebSocket, and the answers to its own sends, edits and deletions.   *)
(* There is no version number to compare: the page keeps what arrived      *)
(* last, with overlays for what arrived while a page was under way.        *)
(***************************************************************************)
EXTENDS MessageFeed

CONSTANTS
    PageSize,   \* messages per page of history (20 in the code)
    Ops,        \* the requests this browser makes, of "send", "edit", "delete"
    Paced       \* TRUE: nobody writes a message whose last write is not yet
                \* both published and answered

ASSUME PageAssumption ==
    /\ PageSize \in Nat \ {0}
    /\ Ops \subseteq {"send", "edit", "delete"}
    /\ Paced \in BOOLEAN

VARIABLES
    items,      \* the version of each message in the timeline's state
    cursor,     \* the oldest message of the pages loaded; 0: no more pages
    deleted,    \* ids the page hides for good
    live,       \* versions brought by events since the last ready frame
    edited,     \* versions that override what a page of history says
    ready,      \* the ready frame of this connection has arrived
    reload,     \* the effect that loads the first page is due
    list,       \* the list request under way
    draft,      \* what outlives the page: the last message sent, deletions
    seen,       \* the sent message the page has already inserted
    req         \* the request of each kind under way

pageVars == <<items, cursor, deleted, live, edited, ready, reload, list, seen>>
vars == <<feedVars, pageVars, draft, req>>

Timeline == [Messages -> Versions]
Empty == [m \in Messages |-> 0]

NoPage == [items |-> Empty, next |-> 0]

List == [kind : {"none", "first", "older", "failed"}, answered : BOOLEAN,
         page : [items : Timeline, next : Messages \cup {0}]]
NoList == [kind |-> "none", answered |-> FALSE, page |-> NoPage]

Request == [stage : {"idle", "sent", "committed"}, id : Messages \cup {0},
            event : Event \cup {Ready}, mounted : BOOLEAN]
NoRequest == [stage |-> "idle", id |-> 0, event |-> Ready, mounted |-> TRUE]

NoDraft == [sent |-> 0, version |-> 0, deleted |-> {}]

TypeOK ==
    /\ FeedTypeOK
    /\ items \in Timeline /\ live \in Timeline /\ edited \in Timeline
    /\ cursor \in Messages \cup {0}
    /\ deleted \subseteq Messages
    /\ ready \in BOOLEAN /\ reload \in BOOLEAN
    /\ list \in List
    /\ draft \in [sent : Messages \cup {0}, version : Versions, deleted : SUBSET Messages]
    /\ seen \in Messages \cup {0}
    /\ req \in [Ops -> Request]

Init ==
    /\ FeedInit
    /\ items = Empty /\ live = Empty /\ edited = Empty
    /\ cursor = 0
    /\ deleted = {}
    /\ ready = FALSE
    /\ reload = TRUE
    /\ list = NoList
    /\ draft = NoDraft
    /\ seen = 0
    /\ req = [op \in Ops |-> NoRequest]

\* What the page renders.
Shown(m) == IF m \in deleted THEN 0 ELSE items[m]

Merge(older, newer) == [m \in Messages |-> IF newer[m] # 0 THEN newer[m] ELSE older[m]]

Only(m, version) == [Empty EXCEPT ![m] = version]

\* A page without what was deleted, and with what was edited, meanwhile.
Overlay(page) ==
    [m \in Messages |-> IF page[m] = 0 \/ m \in deleted THEN 0
                        ELSE IF edited[m] # 0 THEN edited[m] ELSE page[m]]

-----------------------------------------------------------------------------
(* Events.                                                                 *)

\* Mutant: a new connection takes up where the last one ended.
ReadyKeepingHistory ==
    /\ wire # <<>> /\ Head(wire) = Ready
    /\ wire' = Tail(wire)
    /\ ready' = TRUE
    /\ UNCHANGED <<rows, used, outbox, feed, channel, items, cursor, deleted, live, edited,
                   reload, list, seen, draft, req>>

ReceiveReady ==
    /\ wire # <<>> /\ Head(wire) = Ready
    /\ wire' = Tail(wire)
    /\ ready' = TRUE
    /\ edited' = Empty /\ live' = Empty
    /\ reload' = TRUE
    /\ UNCHANGED <<rows, used, outbox, feed, channel, items, cursor, deleted, list, seen,
                   draft, req>>

ReceiveEvent ==
    /\ wire # <<>> /\ Head(wire) # Ready
    /\ wire' = Tail(wire)
    /\ LET event == Head(wire) IN
       IF event.type = "deleted"
       THEN /\ deleted' = deleted \cup {event.id}
            /\ live' = [live EXCEPT ![event.id] = 0]
            /\ items' = [items EXCEPT ![event.id] = 0]
            /\ UNCHANGED edited
       ELSE /\ live' = [live EXCEPT ![event.id] = event.version]
            /\ edited' = [edited EXCEPT ![event.id] = event.version]
            /\ items' = [items EXCEPT ![event.id] = event.version]
            /\ UNCHANGED deleted
    /\ UNCHANGED <<rows, used, outbox, feed, channel, cursor, ready, reload, list, seen,
                   draft, req>>

-----------------------------------------------------------------------------
(* History.                                                                *)

\* The effect: whatever list request was under way is aborted.
LoadFirst ==
    /\ reload
    /\ reload' = FALSE
    /\ items' = Empty /\ cursor' = 0
    /\ list' = [NoList EXCEPT !.kind = "first"]
    /\ UNCHANGED <<feedVars, deleted, live, edited, ready, seen, draft, req>>

LoadOlder ==
    /\ list = NoList /\ cursor # 0
    /\ list' = [NoList EXCEPT !.kind = "older"]
    /\ UNCHANGED <<feedVars, items, cursor, deleted, live, edited, ready, reload, seen, draft, req>>

\* The server answers from one snapshot; the answer takes its time.
AnswerList ==
    /\ list.kind \in {"first", "older"} /\ ~list.answered
    /\ list' = [list EXCEPT !.answered = TRUE, !.page = ListMessages(cursor, PageSize)]
    /\ UNCHANGED <<feedVars, items, cursor, deleted, live, edited, ready, reload, seen, draft, req>>

\* Mutant: events that came before the first page are forgotten.
ShowPageForgettingLive ==
    /\ list.answered
    /\ items' = Overlay(IF list.kind = "first" THEN list.page.items
                                               ELSE Merge(list.page.items, items))
    /\ cursor' = list.page.next
    /\ list' = NoList
    /\ UNCHANGED <<feedVars, deleted, live, edited, ready, reload, seen, draft, req>>

ShowPage ==
    /\ list.answered
    /\ items' = Overlay(IF list.kind = "first" THEN Merge(list.page.items, live)
                                               ELSE Merge(list.page.items, items))
    /\ cursor' = list.page.next
    /\ list' = NoList
    /\ UNCHANGED <<feedVars, deleted, live, edited, ready, reload, seen, draft, req>>

\* A first page that fails leaves an error in place of the timeline.
FailList ==
    /\ list.kind \in {"first", "older"}
    /\ IF list.kind = "first"
       THEN list' = [NoList EXCEPT !.kind = "failed"] /\ items' = Empty /\ cursor' = 0
       ELSE list' = NoList /\ UNCHANGED <<items, cursor>>
    /\ UNCHANGED <<feedVars, deleted, live, edited, ready, reload, seen, draft, req>>

Retry ==
    /\ list.kind = "failed" /\ ~reload
    /\ reload' = TRUE
    /\ UNCHANGED <<feedVars, items, cursor, deleted, live, edited, ready, list, seen, draft, req>>

-----------------------------------------------------------------------------
(* The browser's own requests, from the click to the answer.               *)

Start(op, m) ==
    /\ op \in Ops /\ req[op].stage = "idle"
    /\ req' = [req EXCEPT ![op] = [NoRequest EXCEPT !.stage = "sent", !.id = m]]
    /\ UNCHANGED <<feedVars, pageVars>>

StartSend == Start("send", 0) /\ draft' = [draft EXCEPT !.sent = 0, !.version = 0]

StartEdit(m) == Shown(m) # 0 /\ Start("edit", m) /\ UNCHANGED draft

StartDelete(m) == Shown(m) # 0 /\ Start("delete", m) /\ UNCHANGED draft

\* Nothing of the last write of m is still under way.
Calm(m) ==
    /\ \A event \in outbox : event.id # m
    /\ \A op \in Ops : ~(req[op].stage = "committed" /\ req[op].id = m)

Serve(op, m) ==
    /\ req[op].stage = "sent"
    /\ Paced => Calm(m)
    /\ \/ op = "send" /\ CreateMessage(m)
       \/ op = "edit" /\ m = req[op].id /\ EditMessage(m)
       \/ op = "delete" /\ m = req[op].id /\ DeleteMessage(m)
    /\ req' = [req EXCEPT ![op].stage = "committed", ![op].id = m,
                          ![op].event = CHOOSE event \in outbox' : event.id = m /\ event.version = rows'[m]]
    /\ UNCHANGED <<pageVars, draft>>

\* The handler has published and answers.
Answered(op) ==
    /\ op \in Ops /\ req[op].stage = "committed" /\ req[op].event \notin outbox
    /\ req' = [req EXCEPT ![op] = NoRequest]

SendAnswered ==
    /\ Answered("send")
    /\ draft' = [draft EXCEPT !.sent = req["send"].id, !.version = req["send"].event.version]
    /\ UNCHANGED <<feedVars, pageVars>>

\* The answer replaces what the timeline shows, if the page is still there.
EditAnswered ==
    LET m == req["edit"].id
        version == req["edit"].event.version
    IN
    /\ Answered("edit")
    /\ draft' = IF draft.sent = m THEN [draft EXCEPT !.version = version] ELSE draft
    /\ IF req["edit"].mounted
       THEN /\ edited' = [edited EXCEPT ![m] = version]
            /\ items' = [items EXCEPT ![m] = IF @ = 0 THEN 0 ELSE version]
       ELSE UNCHANGED <<edited, items>>
    /\ UNCHANGED <<feedVars, cursor, deleted, live, ready, reload, list, seen>>

DeleteAnswered ==
    LET m == req["delete"].id IN
    /\ Answered("delete")
    /\ deleted' = deleted \cup {m}
    /\ draft' = [draft EXCEPT !.deleted = @ \cup {m},
                              !.sent = IF @ = m THEN 0 ELSE @,
                              !.version = IF draft.sent = m THEN 0 ELSE @]
    /\ items' = IF req["delete"].mounted THEN [items EXCEPT ![m] = 0] ELSE items
    /\ UNCHANGED <<feedVars, cursor, live, edited, ready, reload, list, seen>>

\* An error, a timeout or a lost answer; the server may have done its part.
GiveUp(op) ==
    /\ req[op].stage # "idle"
    /\ req' = [req EXCEPT ![op] = NoRequest]
    /\ UNCHANGED <<feedVars, pageVars, draft>>

\* The effect that inserts the message just sent.
ShowSent ==
    /\ draft.sent # 0 /\ seen # draft.sent /\ draft.sent \notin deleted
    /\ list.kind \notin {"first", "failed"}
    /\ seen' = draft.sent
    /\ items' = Merge(items, Only(draft.sent, draft.version))
    /\ UNCHANGED <<feedVars, cursor, deleted, live, edited, ready, reload, list, draft, req>>

-----------------------------------------------------------------------------
(* Everybody else, and the connection.                                     *)

\* Other browsers, this account's other devices included.
WriteElsewhere(m) ==
    /\ Paced => Calm(m)
    /\ CreateMessage(m) \/ EditMessage(m) \/ DeleteMessage(m)
    /\ UNCHANGED <<pageVars, draft, req>>

Publish(event) == PublishMessage(event) /\ UNCHANGED <<pageVars, draft, req>>

Connect == SubscribeMessages /\ UNCHANGED <<pageVars, draft, req>>

Deliver == WriteEvent /\ UNCHANGED <<pageVars, draft, req>>

Disconnect ==
    /\ feed # "down" /\ Unsubscribe
    /\ ready' = FALSE
    /\ UNCHANGED <<items, cursor, deleted, live, edited, reload, list, seen, draft, req>>

\* Events not yet published are lost, and with them the answers that follow.
ServerRestart ==
    /\ Restart
    /\ ready' = FALSE
    /\ req' = [op \in Ops |-> IF req[op].event \in outbox THEN NoRequest ELSE req[op]]
    /\ UNCHANGED <<items, cursor, deleted, live, edited, reload, list, seen, draft>>

\* The user leaves the conversation and comes back: a new page, the old draft.
Remount ==
    /\ Unsubscribe
    /\ items' = Empty /\ live' = Empty /\ edited' = Empty
    /\ cursor' = 0
    /\ deleted' = draft.deleted
    /\ ready' = FALSE
    /\ reload' = TRUE
    /\ list' = NoList
    /\ seen' = 0
    /\ req' = [op \in Ops |-> [req[op] EXCEPT !.mounted = req[op].stage = "idle"]]
    /\ UNCHANGED draft

-----------------------------------------------------------------------------

PageNext ==
    \/ ReceiveReady \/ ReceiveEvent
    \/ LoadFirst \/ LoadOlder \/ AnswerList \/ ShowPage \/ FailList \/ Retry
    \/ ShowSent
    \/ Remount

RequestNext ==
    \/ StartSend
    \/ \E m \in Messages : StartEdit(m) \/ StartDelete(m)
    \/ \E op \in Ops, m \in Messages : Serve(op, m)
    \/ SendAnswered \/ EditAnswered \/ DeleteAnswered
    \/ \E op \in Ops : GiveUp(op)

FeedNext ==
    \/ \E m \in Messages : WriteElsewhere(m)
    \/ \E event \in outbox : Publish(event)
    \/ Connect \/ Deliver \/ Disconnect \/ ServerRestart

Next == PageNext \/ RequestNext \/ FeedNext

Spec == Init /\ [][Next]_vars

\* A connection the broker has cut off ends once its channel is written out.
CutOff == feed = "cut" /\ channel = <<>> /\ Disconnect

(***************************************************************************)
(* Handlers finish, connections move frames, React runs its effects, and   *)
(* the client reconnects three seconds after a connection ended.  Nothing  *)
(* is assumed of writers, of users, of failures, or of the own requests.   *)
(***************************************************************************)
Fairness ==
    /\ WF_vars(\E event \in outbox : Publish(event))
    /\ WF_vars(Connect) /\ WF_vars(Deliver) /\ WF_vars(CutOff)
    /\ WF_vars(ReceiveReady) /\ WF_vars(ReceiveEvent)
    /\ WF_vars(LoadFirst) /\ WF_vars(AnswerList) /\ WF_vars(ShowPage)

FairSpec == Spec /\ Fairness

-----------------------------------------------------------------------------
(* Properties.  Nothing compares versions in this code, so what the page   *)
(* shows rests on orders of arrival alone.                                 *)

\* News of m that bring one of these versions are on their way to the page.
UnderWay(m, versions) ==
    LET tells(event) == event # Ready /\ event.id = m /\ event.version \in versions
    IN  \/ \E event \in outbox : tells(event)
        \/ \E i \in DOMAIN channel : tells(channel[i])
        \/ \E i \in DOMAIN wire : tells(wire[i])

\* The page is connected and shows a timeline.
Settled == feed = "open" /\ ready /\ ~reload /\ list.kind \notin {"first", "failed"}

\* The part of the history the page has loaded, or was told of.
Covered(m) == m >= cursor \/ Shown(m) # 0

\* The page shows m as the database has it, or the event that will correct it
\* is on its way.
Current(m) == Settled /\ Covered(m) => Shown(m) = rows[m] \/ UnderWay(m, {rows[m]})

\* NoGap: between subscription, snapshot and events nothing falls through.
\* On a connected page every message within its reach is shown as the
\* database has it, or the event that will correct it is on its way.  For
\* Paced writes, and a browser that has sent nothing itself
\* (Conversation.jsx 79-101 and 250-268, message_events.go 31-45).
NoGap == \A m \in Messages : Current(m)

\* GapsAreOldSends: what opens a gap is one thing alone, the effect that merges
\* the message last sent from here over the timeline, as it was when sent; and
\* it does so for that message only.  No page of history, event, answer to an
\* own edit or deletion, reconnection or restart does, for Paced writes
\* (Conversation.jsx 130-175, 250-281).
OldSentShown == ShowSent /\ draft.version # rows[draft.sent]

GapsAreOldSends ==
    [][\A m \in Messages : Current(m) /\ ~Current(m)' => OldSentShown /\ m = draft.sent]_vars

\* ImplementsStream: neither the broker's bounded channel, nor the frames of a
\* connection that blocks, nor a restart makes a subscriber miss an event and
\* hear the next: what is left for it, in the channel and on the wire, is a
\* gapless stream of what was published, in that order, until it breaks off
\* (message_events.go 15-45, message_socket.go 73-112).
Stream == INSTANCE EventStream WITH
    Events <- Event, pending <- outbox, status <- feed, stream <- wire \o channel

ImplementsStream == Stream!Spec

\* NothingMissing: however writes, publications, answers and reconnections
\* interleave, no message that exists is absent from a connected page that
\* reaches back to it, unless its event is still on its way; the text shown
\* may be an old one (Conversation.jsx 86-98, 131-137, 261-262, 270-281).
NothingMissing ==
    Settled => \A m \in Messages :
        (m >= cursor /\ rows[m] # 0) => (Shown(m) # 0 \/ UnderWay(m, Versions \ {0}))

\* CatchesUp: when connections stop failing, every message within the page's
\* reach is in the end shown as the database has it: also after the broker
\* has cut off a slow page (message_events.go 12: "closes slow subscribers so
\* they reconnect and reload persisted history").  The message that was sent
\* last from here is not changed, as ReloadsHistory says what else happens.
CatchesUp ==
    /\ [](draft.sent # 0 => draft.version = rows[draft.sent])
    /\ <>[][outbox' \subseteq outbox /\ (Disconnect => CutOff) /\ ~ServerRestart
               /\ ~Remount /\ ~FailList]_vars
    =>
        \A m \in Messages :
            <>[](list.kind # "failed" => (Covered(m) => Shown(m) = rows[m]))

\* ReloadsHistory: message_events.go 12 says that clients "reconnect and reload
\* persisted history": a connected page for which nothing is on its way shows
\* the messages it reaches back to as they are persisted.
ReloadsHistory ==
    (Settled /\ list = NoList /\ outbox = {} /\ channel = <<>> /\ wire = <<>>) =>
        \A m \in Messages : m >= cursor => Shown(m) = rows[m]

=============================================================================
