----------------------------- MODULE MessageFeed -----------------------------
(***************************************************************************)
(* The server's side of one machine's conversation: the rows of messages,  *)
(* the events that handlers publish after their transactions, the broker's *)
(* bounded channel of one subscriber, and the frames on its WebSocket.     *)
(*                                                                         *)
(* A handler commits first and publishes later, and handlers run           *)
(* concurrently: between the two anything may happen, other commits and    *)
(* publications of the same message included.                              *)
(***************************************************************************)
EXTENDS Naturals, Sequences, FiniteSets

CONSTANTS
    MaxMessages,    \* messages ever created
    MaxVersion,     \* texts a message has in its life, at most
    Buffer,         \* events a subscriber's channel holds (64 in the code)
    WireLimit       \* frames the connection takes before a write blocks

ASSUME FeedAssumption ==
    /\ MaxMessages \in Nat /\ MaxVersion \in Nat \ {0}
    /\ Buffer \in Nat \ {0} /\ WireLimit \in Nat \ {0}

\* Ids in the order of created_at, which need not be that of the commits.
Messages == 1 .. MaxMessages

\* Versions count the texts of a message; 0 stands for no message.
Versions == 0 .. MaxVersion

VARIABLES
    rows,       \* the version of each message's row
    used,       \* ids ever given to a row
    outbox,     \* events committed and not yet published
    feed,       \* the client's connection: down, open, or cut off by the broker
    channel,    \* the events buffered for it
    wire        \* the frames under way to the client

feedVars == <<rows, used, outbox, feed, channel, wire>>

Event == [type : {"created", "updated", "deleted"}, id : Messages, version : Versions]

Ready == [type |-> "ready"]

FeedTypeOK ==
    /\ rows \in [Messages -> Versions]
    /\ used \subseteq Messages
    /\ outbox \subseteq Event
    /\ feed \in {"down", "open", "cut"}
    /\ channel \in Seq(Event) /\ Len(channel) <= Buffer
    /\ wire \in Seq(Event \cup {Ready}) /\ Len(wire) <= WireLimit

FeedInit ==
    /\ rows = [m \in Messages |-> 0]
    /\ used = {}
    /\ outbox = {}
    /\ feed = "down"
    /\ channel = <<>>
    /\ wire = <<>>

-----------------------------------------------------------------------------
(* The transactions.  Each leaves an event to publish.                     *)

Commit(type, m, version) ==
    /\ rows' = [rows EXCEPT ![m] = version]
    /\ outbox' = outbox \cup {[type |-> type, id |-> m, version |-> version]}
    /\ UNCHANGED <<feed, channel, wire>>

CreateMessage(m) ==
    /\ m \notin used
    /\ used' = used \cup {m}
    /\ Commit("created", m, 1)

\* An edit to the same text changes nothing, but is published all the same.
EditMessage(m) ==
    /\ rows[m] # 0
    /\ \E version \in {rows[m], rows[m] + 1} \cap Versions : Commit("updated", m, version)
    /\ UNCHANGED used

DeleteMessage(m) ==
    /\ rows[m] # 0
    /\ Commit("deleted", m, 0)
    /\ UNCHANGED used

\* Mutant: an event that does not fit is dropped, the subscriber stays.
PublishOrDrop(event) ==
    /\ event \in outbox
    /\ outbox' = outbox \ {event}
    /\ channel' = IF feed = "open" /\ Len(channel) < Buffer
                  THEN Append(channel, event) ELSE channel
    /\ UNCHANGED <<rows, used, feed, wire>>

\* publishMessage never waits: a subscriber whose channel is full is cut off.
PublishMessage(event) ==
    /\ event \in outbox
    /\ outbox' = outbox \ {event}
    /\ IF feed = "open" /\ Len(channel) < Buffer
       THEN channel' = Append(channel, event) /\ UNCHANGED feed
       ELSE feed' = (IF feed = "open" THEN "cut" ELSE feed) /\ UNCHANGED channel
    /\ UNCHANGED <<rows, used, wire>>

-----------------------------------------------------------------------------
(* The WebSocket.                                                          *)

\* Authenticated and checked, the handler subscribes and then says so.
SubscribeMessages ==
    /\ feed = "down"
    /\ feed' = "open"
    /\ channel' = <<>>
    /\ wire' = <<Ready>>
    /\ UNCHANGED <<rows, used, outbox>>

\* What the channel holds when the broker closes it is still written.
WriteEvent ==
    /\ channel # <<>> /\ Len(wire) < WireLimit
    /\ wire' = Append(wire, Head(channel))
    /\ channel' = Tail(channel)
    /\ UNCHANGED <<rows, used, outbox, feed>>

\* The connection ends, and the frames under way with it.
Unsubscribe ==
    /\ feed' = "down"
    /\ channel' = <<>>
    /\ wire' = <<>>
    /\ UNCHANGED <<rows, used, outbox>>

\* The process stops and starts again: committed rows are all that is left.
Restart ==
    /\ feed' = "down"
    /\ outbox' = {} /\ channel' = <<>> /\ wire' = <<>>
    /\ UNCHANGED <<rows, used>>

\* The snapshot of one list query: the newest limit messages before a cursor.
ListMessages(before, limit) ==
    LET present == {m \in Messages : rows[m] # 0 /\ (before = 0 \/ m < before)}
        newest == {m \in present : Cardinality({k \in present : k > m}) < limit}
    IN  [items |-> [m \in Messages |-> IF m \in newest THEN rows[m] ELSE 0],
         next  |-> IF newest = present THEN 0
                   ELSE CHOOSE m \in newest : \A k \in newest : m <= k]

=============================================================================
