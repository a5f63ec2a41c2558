-------------------------- MODULE ConversationProofs --------------------------
(***************************************************************************)
(* A connected page misses no message that exists, however writes,         *)
(* publications, answers and reconnections interleave, and what reaches it *)
(* is the gapless stream of EventStream; with paced writes it shows every  *)
(* message as the database has it, or is about to, unless it merges the    *)
(* message last sent: for any number of messages, texts and places in the  *)
(* channel.                                                                *)
(***************************************************************************)
EXTENDS Conversation, FiniteSetTheorems, WellFoundedInduction, SequenceTheorems, TLAPS

(* The inductive invariant of any conversation.                            *)

\* The events on their way.
InFlight ==
    outbox \cup {channel[i] : i \in DOMAIN channel} \cup {wire[i] : i \in DOMAIN wire}

\* Deleted, and never to come back.
Gone(m) == m \in used /\ rows[m] = 0

\* What an event says of a deletion is true for good.
True(event) ==
    /\ event \in Event
    /\ event.type = "deleted" <=> event.version = 0
    /\ event.version = 0 => Gone(event.id)

News ==
    /\ \A m \in Messages : rows[m] # 0 => m \in used
    /\ \A event \in InFlight : event # Ready => True(event)
    /\ \A m \in deleted \cup draft.deleted : Gone(m)
    /\ \A op \in Ops : req[op].stage = "committed" =>
           /\ True(req[op].event) /\ req[op].event.id = req[op].id
           /\ req[op].event.version = 0 <=> op = "delete"

\* A page of history is asked for from the cursor, the first one from the end,
\* and nothing comes over a connection that is down.
Listing ==
    /\ feed = "down" => ~ready /\ channel = <<>> /\ wire = <<>>
    /\ list.answered => list.kind \in {"first", "older"}
    /\ list.kind = "first" => cursor = 0

\* The page has been told of everything published since its last ready frame.
Following == feed = "open" /\ ready /\ ~reload

\* An event on its way says that m exists.
Announced(m) == \E event \in InFlight : event # Ready /\ event.id = m /\ event.version # 0

\* Every message within reach is in the timeline, in the page under way, among
\* what events have brought since, or announced.
Reaches ==
    /\ list.kind = "first" /\ list.answered =>
           \A m \in Messages : m >= list.page.next /\ rows[m] # 0 =>
               list.page.items[m] # 0 \/ live[m] # 0 \/ Announced(m)
    /\ list.kind \in {"none", "older"} =>
           \A m \in Messages : m >= cursor /\ rows[m] # 0 => items[m] # 0 \/ Announced(m)
    /\ list.kind = "older" /\ list.answered =>
           \A m \in Messages : m >= list.page.next /\ m < cursor /\ rows[m] # 0 =>
               list.page.items[m] # 0 \/ items[m] # 0 \/ Announced(m)

PageInv == TypeOK /\ News /\ Listing /\ (Following => Reaches)

(* What paced writes add.                                                  *)

\* An event on its way says how m is now.
Told(m) == \E event \in InFlight : event # Ready /\ event.id = m /\ event.version = rows[m]

\* The last write of a message is published and answered before the next.
LastWrites ==
    /\ \A event \in outbox : event.version = rows[event.id]
    /\ \A op \in Ops : req[op].stage = "committed" => req[op].event.version = rows[req[op].id]

\* Behind every event the present one follows, or it is the present one.
Says(event, m) == event # Ready /\ event.id = m /\ event.version = rows[m]

InOrder ==
    /\ \A i \in DOMAIN channel :
           \/ \E j \in DOMAIN channel : j >= i /\ Says(channel[j], channel[i].id)
           \/ \E event \in outbox : event.id = channel[i].id
    /\ \A i \in DOMAIN wire : wire[i] # Ready =>
           \/ \E j \in DOMAIN wire : j >= i /\ Says(wire[j], wire[i].id)
           \/ \E j \in DOMAIN channel : Says(channel[j], wire[i].id)
           \/ \E event \in outbox : event.id = wire[i].id

\* What the page holds of m is as the database has it, or is about to be.
Right(m, version) == version = rows[m] \/ Told(m)

\* So are the overrides, a page of history where nothing overrides it, and what
\* the timeline shows of S, which leaves out what ShowSent has spoilt.
Holds(S) ==
    /\ \A m \in Messages : live[m] # 0 => edited[m] # 0
    /\ feed = "open" /\ ready =>
           \A m \in Messages : edited[m] # 0 => Right(m, edited[m]) \/ m \in deleted
    /\ Following /\ list.answered => \A m \in Messages : list.page.items[m] # 0 =>
           Right(m, list.page.items[m]) \/ edited[m] # 0 \/ m \in deleted
    /\ Settled => \A m \in S : Covered(m) => Right(m, Shown(m))

PacedInv == LastWrites /\ (feed = "open" => InOrder) /\ Holds({})

USE FeedAssumption, PageAssumption

-----------------------------------------------------------------------------
(* What the steps of the server do.                                        *)

\* A transaction has written m and left its event.
Wrote(m, event) ==
    /\ event \in Event /\ event.id = m /\ (event.type = "deleted" <=> event.version = 0)
    /\ rows[m] # 0 \/ m \notin used
    /\ rows' = [rows EXCEPT ![m] = event.version]
    /\ used' = used \cup {m}
    /\ outbox' = outbox \cup {event}
    /\ UNCHANGED <<feed, channel, wire>>

LEMMA Writes ==
  ASSUME TypeOK, News, NEW m \in Messages,
         CreateMessage(m) \/ EditMessage(m) \/ DeleteMessage(m)
  PROVE  \E event : /\ Wrote(m, event)
                    /\ DeleteMessage(m) => event.version = 0
                    /\ event.version = 0 => DeleteMessage(m)
<1>1. rows \in [Messages -> Versions] /\ used \subseteq Messages
  BY DEF TypeOK, FeedTypeOK
<1>2. CASE CreateMessage(m)
  <2>. DEFINE e == [type |-> "created", id |-> m, version |-> 1]
  <2>1. 1 \in Versions
    BY DEF Versions
  <2>2. e \in Event /\ e.id = m /\ e.type = "created" /\ e.version = 1
    BY <2>1 DEF Event
  <2>3. /\ rows' = [rows EXCEPT ![m] = 1] /\ used' = used \cup {m} /\ m \notin used
        /\ outbox' = outbox \cup {e} /\ UNCHANGED <<feed, channel, wire>>
    BY <1>2 DEF CreateMessage, Commit
  <2>. HIDE DEF e
  <2>4. Wrote(m, e)
    BY <2>2, <2>3 DEF Wrote
  <2>5. rows[m] = 0
    BY <2>3 DEF News
  <2>. QED
    BY <2>2, <2>4, <2>5 DEF DeleteMessage
<1>3. CASE EditMessage(m)
  <2>1. PICK v \in {rows[m], rows[m] + 1} \cap Versions : Commit("updated", m, v)
    BY <1>3 DEF EditMessage
  <2>. DEFINE e == [type |-> "updated", id |-> m, version |-> v]
  <2>2. rows[m] # 0 /\ v # 0 /\ m \in used
    BY <1>1, <1>3, <2>1 DEF EditMessage, Versions, News
  <2>3. e \in Event /\ e.id = m /\ e.type = "updated" /\ e.version = v
    BY <2>1 DEF Event
  <2>4. /\ rows' = [rows EXCEPT ![m] = v] /\ used' = used \cup {m}
        /\ outbox' = outbox \cup {e} /\ UNCHANGED <<feed, channel, wire>>
    BY <1>3, <2>1, <2>2 DEF EditMessage, Commit
  <2>. HIDE DEF e
  <2>5. Wrote(m, e)
    BY <2>2, <2>3, <2>4 DEF Wrote
  <2>6. rows'[m] = v
    BY <1>1, <2>4
  <2>7. ~DeleteMessage(m)
    BY <1>1, <2>2, <2>6 DEF DeleteMessage, Commit
  <2>. QED
    BY <2>2, <2>3, <2>5, <2>7
<1>4. CASE DeleteMessage(m)
  <2>. DEFINE e == [type |-> "deleted", id |-> m, version |-> 0]
  <2>1. 0 \in Versions
    BY DEF Versions
  <2>2. e \in Event /\ e.id = m /\ e.type = "deleted" /\ e.version = 0
    BY <2>1 DEF Event
  <2>3. rows[m] # 0 /\ m \in used
    BY <1>4 DEF DeleteMessage, News
  <2>4. /\ rows' = [rows EXCEPT ![m] = 0] /\ used' = used \cup {m}
        /\ outbox' = outbox \cup {e} /\ UNCHANGED <<feed, channel, wire>>
    BY <1>4, <2>3 DEF DeleteMessage, Commit
  <2>. HIDE DEF e
  <2>5. Wrote(m, e)
    BY <2>2, <2>3, <2>4 DEF Wrote
  <2>. QED
    BY <1>4, <2>2, <2>5
<1>. QED
  BY <1>2, <1>3, <1>4

\* What is gone stays gone, and what was said of it true.
LEMMA WroteElse ==
  ASSUME TypeOK, NEW m \in Messages, NEW event, Wrote(m, event)
  PROVE  /\ \A k : Gone(k) => Gone(k)'
         /\ \A x : True(x) => True(x)'
         /\ True(event)'
         /\ rows' \in [Messages -> Versions]
         /\ \A k \in Messages : rows'[k] = IF k = m THEN event.version ELSE rows[k]
<1>1. rows \in [Messages -> Versions] /\ used \subseteq Messages /\ event.version \in Versions
  BY DEF TypeOK, FeedTypeOK, Wrote, Event
<1>2. rows' = [rows EXCEPT ![m] = event.version]
  BY DEF Wrote
<1>3. \A k \in Messages : rows'[k] = IF k = m THEN event.version ELSE rows[k]
  BY <1>1, <1>2
<1>4. \A k : Gone(k) => Gone(k)'
  BY <1>1, <1>3 DEF Gone, Wrote
<1>5. \A x : True(x) => True(x)'
  BY <1>4 DEF True
<1>6. True(event)'
  BY <1>3 DEF True, Wrote, Gone
<1>. QED
  BY <1>1, <1>2, <1>3, <1>4, <1>5, <1>6

(* What is on its way, step by step.                                       *)

LEMMA WroteInFlight ==
  ASSUME NEW m, NEW event, Wrote(m, event)
  PROVE  InFlight' = InFlight \cup {event}
BY DEF Wrote, InFlight

LEMMA PublishInFlight ==
  ASSUME TypeOK, NEW event, PublishMessage(event)
  PROVE  /\ InFlight' \subseteq InFlight
         /\ feed' = "open" => InFlight \subseteq InFlight'
<1>1. channel \in Seq(Event) /\ Len(channel) \in Nat
  BY DEF TypeOK, FeedTypeOK
<1>2. event \in outbox /\ event \in Event /\ outbox' = outbox \ {event} /\ wire' = wire
  BY DEF PublishMessage, TypeOK, FeedTypeOK
<1>3. CASE channel' = Append(channel, event)
  <2>1. /\ channel' \in Seq(Event) /\ Len(channel') = Len(channel) + 1
        /\ channel'[Len(channel) + 1] = event
        /\ \A i \in DOMAIN channel : i \in DOMAIN channel' /\ channel'[i] = channel[i]
        /\ \A i \in DOMAIN channel' : i = Len(channel) + 1 \/ i \in DOMAIN channel
        /\ Len(channel) + 1 \in DOMAIN channel'
    BY <1>1, <1>2, <1>3
  <2>. QED
    BY <1>2, <2>1 DEF InFlight
<1>4. CASE channel' = channel /\ feed' # "open"
  BY <1>2, <1>4 DEF InFlight
<1>5. \/ channel' = Append(channel, event)
      \/ channel' = channel /\ feed' # "open"
  BY DEF PublishMessage
<1>. QED
  BY <1>3, <1>4, <1>5

LEMMA Shifted ==
  ASSUME NEW S, NEW s \in Seq(S), s # <<>>
  PROVE  /\ Head(s) = s[1] /\ 1 \in DOMAIN s /\ Tail(s) \in Seq(S) /\ Len(Tail(s)) = Len(s) - 1
         /\ \A i \in DOMAIN Tail(s) : i + 1 \in DOMAIN s /\ Tail(s)[i] = s[i + 1]
         /\ \A i \in DOMAIN s : i = 1 \/ (i - 1 \in DOMAIN Tail(s) /\ Tail(s)[i - 1] = s[i])
         /\ \A i \in DOMAIN s : i \in Nat /\ i >= 1
<1>. DEFINE t == Tail(s)
<1>1. /\ Len(s) \in Nat /\ Len(s) > 0 /\ DOMAIN s = 1..Len(s) /\ t \in Seq(S)
      /\ Len(t) = Len(s) - 1 /\ DOMAIN t = 1..Len(s) - 1 /\ Head(s) = s[1]
  BY DEF t
<1>2. \A i \in 1..Len(s) - 1 : t[i] = s[i + 1]
  BY DEF t
<1>. HIDE DEF t
<1>3. ASSUME NEW i \in DOMAIN s, i # 1
      PROVE  i - 1 \in DOMAIN t /\ t[i - 1] = s[i]
  <2>1. i - 1 \in 1..Len(s) - 1 /\ (i - 1) + 1 = i
    BY <1>1, <1>3
  <2>. QED
    BY <1>1, <1>2, <2>1
<1>4. ASSUME NEW i \in DOMAIN t
      PROVE  i + 1 \in DOMAIN s /\ t[i] = s[i + 1]
  BY <1>1, <1>2, <1>4
<1>. QED
  BY <1>1, <1>3, <1>4 DEF t

LEMMA DeliverInFlight ==
  ASSUME TypeOK, WriteEvent
  PROVE  InFlight' = InFlight
<1>1. /\ channel \in Seq(Event) /\ channel # <<>> /\ wire \in Seq(Event \cup {Ready})
      /\ Len(wire) \in Nat
      /\ wire' = Append(wire, Head(channel)) /\ channel' = Tail(channel) /\ outbox' = outbox
  BY DEF TypeOK, FeedTypeOK, WriteEvent
<1>2. /\ Head(channel) = channel[1] /\ channel[1] \in Event /\ 1 \in DOMAIN channel
      /\ \A i \in DOMAIN channel' : i + 1 \in DOMAIN channel /\ channel'[i] = channel[i + 1]
      /\ \A i \in DOMAIN channel : i = 1 \/ (i - 1 \in DOMAIN channel' /\ channel'[i - 1] = channel[i])
  BY <1>1, Shifted
<1>3. /\ \A i \in DOMAIN wire : i \in DOMAIN wire' /\ wire'[i] = wire[i]
      /\ \A i \in DOMAIN wire' : i = Len(wire) + 1 \/ i \in DOMAIN wire
      /\ Len(wire) + 1 \in DOMAIN wire' /\ wire'[Len(wire) + 1] = channel[1]
  BY <1>1, <1>2
<1>4. ASSUME NEW i \in DOMAIN channel
      PROVE  channel[i] \in InFlight'
  <2>1. CASE i = 1
    BY <1>3, <2>1 DEF InFlight
  <2>2. CASE i # 1
    BY <1>2, <2>2 DEF InFlight
  <2>. QED
    BY <2>1, <2>2
<1>5. InFlight \subseteq InFlight'
  <2>. DEFINE later == InFlight'
  <2>1. outbox \subseteq later /\ \A i \in DOMAIN wire : wire[i] \in later
    BY <1>1, <1>3 DEF InFlight
  <2>2. \A i \in DOMAIN channel : channel[i] \in later
    BY <1>4
  <2>. HIDE DEF later
  <2>3. InFlight \subseteq later
    BY <2>1, <2>2 DEF InFlight
  <2>. QED
    BY <2>3 DEF later
<1>6. InFlight' \subseteq InFlight
  BY <1>1, <1>2, <1>3 DEF InFlight
<1>. QED
  BY <1>5, <1>6

\* A frame has arrived.
Arrived ==
    /\ wire # <<>> /\ wire' = Tail(wire)
    /\ UNCHANGED <<rows, used, outbox, feed, channel>>

LEMMA ArrivedInFlight ==
  ASSUME TypeOK, Arrived
  PROVE  InFlight' \subseteq InFlight /\ InFlight \subseteq InFlight' \cup {Head(wire)}
<1>1. wire \in Seq(Event \cup {Ready}) /\ wire # <<>> /\ wire' = Tail(wire)
  BY DEF TypeOK, FeedTypeOK, Arrived
<1>2. /\ Head(wire) = wire[1] /\ 1 \in DOMAIN wire
      /\ \A i \in DOMAIN wire' : i + 1 \in DOMAIN wire /\ wire'[i] = wire[i + 1]
      /\ \A i \in DOMAIN wire : i = 1 \/ (i - 1 \in DOMAIN wire' /\ wire'[i - 1] = wire[i])
  BY <1>1, Shifted
<1>3. ASSUME NEW i \in DOMAIN wire
      PROVE  wire[i] \in InFlight' \cup {Head(wire)}
  BY <1>2 DEF InFlight
<1>4. InFlight \subseteq InFlight' \cup {Head(wire)}
  BY <1>3 DEF InFlight, Arrived
<1>5. InFlight' \subseteq InFlight
  BY <1>2 DEF InFlight, Arrived
<1>. QED
  BY <1>4, <1>5

LEMMA DownInFlight ==
  ASSUME channel' = <<>> /\ wire' = <<>> /\ outbox' \subseteq outbox
  PROVE  InFlight' \subseteq InFlight
BY DEF InFlight

LEMMA ConnectInFlight ==
  ASSUME channel' = <<>> /\ wire' = <<Ready>> /\ outbox' = outbox
  PROVE  InFlight' \subseteq InFlight \cup {Ready}
<1>1. \A i \in DOMAIN wire' : wire'[i] = Ready
  OBVIOUS
<1>. QED
  BY <1>1 DEF InFlight

-----------------------------------------------------------------------------
(* Types.                                                                  *)

LEMMA InitType == Init => TypeOK
<1>. SUFFICES ASSUME Init PROVE TypeOK
  OBVIOUS
<1>1. 0 \in Versions /\ Empty \in Timeline /\ NoPage \in [items : Timeline, next : Messages \cup {0}]
  BY DEF Versions, Empty, Timeline, NoPage
<1>2. FeedTypeOK
  <2>1. rows \in [Messages -> Versions]
    BY <1>1 DEF Init, FeedInit
  <2>2. /\ <<>> \in Seq(Event) /\ <<>> \in Seq(Event \cup {Ready}) /\ Len(<<>>) = 0
        /\ Buffer \in Nat /\ WireLimit \in Nat
    OBVIOUS
  <2>. QED
    BY <2>1, <2>2 DEF Init, FeedInit, FeedTypeOK
<1>3. list \in List
  BY <1>1 DEF Init, NoList, List
<1>4. req \in [Ops -> Request]
  <2>1. NoRequest \in Request
    BY DEF NoRequest, Request
  <2>. QED
    BY <2>1 DEF Init
<1>5. draft \in [sent : Messages \cup {0}, version : Versions, deleted : SUBSET Messages]
  BY <1>1 DEF Init, NoDraft
<1>. QED
  BY <1>1, <1>2, <1>3, <1>4, <1>5 DEF Init, TypeOK

(* The server's part.                                                      *)

LEMMA WroteType ==
  ASSUME TypeOK, NEW m \in Messages, NEW event, Wrote(m, event)
  PROVE  FeedTypeOK'
<1>1. rows' \in [Messages -> Versions]
  BY WroteElse
<1>. QED
  BY <1>1 DEF Wrote, TypeOK, FeedTypeOK

LEMMA PublishType ==
  ASSUME TypeOK, NEW event, PublishMessage(event)
  PROVE  FeedTypeOK'
<1>1. /\ channel \in Seq(Event) /\ Len(channel) \in Nat /\ Len(channel) <= Buffer
      /\ event \in Event /\ feed \in {"down", "open", "cut"}
  BY DEF TypeOK, FeedTypeOK, PublishMessage
<1>2. channel' \in Seq(Event) /\ Len(channel') <= Buffer
  <2>1. CASE channel' = Append(channel, event) /\ Len(channel) < Buffer
    <3>1. channel' \in Seq(Event) /\ Len(channel') = Len(channel) + 1
      BY <1>1, <2>1
    <3>. QED
      BY <1>1, <2>1, <3>1
  <2>2. CASE channel' = channel
    BY <1>1, <2>2
  <2>. QED
    BY <2>1, <2>2 DEF PublishMessage
<1>3. feed' \in {"down", "open", "cut"}
  BY <1>1 DEF PublishMessage
<1>. QED
  BY <1>2, <1>3 DEF PublishMessage, TypeOK, FeedTypeOK

LEMMA DeliverType ==
  ASSUME TypeOK, WriteEvent
  PROVE  FeedTypeOK'
<1>1. /\ channel \in Seq(Event) /\ channel # <<>> /\ Len(channel) <= Buffer
      /\ wire \in Seq(Event \cup {Ready}) /\ Len(wire) \in Nat /\ Len(wire) < WireLimit
      /\ wire' = Append(wire, Head(channel)) /\ channel' = Tail(channel)
      /\ UNCHANGED <<rows, used, outbox, feed>>
  BY DEF TypeOK, FeedTypeOK, WriteEvent
<1>2. /\ channel' \in Seq(Event) /\ Len(channel') = Len(channel) - 1 /\ Head(channel) \in Event
      /\ Len(channel) \in Nat
  BY <1>1
<1>3. wire' \in Seq(Event \cup {Ready}) /\ Len(wire') = Len(wire) + 1
  BY <1>1, <1>2
<1>. QED
  BY <1>1, <1>2, <1>3 DEF TypeOK, FeedTypeOK

LEMMA ArrivedType ==
  ASSUME TypeOK, Arrived
  PROVE  FeedTypeOK'
<1>1. /\ wire \in Seq(Event \cup {Ready}) /\ wire # <<>> /\ wire' = Tail(wire)
      /\ Len(wire) \in Nat /\ Len(wire) <= WireLimit
  BY DEF TypeOK, FeedTypeOK, Arrived
<1>2. wire' \in Seq(Event \cup {Ready}) /\ Len(wire') = Len(wire) - 1
  BY <1>1
<1>. QED
  BY <1>1, <1>2 DEF Arrived, TypeOK, FeedTypeOK

\* A connection ends, with or without the server.
Down ==
    /\ feed' = "down" /\ channel' = <<>> /\ wire' = <<>> /\ outbox' \subseteq outbox
    /\ UNCHANGED <<rows, used>>

LEMMA DownType ==
  ASSUME TypeOK, Down
  PROVE  FeedTypeOK'
<1>1. <<>> \in Seq(Event) /\ <<>> \in Seq(Event \cup {Ready}) /\ Len(<<>>) = 0
  OBVIOUS
<1>. QED
  BY <1>1 DEF Down, TypeOK, FeedTypeOK

LEMMA ConnectType ==
  ASSUME TypeOK, SubscribeMessages
  PROVE  FeedTypeOK'
<1>1. <<>> \in Seq(Event) /\ Len(<<>>) = 0
  OBVIOUS
<1>2. wire' \in Seq(Event \cup {Ready}) /\ Len(wire') = 1
  BY DEF SubscribeMessages
<1>. QED
  BY <1>1, <1>2 DEF SubscribeMessages, TypeOK, FeedTypeOK

LEMMA FeedSame ==
  ASSUME TypeOK, UNCHANGED feedVars
  PROVE  FeedTypeOK' /\ InFlight' = InFlight
BY DEF feedVars, TypeOK, FeedTypeOK, InFlight

(* Pages of history.                                                       *)

LEMMA LeastExists ==
  ASSUME NEW S, S \subseteq Nat, S # {}
  PROVE  \E n \in S : \A k \in S : n <= k
<1>1. PICK n \in S : \A k \in S : ~(<<k, n>> \in OpToRel(<, Nat))
  BY NatLessThanWellFounded, WFMin
<1>2. ASSUME NEW k \in S PROVE n <= k
  <2>1. ~(k < n)
    BY <1>1 DEF OpToRel
  <2>. QED
    BY <2>1
<1>. QED
  BY <1>2

LEMMA GreatestExists ==
  ASSUME NEW S, NEW b \in Nat, S \subseteq 1..b, S # {}
  PROVE  \E n \in S : \A k \in S : n >= k
<1>. DEFINE T == {b - n : n \in S}
<1>1. ASSUME NEW n \in S PROVE n \in Nat /\ n <= b /\ b - n \in Nat
  <2>1. n \in 1..b
    OBVIOUS
  <2>. QED
    BY <2>1
<1>2. T \subseteq Nat /\ T # {}
  BY <1>1
<1>3. PICK d \in T : \A k \in T : d <= k
  BY <1>2, LeastExists
<1>4. PICK n \in S : d = b - n
  BY <1>3
<1>5. ASSUME NEW k \in S PROVE n >= k
  <2>1. b - k \in T
    OBVIOUS
  <2>2. b - n <= b - k
    BY <1>3, <1>4, <2>1
  <2>. QED
    BY <1>1, <2>2
<1>. QED
  BY <1>5

\* What a list query answers: all messages from its cursor on, as they are.
LEMMA PageAnswers ==
  ASSUME TypeOK, NEW before \in Messages \cup {0}
  PROVE  LET page == ListMessages(before, PageSize) IN
         /\ page \in [items : Timeline, next : Messages \cup {0}]
         /\ \A m \in Messages : page.items[m] \in {0, rows[m]}
         /\ \A m \in Messages : m >= page.next /\ (before = 0 \/ m < before) =>
                page.items[m] = rows[m]
<1>. DEFINE present == {m \in Messages : rows[m] # 0 /\ (before = 0 \/ m < before)}
            above(m) == {k \in present : k > m}
            newest == {m \in present : Cardinality(above(m)) < PageSize}
            next == IF newest = present THEN 0 ELSE CHOOSE m \in newest : \A k \in newest : m <= k
            shown == [m \in Messages |-> IF m \in newest THEN rows[m] ELSE 0]
<1>1. rows \in [Messages -> Versions] /\ 0 \in Versions /\ MaxMessages \in Nat
  BY DEF TypeOK, FeedTypeOK, Versions
<1>2. present \subseteq 1..MaxMessages /\ present \subseteq Nat /\ IsFiniteSet(present)
  <2>1. IsFiniteSet(1..MaxMessages)
    BY <1>1, FS_Interval
  <2>2. present \subseteq 1..MaxMessages
    BY DEF Messages
  <2>. QED
    BY <1>1, <2>1, <2>2, FS_Subset
<1>3. shown \in Timeline
  BY <1>1 DEF Timeline
<1>4. (next = 0 /\ newest = present) \/ (next \in newest /\ \A k \in newest : next <= k)
  <2>1. ASSUME newest # present
        PROVE  \E m \in newest : \A k \in newest : m <= k
    <3>1. present # {}
      BY <2>1
    <3>2. PICK n \in present : \A k \in present : n >= k
      BY <1>1, <1>2, <3>1, GreatestExists
    <3>3. above(n) = {}
      BY <1>2, <3>2
    <3>4. n \in newest
      BY <3>3, FS_EmptySet
    <3>5. newest \subseteq Nat /\ newest # {}
      BY <1>2, <3>4
    <3>. QED
      BY <3>5, LeastExists
  <2>. QED
    BY <2>1
<1>. HIDE DEF next
<1>5. ASSUME NEW m \in present, next # 0, m >= next
      PROVE  m \in newest
  <2>1. next \in newest /\ next \in present /\ Cardinality(above(next)) < PageSize
    BY <1>4, <1>5
  <2>2. above(m) \subseteq above(next)
    <3>1. next \in Nat /\ m \in Nat /\ present \subseteq Nat
      BY <1>2, <2>1
    <3>. SUFFICES ASSUME NEW k \in above(m) PROVE k \in above(next)
      OBVIOUS
    <3>. HIDE DEF present
    <3>2. k \in present /\ k > m /\ k \in Nat
      BY <3>1
    <3>3. k > next
      BY <1>5, <3>1, <3>2
    <3>. QED
      BY <3>2, <3>3
  <2>3. IsFiniteSet(above(next))
    BY <1>2, FS_Subset
  <2>4. Cardinality(above(m)) <= Cardinality(above(next)) /\ IsFiniteSet(above(m))
    BY <2>2, <2>3, FS_Subset
  <2>5. Cardinality(above(m)) \in Nat /\ Cardinality(above(next)) \in Nat /\ PageSize \in Nat
    BY <2>3, <2>4, FS_CardinalityType
  <2>. QED
    BY <2>1, <2>4, <2>5
<1>6. next = 0 => newest = present
  <2>1. 0 \notin present
    BY <1>2
  <2>. QED
    BY <1>4, <2>1
<1>7. \A m \in Messages : m >= next /\ (before = 0 \/ m < before) => shown[m] = rows[m]
  <2>1. SUFFICES ASSUME NEW m \in Messages, m >= next, before = 0 \/ m < before, rows[m] # 0
                 PROVE  m \in newest
    BY <1>1
  <2>2. m \in present
    BY <2>1
  <2>. QED
    BY <1>5, <1>6, <2>1, <2>2
<1>8. next \in Messages \cup {0}
  BY <1>4
<1>9. ListMessages(before, PageSize) = [items |-> shown, next |-> next]
  BY DEF ListMessages, next
<1>. HIDE DEF shown
<1>10. \A m \in Messages : shown[m] \in {0, rows[m]}
  BY DEF shown
<1>. QED
  BY <1>3, <1>7, <1>8, <1>9, <1>10

(* The page and its requests.                                              *)

LEMMA Timelines ==
  ASSUME TypeOK
  PROVE  /\ Empty \in Timeline
         /\ \A older, newer \in Timeline : Merge(older, newer) \in Timeline
         /\ \A page \in Timeline : Overlay(page) \in Timeline
         /\ \A m \in Messages, version \in Versions : Only(m, version) \in Timeline
<1>1. 0 \in Versions /\ edited \in Timeline
  BY DEF TypeOK, Versions
<1>. QED
  BY <1>1 DEF Empty, Timeline, Merge, Overlay, Only

\* A request is made for a message and keeps the event it has committed.
LEMMA ServeWrites ==
  ASSUME TypeOK, News, NEW op \in Ops, NEW m \in Messages, Serve(op, m)
  PROVE  \E event, told :
            /\ Wrote(m, event) /\ (event.version = 0 <=> op = "delete")
            /\ told \in outbox' /\ told \in Event /\ told.id = m /\ told.version = event.version
            /\ req' = [req EXCEPT ![op] = [stage |-> "committed", id |-> m, event |-> told,
                                           mounted |-> req[op].mounted]]
<1>1. PICK event : /\ Wrote(m, event)
                   /\ DeleteMessage(m) => event.version = 0
                   /\ event.version = 0 => DeleteMessage(m)
  BY Writes DEF Serve
<1>2. event.version = 0 <=> op = "delete"
  <2>1. rows \in [Messages -> Versions] /\ rows' = [rows EXCEPT ![m] = event.version]
    BY <1>1 DEF TypeOK, FeedTypeOK, Wrote
  <2>2. rows'[m] = event.version
    BY <2>1
  <2>3. CASE CreateMessage(m) /\ op = "send"
    BY <2>1, <2>2, <2>3 DEF CreateMessage, Commit
  <2>4. CASE EditMessage(m) /\ op = "edit"
    <3>1. PICK v \in {rows[m], rows[m] + 1} \cap Versions : Commit("updated", m, v)
      BY <2>4 DEF EditMessage
    <3>2. v # 0
      BY <2>1, <2>4 DEF EditMessage, Versions
    <3>3. rows'[m] = v
      BY <2>1, <3>1 DEF Commit
    <3>. QED
      BY <2>2, <2>4, <3>2, <3>3
  <2>5. CASE DeleteMessage(m) /\ op = "delete"
    BY <1>1, <2>5
  <2>. QED
    BY <2>3, <2>4, <2>5 DEF Serve
<1>. DEFINE told == CHOOSE x \in outbox' : x.id = m /\ x.version = rows'[m]
<1>3. rows'[m] = event.version
  BY <1>1, WroteElse
<1>4. event \in outbox' /\ event.id = m /\ outbox' \subseteq Event
  BY <1>1 DEF Wrote, TypeOK, FeedTypeOK
<1>5. told \in outbox' /\ told.id = m /\ told.version = rows'[m]
  BY <1>3, <1>4
<1>6. req' = [req EXCEPT ![op].stage = "committed", ![op].id = m, ![op].event = told]
  BY DEF Serve
<1>. HIDE DEF told
<1>7. req \in [Ops -> Request] /\ req[op] \in Request
  BY DEF TypeOK
<1>8. [[[req[op] EXCEPT !.stage = "committed"] EXCEPT !.id = m] EXCEPT !.event = told]
         = [stage |-> "committed", id |-> m, event |-> told, mounted |-> req[op].mounted]
  <2>1. PICK stage, id, heard, mounted :
            req[op] = [stage |-> stage, id |-> id, event |-> heard, mounted |-> mounted]
    BY <1>7 DEF Request
  <2>2. [req[op] EXCEPT !.stage = "committed"]
           = [stage |-> "committed", id |-> id, event |-> heard, mounted |-> mounted]
    BY <2>1
  <2>3. [[stage |-> "committed", id |-> id, event |-> heard, mounted |-> mounted] EXCEPT !.id = m]
           = [stage |-> "committed", id |-> m, event |-> heard, mounted |-> mounted]
    OBVIOUS
  <2>4. [[stage |-> "committed", id |-> m, event |-> heard, mounted |-> mounted] EXCEPT !.event = told]
           = [stage |-> "committed", id |-> m, event |-> told, mounted |-> mounted]
    OBVIOUS
  <2>5. mounted = req[op].mounted
    BY <2>1
  <2>. QED
    BY <2>2, <2>3, <2>4, <2>5
<1>9. req' = [req EXCEPT ![op] = [stage |-> "committed", id |-> m, event |-> told,
                                  mounted |-> req[op].mounted]]
  BY <1>6, <1>7, <1>8
<1>. QED
  BY <1>1, <1>2, <1>3, <1>4, <1>5, <1>9

LEMMA RequestsType ==
  ASSUME TypeOK, News, RequestNext
  PROVE  req' \in [Ops -> Request]
<1>1. NoRequest \in Request /\ req \in [Ops -> Request]
  BY DEF NoRequest, Request, TypeOK
<1>2. ASSUME NEW op, NEW m \in Messages \cup {0}, Start(op, m)
      PROVE  req' \in [Ops -> Request]
  <2>1. [NoRequest EXCEPT !.stage = "sent", !.id = m] \in Request
    BY <1>1 DEF Request
  <2>. QED
    BY <1>1, <1>2, <2>1 DEF Start
<1>3. ASSUME NEW op \in Ops, NEW m \in Messages, Serve(op, m)
      PROVE  req' \in [Ops -> Request]
  <2>1. PICK told : /\ told \in Event
                    /\ req' = [req EXCEPT ![op] = [stage |-> "committed", id |-> m, event |-> told,
                                                   mounted |-> req[op].mounted]]
    BY <1>3, ServeWrites
  <2>2. [stage |-> "committed", id |-> m, event |-> told, mounted |-> req[op].mounted] \in Request
    BY <1>1, <2>1 DEF Request
  <2>. QED
    BY <1>1, <2>1, <2>2
<1>4. ASSUME NEW op, Answered(op) \/ GiveUp(op)
      PROVE  req' \in [Ops -> Request]
  BY <1>1, <1>4 DEF Answered, GiveUp
<1>. QED
  BY <1>2, <1>3, <1>4 DEF RequestNext, StartSend, StartEdit, StartDelete, SendAnswered,
     EditAnswered, DeleteAnswered

LEMMA DownActions ==
  ASSUME TypeOK, (Disconnect \/ ServerRestart \/ Remount)
  PROVE  Down /\ ready' = FALSE
BY DEF Disconnect, ServerRestart, Remount, Unsubscribe, Restart, Down

LEMMA ReceiveArrives ==
  ASSUME (ReceiveReady \/ ReceiveEvent)
  PROVE  Arrived
BY DEF ReceiveReady, ReceiveEvent, Arrived

\* A write, by this browser or another.
LEMMA WriteHappens ==
  ASSUME TypeOK, News, NEW m \in Messages,
         WriteElsewhere(m) \/ (\E op \in Ops : Serve(op, m))
  PROVE  \E event : Wrote(m, event)
<1>1. CASE WriteElsewhere(m)
  BY <1>1, Writes DEF WriteElsewhere
<1>2. ASSUME NEW op \in Ops, Serve(op, m)
      PROVE  \E event : Wrote(m, event)
  BY <1>2, ServeWrites
<1>. QED
  BY <1>1, <1>2

LEMMA FeedKeepsType ==
  ASSUME TypeOK, News, [Next]_vars
  PROVE  FeedTypeOK'
<1>1. CASE UNCHANGED feedVars
  BY <1>1, FeedSame
<1>2. ASSUME NEW m \in Messages, WriteElsewhere(m) \/ (\E op \in Ops : Serve(op, m))
      PROVE  FeedTypeOK'
  BY <1>2, WriteHappens, WroteType
<1>3. ASSUME NEW event, Publish(event) PROVE FeedTypeOK'
  BY <1>3, PublishType DEF Publish
<1>4. CASE Connect
  BY <1>4, ConnectType DEF Connect
<1>5. CASE Deliver
  BY <1>5, DeliverType DEF Deliver
<1>6. CASE Disconnect \/ ServerRestart \/ Remount
  BY <1>6, DownActions, DownType
<1>7. CASE ReceiveReady \/ ReceiveEvent
  BY <1>7, ReceiveArrives, ArrivedType
<1>8. CASE LoadFirst \/ LoadOlder \/ AnswerList \/ ShowPage \/ FailList \/ Retry \/ ShowSent
  BY <1>1, <1>8 DEF LoadFirst, LoadOlder, AnswerList, ShowPage, FailList, Retry, ShowSent
<1>9. CASE StartSend \/ SendAnswered \/ EditAnswered \/ DeleteAnswered
  BY <1>1, <1>9 DEF StartSend, Start, SendAnswered, EditAnswered, DeleteAnswered
<1>10. ASSUME NEW m \in Messages, StartEdit(m) \/ StartDelete(m) PROVE FeedTypeOK'
  BY <1>1, <1>10 DEF StartEdit, StartDelete, Start
<1>11. ASSUME NEW op \in Ops, GiveUp(op) PROVE FeedTypeOK'
  BY <1>1, <1>11 DEF GiveUp
<1>12. CASE UNCHANGED vars
  BY <1>1, <1>12 DEF vars
<1>. QED
  BY <1>2, <1>3, <1>4, <1>5, <1>6, <1>7, <1>8, <1>9, <1>10, <1>11, <1>12
     DEF Next, PageNext, RequestNext, FeedNext

PageTypeOK ==
    /\ items \in Timeline /\ live \in Timeline /\ edited \in Timeline
    /\ cursor \in Messages \cup {0}
    /\ deleted \subseteq Messages
    /\ ready \in BOOLEAN /\ reload \in BOOLEAN
    /\ list \in List
    /\ draft \in [sent : Messages \cup {0}, version : Versions, deleted : SUBSET Messages]
    /\ seen \in Messages \cup {0}

LEMMA ReceiveEventKeepsType ==
  ASSUME TypeOK, ReceiveEvent
  PROVE  PageTypeOK'
<1>. DEFINE event == Head(wire)
<1>1. event \in Event /\ event.id \in Messages /\ event.version \in Versions /\ 0 \in Versions
  <2>1. wire \in Seq(Event \cup {Ready}) /\ wire # <<>> /\ Head(wire) # Ready
    BY DEF TypeOK, FeedTypeOK, ReceiveEvent
  <2>2. Head(wire) \in Event
    BY <2>1
  <2>. QED
    BY <2>2 DEF Event, Versions
<1>2. \/ /\ deleted' = deleted \cup {event.id}
         /\ live' = [live EXCEPT ![event.id] = 0] /\ items' = [items EXCEPT ![event.id] = 0]
         /\ UNCHANGED edited
      \/ /\ live' = [live EXCEPT ![event.id] = event.version]
         /\ edited' = [edited EXCEPT ![event.id] = event.version]
         /\ items' = [items EXCEPT ![event.id] = event.version]
         /\ UNCHANGED deleted
  BY DEF ReceiveEvent
<1>3. UNCHANGED <<cursor, ready, reload, list, seen, draft>>
  BY DEF ReceiveEvent
<1>. HIDE DEF event
<1>. QED
  BY <1>1, <1>2, <1>3 DEF TypeOK, PageTypeOK, Timeline

LEMMA PageKeepsType ==
  ASSUME TypeOK, PageNext
  PROVE  PageTypeOK'
<1>1. /\ Empty \in Timeline /\ NoPage \in [items : Timeline, next : Messages \cup {0}]
      /\ NoList \in List /\ [NoList EXCEPT !.kind = "first"] \in List
      /\ [NoList EXCEPT !.kind = "older"] \in List /\ [NoList EXCEPT !.kind = "failed"] \in List
  <2>1. Empty \in Timeline
    BY Timelines
  <2>. QED
    BY <2>1 DEF NoPage, NoList, List
<1>2. PageTypeOK
  BY DEF TypeOK, PageTypeOK
<1>3. CASE ReceiveReady
  BY <1>1, <1>2, <1>3 DEF ReceiveReady, PageTypeOK
<1>4. CASE ReceiveEvent
  BY <1>4, ReceiveEventKeepsType
<1>5. CASE LoadFirst \/ LoadOlder \/ FailList \/ Retry
  BY <1>1, <1>2, <1>5 DEF LoadFirst, LoadOlder, FailList, Retry, PageTypeOK
<1>6. CASE AnswerList
  <2>1. ListMessages(cursor, PageSize) \in [items : Timeline, next : Messages \cup {0}]
    BY <1>2, PageAnswers DEF PageTypeOK
  <2>. DEFINE page == ListMessages(cursor, PageSize)
  <2>. HIDE DEF page
  <2>2. list \in List /\ page \in [items : Timeline, next : Messages \cup {0}]
    BY <1>2, <2>1 DEF PageTypeOK, page
  <2>3. [list EXCEPT !.answered = TRUE, !.page = page] \in List
    BY <2>2 DEF List
  <2>. QED
    BY <1>2, <1>6, <2>3 DEF AnswerList, PageTypeOK, page
<1>7. CASE ShowPage
  <2>1. list.page.items \in Timeline /\ list.page.next \in Messages \cup {0}
    BY <1>2 DEF PageTypeOK, List
  <2>2. items' \in Timeline
    BY <1>2, <1>7, <2>1, Timelines DEF ShowPage, PageTypeOK
  <2>. QED
    BY <1>1, <1>2, <1>7, <2>1, <2>2 DEF ShowPage, PageTypeOK
<1>8. CASE ShowSent
  <2>1. draft.sent \in Messages /\ draft.version \in Versions
    BY <1>2, <1>8 DEF ShowSent, PageTypeOK
  <2>2. items' \in Timeline
    BY <1>2, <1>8, <2>1, Timelines DEF ShowSent, PageTypeOK
  <2>. QED
    BY <1>2, <1>8, <2>1, <2>2 DEF ShowSent, PageTypeOK
<1>9. CASE Remount
  <2>1. draft.deleted \subseteq Messages
    BY <1>2 DEF PageTypeOK
  <2>. QED
    BY <1>1, <1>2, <1>9, <2>1 DEF Remount, PageTypeOK
<1>. QED
  BY <1>3, <1>4, <1>5, <1>6, <1>7, <1>8, <1>9 DEF PageNext

LEMMA AnswersKeepType ==
  ASSUME TypeOK, News, RequestNext
  PROVE  PageTypeOK'
<1>1. PageTypeOK /\ req \in [Ops -> Request] /\ 0 \in Versions
  BY DEF TypeOK, PageTypeOK, Versions
<1>2. CASE StartSend
  BY <1>1, <1>2 DEF StartSend, Start, pageVars, PageTypeOK
<1>3. CASE \/ \E m \in Messages : StartEdit(m) \/ StartDelete(m)
           \/ \E op \in Ops, m \in Messages : Serve(op, m)
           \/ \E op \in Ops : GiveUp(op)
  BY <1>1, <1>3 DEF StartEdit, StartDelete, Start, Serve, GiveUp, pageVars, PageTypeOK
<1>4. ASSUME NEW op \in Ops, req[op].stage = "committed"
      PROVE  req[op].id \in Messages /\ req[op].event.version \in Versions
  BY <1>4 DEF News, True, Event
<1>5. CASE SendAnswered
  <2>1. req["send"].id \in Messages /\ req["send"].event.version \in Versions
    BY <1>4, <1>5 DEF SendAnswered, Answered
  <2>. QED
    BY <1>1, <1>5, <2>1 DEF SendAnswered, pageVars, PageTypeOK
<1>6. CASE EditAnswered
  <2>1. req["edit"].id \in Messages /\ req["edit"].event.version \in Versions
    BY <1>4, <1>6 DEF EditAnswered, Answered
  <2>2. /\ edited' = edited \/ edited' = [edited EXCEPT ![req["edit"].id] = req["edit"].event.version]
        /\ \/ items' = items
           \/ items' = [items EXCEPT ![req["edit"].id] = IF @ = 0 THEN 0 ELSE req["edit"].event.version]
        /\ draft' = draft \/ draft' = [draft EXCEPT !.version = req["edit"].event.version]
        /\ UNCHANGED <<cursor, deleted, live, ready, reload, list, seen>>
    BY <1>6 DEF EditAnswered
  <2>3. edited' \in Timeline /\ items' \in Timeline
    BY <1>1, <2>1, <2>2 DEF PageTypeOK, Timeline
  <2>4. draft' \in [sent : Messages \cup {0}, version : Versions, deleted : SUBSET Messages]
    BY <1>1, <2>1, <2>2 DEF PageTypeOK
  <2>. QED
    BY <1>1, <2>2, <2>3, <2>4 DEF PageTypeOK
<1>7. CASE DeleteAnswered
  <2>1. req["delete"].id \in Messages
    BY <1>4, <1>7 DEF DeleteAnswered, Answered
  <2>2. items' \in Timeline
    BY <1>1, <1>7 DEF DeleteAnswered, PageTypeOK, Timeline
  <2>3. draft' \in [sent : Messages \cup {0}, version : Versions, deleted : SUBSET Messages]
    BY <1>1, <1>7, <2>1 DEF DeleteAnswered, PageTypeOK
  <2>. QED
    BY <1>1, <1>7, <2>1, <2>2, <2>3 DEF DeleteAnswered, PageTypeOK
<1>. QED
  BY <1>2, <1>3, <1>5, <1>6, <1>7 DEF RequestNext

LEMMA NextType ==
  ASSUME TypeOK, News, [Next]_vars
  PROVE  TypeOK'
<1>1. FeedTypeOK' /\ PageTypeOK /\ req \in [Ops -> Request]
  BY FeedKeepsType DEF TypeOK, PageTypeOK
<1>2. SUFFICES PageTypeOK' /\ req' \in [Ops -> Request]
  BY <1>1, <1>2 DEF TypeOK, PageTypeOK
<1>3. CASE PageNext
  <2>1. req' \in [Ops -> Request]
    <3>1. CASE Remount
      <4>1. \A r \in Request : \A b \in BOOLEAN : [r EXCEPT !.mounted = b] \in Request
        BY DEF Request
      <4>2. \A op \in Ops : (req[op].stage = "idle") \in BOOLEAN
        OBVIOUS
      <4>3. \A op \in Ops : [req[op] EXCEPT !.mounted = req[op].stage = "idle"] \in Request
        BY <1>1, <4>1, <4>2
      <4>. QED
        BY <3>1, <4>3 DEF Remount
    <3>2. CASE ~Remount
      BY <1>1, <1>3, <3>2 DEF PageNext, ReceiveReady, ReceiveEvent, LoadFirst, LoadOlder, AnswerList,
         ShowPage, FailList, Retry, ShowSent
    <3>. QED
      BY <3>1, <3>2
  <2>. QED
    BY <1>3, <2>1, PageKeepsType
<1>4. CASE RequestNext
  BY <1>4, RequestsType, AnswersKeepType
<1>5. CASE ServerRestart
  <2>1. NoRequest \in Request
    BY DEF NoRequest, Request
  <2>. QED
    BY <1>1, <1>5, <2>1 DEF ServerRestart, PageTypeOK
<1>6. CASE FeedNext /\ ~ServerRestart
  BY <1>1, <1>6 DEF FeedNext, WriteElsewhere, Publish, Connect, Deliver, Disconnect, pageVars, PageTypeOK
<1>7. CASE UNCHANGED vars
  BY <1>1, <1>7 DEF vars, pageVars, PageTypeOK
<1>. QED
  BY <1>3, <1>4, <1>5, <1>6, <1>7 DEF Next

-----------------------------------------------------------------------------
(* What is known of deletions.                                             *)

LEMMA ReadyIsNoEvent == Ready \notin Event
<1>1. \A event \in Event : event.type # "ready"
  BY DEF Event
<1>2. Ready.type = "ready"
  BY DEF Ready
<1>. QED
  BY <1>1, <1>2

LEMMA InitNews == Init => News
<1>. SUFFICES ASSUME Init PROVE News
  OBVIOUS
<1>1. InFlight = {}
  BY DEF Init, FeedInit, InFlight
<1>2. \A m \in Messages : rows[m] = 0
  BY DEF Init, FeedInit
<1>3. deleted \cup draft.deleted = {}
  BY DEF Init, NoDraft
<1>4. \A op \in Ops : req[op].stage = "idle"
  BY DEF Init, NoRequest
<1>. QED
  BY <1>1, <1>2, <1>3, <1>4 DEF News

\* Nobody writes, and nothing new is said.
LEMMA NewsQuiet ==
  ASSUME News, UNCHANGED <<rows, used>>, InFlight' \subseteq InFlight \cup {Ready},
         \A m \in deleted' \cup draft'.deleted : Gone(m),
         \A op \in Ops : req'[op].stage = "committed" =>
             req[op].stage = "committed" /\ req'[op].event = req[op].event /\ req'[op].id = req[op].id
  PROVE  News'
<1>1. \A m : Gone(m)' <=> Gone(m)
  BY DEF Gone
<1>2. \A x : True(x)' <=> True(x)
  BY <1>1 DEF True
<1>3. \A x \in InFlight' : x # Ready => True(x)'
  BY <1>2 DEF News
<1>4. \A m \in deleted' \cup draft'.deleted : Gone(m)'
  BY <1>1
<1>5. ASSUME NEW op \in Ops, req'[op].stage = "committed", NEW event, event = req'[op].event
      PROVE  True(event)' /\ event.id = req'[op].id /\ (event.version = 0 <=> op = "delete")
  BY <1>2, <1>5 DEF News
<1>6. \A op \in Ops : (req[op].stage = "committed" =>
          /\ True(req[op].event) /\ req[op].event.id = req[op].id
          /\ req[op].event.version = 0 <=> op = "delete")'
  BY <1>5 DEF True, Gone
<1>. QED
  BY <1>3, <1>4, <1>6 DEF News

LEMMA NewsWrote ==
  ASSUME TypeOK, News, NEW m \in Messages, NEW event, Wrote(m, event), UNCHANGED <<deleted, draft>>,
         \A op \in Ops : req'[op].stage = "committed" =>
             \/ req'[op] = req[op]
             \/ /\ req'[op].event \in outbox' /\ req'[op].event # Ready
                /\ req'[op].event.id = req'[op].id
                /\ req'[op].event.version = 0 <=> op = "delete"
  PROVE  News'
<1>1. /\ \A k : Gone(k) => Gone(k)'
      /\ \A x : True(x) => True(x)'
      /\ True(event)'
      /\ \A k \in Messages : rows'[k] = IF k = m THEN event.version ELSE rows[k]
  BY WroteElse
<1>2. \A x \in InFlight' : x # Ready => True(x)'
  BY <1>1, WroteInFlight DEF News
<1>3. \A k \in Messages : rows'[k] # 0 => k \in used'
  BY <1>1 DEF News, Wrote
<1>4. \A k \in deleted' \cup draft'.deleted : Gone(k)'
  BY <1>1 DEF News
<1>5. outbox' \subseteq InFlight'
  BY DEF InFlight
<1>6. ASSUME NEW op \in Ops, req'[op].stage = "committed", NEW said, said = req'[op].event
      PROVE  True(said)' /\ said.id = req'[op].id /\ (said.version = 0 <=> op = "delete")
  BY <1>1, <1>2, <1>5, <1>6 DEF News
<1>7. \A op \in Ops : (req[op].stage = "committed" =>
          /\ True(req[op].event) /\ req[op].event.id = req[op].id
          /\ req[op].event.version = 0 <=> op = "delete")'
  BY <1>6 DEF True, Gone
<1>. QED
  BY <1>2, <1>3, <1>4, <1>7 DEF News

LEMMA DeliveredInFlight ==
  ASSUME TypeOK, (ReceiveReady \/ ReceiveEvent)
  PROVE  /\ InFlight' \subseteq InFlight /\ InFlight \subseteq InFlight' \cup {Head(wire)}
         /\ Head(wire) \in InFlight
<1>1. wire \in Seq(Event \cup {Ready}) /\ wire # <<>>
  BY DEF TypeOK, FeedTypeOK, ReceiveReady, ReceiveEvent
<1>2. Head(wire) \in InFlight
  BY <1>1, Shifted DEF InFlight
<1>. QED
  BY <1>2, ReceiveArrives, ArrivedInFlight

\* Requests under way outlive the page that made them.
LEMMA RemountKeepsRequests ==
  ASSUME TypeOK, Remount, NEW op \in Ops
  PROVE  req'[op].stage = req[op].stage /\ req'[op].event = req[op].event /\ req'[op].id = req[op].id
<1>1. \A r \in Request : \A b :
          LET late == [r EXCEPT !.mounted = b] IN
          late.stage = r.stage /\ late.event = r.event /\ late.id = r.id
  BY DEF Request
<1>2. PICK b : req'[op] = [req[op] EXCEPT !.mounted = b]
  BY DEF Remount
<1>3. req[op] \in Request
  BY DEF TypeOK
<1>. QED
  BY <1>1, <1>2, <1>3

LEMMA NewsPage ==
  ASSUME TypeOK, News, PageNext
  PROVE  News'
<1>1. CASE ReceiveReady
  BY <1>1, DeliveredInFlight, NewsQuiet DEF ReceiveReady, News
<1>2. CASE ReceiveEvent
  <2>1. True(Head(wire))
    BY <1>2, DeliveredInFlight DEF News, ReceiveEvent
  <2>2. \A m \in deleted' \cup draft'.deleted : Gone(m)
    BY <1>2, <2>1 DEF ReceiveEvent, News, True
  <2>. QED
    BY <1>2, <2>2, DeliveredInFlight, NewsQuiet DEF ReceiveEvent
<1>3. CASE LoadFirst \/ LoadOlder \/ AnswerList \/ ShowPage \/ FailList \/ Retry \/ ShowSent
  <2>1. UNCHANGED <<feedVars, deleted, draft, req>>
    BY <1>3 DEF LoadFirst, LoadOlder, AnswerList, ShowPage, FailList, Retry, ShowSent
  <2>. QED
    BY <2>1, FeedSame, NewsQuiet DEF feedVars, News
<1>4. CASE Remount
  <2>1. Down /\ UNCHANGED draft /\ deleted' = draft.deleted
    BY <1>4, DownActions DEF Remount
  <2>2. \A op \in Ops :
            req'[op].stage = req[op].stage /\ req'[op].event = req[op].event /\ req'[op].id = req[op].id
    BY <1>4, RemountKeepsRequests
  <2>. QED
    BY <2>1, <2>2, DownInFlight, NewsQuiet DEF Down, News
<1>. QED
  BY <1>1, <1>2, <1>3, <1>4 DEF PageNext

LEMMA NewsRequest ==
  ASSUME TypeOK, News, RequestNext
  PROVE  News'
<1>1. req \in [Ops -> Request] /\ NoRequest.stage = "idle"
  BY DEF TypeOK, NoRequest
<1>2. ASSUME NEW op, NEW m, Start(op, m), draft'.deleted = draft.deleted
      PROVE  News'
  <2>1. [NoRequest EXCEPT !.stage = "sent", !.id = m].stage = "sent"
    BY DEF NoRequest
  <2>2. \A o \in Ops : req'[o].stage = "committed" => req'[o] = req[o]
    BY <1>1, <1>2, <2>1 DEF Start
  <2>3. UNCHANGED feedVars /\ UNCHANGED deleted
    BY <1>2 DEF Start, pageVars
  <2>. QED
    BY <1>2, <2>2, <2>3, FeedSame, NewsQuiet DEF feedVars, News
<1>3. ASSUME NEW op \in Ops, NEW m \in Messages, Serve(op, m)
      PROVE  News'
  <2>1. PICK event, told :
            /\ Wrote(m, event) /\ (event.version = 0 <=> op = "delete")
            /\ told \in outbox' /\ told \in Event /\ told.id = m /\ told.version = event.version
            /\ req' = [req EXCEPT ![op] = [stage |-> "committed", id |-> m, event |-> told,
                                           mounted |-> req[op].mounted]]
    BY <1>3, ServeWrites
  <2>2. ASSUME NEW o \in Ops, req'[o].stage = "committed", req'[o] # req[o]
        PROVE  /\ req'[o].event \in outbox' /\ req'[o].event # Ready
               /\ req'[o].event.id = req'[o].id
               /\ req'[o].event.version = 0 <=> o = "delete"
    <3>1. o = op
      BY <1>1, <2>1, <2>2
    <3>2. req'[o] = [stage |-> "committed", id |-> m, event |-> told, mounted |-> req[op].mounted]
      BY <1>1, <2>1, <3>1
    <3>. QED
      BY <2>1, <3>1, <3>2, ReadyIsNoEvent
  <2>3. UNCHANGED <<deleted, draft>>
    BY <1>3 DEF Serve, pageVars
  <2>. QED
    BY <2>1, <2>2, <2>3, NewsWrote
<1>4. ASSUME NEW op, Answered(op) \/ GiveUp(op),
             UNCHANGED feedVars, \A m \in deleted' \cup draft'.deleted : Gone(m)
      PROVE  News'
  <2>1. \A o \in Ops : req'[o].stage = "committed" => req'[o] = req[o]
    BY <1>1, <1>4 DEF Answered, GiveUp
  <2>. QED
    BY <1>4, <2>1, FeedSame, NewsQuiet DEF feedVars
<1>5. draft \in [sent : Messages \cup {0}, version : Versions, deleted : SUBSET Messages]
  BY DEF TypeOK
<1>6. CASE StartSend
  <2>1. draft'.deleted = draft.deleted
    BY <1>5, <1>6 DEF StartSend
  <2>. QED
    BY <1>2, <1>6, <2>1 DEF StartSend
<1>7. ASSUME NEW m \in Messages, StartEdit(m) \/ StartDelete(m) PROVE News'
  BY <1>2, <1>7 DEF StartEdit, StartDelete
<1>8. CASE SendAnswered
  <2>1. UNCHANGED <<feedVars, deleted>>
    BY <1>8 DEF SendAnswered, pageVars
  <2>2. draft'.deleted = draft.deleted
    BY <1>5, <1>8 DEF SendAnswered
  <2>. QED
    BY <1>4, <1>8, <2>1, <2>2 DEF SendAnswered, News
<1>9. CASE EditAnswered
  <2>1. UNCHANGED <<feedVars, deleted>>
    BY <1>9 DEF EditAnswered
  <2>2. draft'.deleted = draft.deleted
    BY <1>5, <1>9 DEF EditAnswered
  <2>. QED
    BY <1>4, <1>9, <2>1, <2>2 DEF EditAnswered, News
<1>10. CASE DeleteAnswered
  <2>1. Gone(req["delete"].id)
    BY <1>10 DEF DeleteAnswered, Answered, News, True
  <2>2. draft'.deleted = draft.deleted \cup {req["delete"].id}
    BY <1>5, <1>10 DEF DeleteAnswered
  <2>3. UNCHANGED feedVars /\ deleted' = deleted \cup {req["delete"].id}
    BY <1>10 DEF DeleteAnswered
  <2>. QED
    BY <1>4, <1>10, <2>1, <2>2, <2>3 DEF DeleteAnswered, News
<1>11. ASSUME NEW op \in Ops, GiveUp(op) PROVE News'
  BY <1>4, <1>11 DEF GiveUp, pageVars, News
<1>. QED
  BY <1>3, <1>6, <1>7, <1>8, <1>9, <1>10, <1>11 DEF RequestNext

LEMMA NewsFeed ==
  ASSUME TypeOK, News, FeedNext
  PROVE  News'
<1>1. ASSUME NEW m \in Messages, WriteElsewhere(m) PROVE News'
  <2>1. PICK event : Wrote(m, event)
    BY <1>1, WriteHappens
  <2>2. UNCHANGED <<deleted, draft, req>>
    BY <1>1 DEF WriteElsewhere, pageVars
  <2>. QED
    BY <2>1, <2>2, NewsWrote
<1>2. ASSUME NEW event, Publish(event) PROVE News'
  BY <1>2, PublishInFlight, NewsQuiet DEF Publish, PublishMessage, pageVars, News
<1>3. CASE Connect
  BY <1>3, ConnectInFlight, NewsQuiet DEF Connect, SubscribeMessages, pageVars, News
<1>4. CASE Deliver
  BY <1>4, DeliverInFlight, NewsQuiet DEF Deliver, WriteEvent, pageVars, News
<1>5. CASE Disconnect
  <2>1. UNCHANGED <<deleted, draft, req>>
    BY <1>5 DEF Disconnect
  <2>. QED
    BY <1>5, <2>1, DownActions, DownInFlight, NewsQuiet DEF Down, News
<1>6. CASE ServerRestart
  <2>1. NoRequest.stage = "idle" /\ UNCHANGED <<deleted, draft>>
    BY <1>6 DEF NoRequest, ServerRestart
  <2>2. \A op \in Ops : req'[op].stage = "committed" => req'[op] = req[op]
    BY <1>6, <2>1 DEF ServerRestart
  <2>. QED
    BY <1>6, <2>1, <2>2, DownActions, DownInFlight, NewsQuiet DEF Down, News
<1>. QED
  BY <1>1, <1>2, <1>3, <1>4, <1>5, <1>6 DEF FeedNext

LEMMA NextNews ==
  ASSUME TypeOK, News, [Next]_vars
  PROVE  News'
<1>1. CASE UNCHANGED vars
  BY <1>1, FeedSame, NewsQuiet DEF vars, pageVars, feedVars, News
<1>. QED
  BY <1>1, NewsPage, NewsRequest, NewsFeed DEF Next

-----------------------------------------------------------------------------
(* What the page reaches back to.                                          *)

LEMMA InitReach == Init => Listing /\ ~Following
BY DEF Init, FeedInit, Listing, NoList, Following

LEMMA NextListing ==
  ASSUME TypeOK, Listing, [Next]_vars
  PROVE  Listing'
<1>1. list \in List
  BY DEF TypeOK
<1>2. CASE UNCHANGED <<feed, channel, wire, ready, list, cursor>>
  BY <1>2 DEF Listing
<1>3. CASE ReceiveReady \/ ReceiveEvent
  BY <1>3 DEF ReceiveReady, ReceiveEvent, Listing
<1>4. CASE LoadFirst \/ LoadOlder \/ ShowPage \/ FailList
  BY <1>4 DEF LoadFirst, LoadOlder, ShowPage, FailList, NoList, feedVars, Listing
<1>5. CASE AnswerList
  <2>1. list'.kind = list.kind
    BY <1>1, <1>5 DEF AnswerList, List
  <2>. QED
    BY <1>5, <2>1 DEF AnswerList, feedVars, Listing
<1>6. CASE Disconnect \/ ServerRestart \/ Remount
  BY <1>6 DEF Disconnect, ServerRestart, Remount, Unsubscribe, Restart, NoList, Listing
<1>7. ASSUME NEW event, Publish(event) PROVE Listing'
  BY <1>7 DEF Publish, PublishMessage, pageVars, Listing
<1>8. CASE Connect \/ Deliver
  BY <1>8 DEF Connect, Deliver, SubscribeMessages, WriteEvent, pageVars, Listing
<1>9. CASE Retry \/ ShowSent \/ StartSend \/ SendAnswered \/ EditAnswered \/ DeleteAnswered
  BY <1>2, <1>9 DEF Retry, ShowSent, StartSend, Start, SendAnswered, EditAnswered, DeleteAnswered,
     feedVars, pageVars
<1>10. ASSUME NEW m \in Messages, StartEdit(m) \/ StartDelete(m) \/ WriteElsewhere(m)
                                  \/ (\E op \in Ops : Serve(op, m))
       PROVE Listing'
  BY <1>2, <1>10 DEF StartEdit, StartDelete, Start, WriteElsewhere, Serve, CreateMessage, EditMessage,
     DeleteMessage, Commit, feedVars, pageVars
<1>11. ASSUME NEW op \in Ops, GiveUp(op) PROVE Listing'
  BY <1>2, <1>11 DEF GiveUp, feedVars, pageVars
<1>12. CASE UNCHANGED vars
  BY <1>2, <1>12 DEF vars, feedVars, pageVars
<1>. QED
  BY <1>3, <1>4, <1>5, <1>6, <1>7, <1>8, <1>9, <1>10, <1>11, <1>12
     DEF Next, PageNext, RequestNext, FeedNext

\* A step that leaves the list request alone, and loses no message.
LEMMA ReachKept ==
  ASSUME Following => Reaches, Following' => Following, UNCHANGED <<cursor, list>>,
         \A m \in Messages : rows'[m] # 0 =>
             \/ Announced(m)' \/ (items'[m] # 0 /\ live'[m] # 0)
             \/ /\ rows[m] # 0 /\ (items[m] # 0 => items'[m] # 0) /\ (live[m] # 0 => live'[m] # 0)
                /\ Announced(m) => Announced(m)'
  PROVE  Following' => Reaches'
<1>. SUFFICES ASSUME Following' PROVE Reaches'
  OBVIOUS
<1>1. Reaches
  OBVIOUS
<1>. DEFINE said(m) == Announced(m)
<1>2. \A m \in Messages : rows'[m] # 0 =>
          \/ said(m)' \/ (items'[m] # 0 /\ live'[m] # 0)
          \/ /\ rows[m] # 0 /\ (items[m] # 0 => items'[m] # 0) /\ (live[m] # 0 => live'[m] # 0)
             /\ said(m) => said(m)'
  OBVIOUS
<1>3. UNCHANGED <<cursor, list>>
  OBVIOUS
<1>. QED
  BY <1>1, <1>2, <1>3 DEF Reaches

\* Nothing that matters here has changed.
LEMMA ReachSame ==
  ASSUME Following => Reaches, UNCHANGED <<feed, rows, ready, reload, cursor, list, items, live>>,
         InFlight \subseteq InFlight'
  PROVE  Following' => Reaches'
<1>1. \A m \in Messages : Announced(m) => Announced(m)'
  BY DEF Announced
<1>2. Following' => Following
  BY DEF Following
<1>. QED
  BY <1>1, <1>2, ReachKept

LEMMA ReachWrote ==
  ASSUME TypeOK, Following => Reaches, NEW m \in Messages, NEW event, Wrote(m, event),
         UNCHANGED pageVars
  PROVE  Following' => Reaches'
<1>1. InFlight' = InFlight \cup {event}
  BY WroteInFlight
<1>2. \A k \in Messages : Announced(k) => Announced(k)'
  BY <1>1 DEF Announced
<1>3. \A k \in Messages : rows'[k] = IF k = m THEN event.version ELSE rows[k]
  BY WroteElse
<1>4. event.version # 0 => Announced(m)'
  BY <1>1, ReadyIsNoEvent DEF Announced, Wrote
<1>5. (Following' => Following) /\ UNCHANGED <<cursor, list, items, live>>
  BY DEF Following, pageVars, Wrote
<1>. QED
  BY <1>2, <1>3, <1>4, <1>5, ReachKept

LEMMA ReachReceive ==
  ASSUME TypeOK, News, Following => Reaches, ReceiveEvent
  PROVE  Following' => Reaches'
<1>. DEFINE event == Head(wire)
<1>1. /\ event \in InFlight /\ event # Ready /\ InFlight \subseteq InFlight' \cup {event}
      /\ True(event)
  BY DeliveredInFlight DEF ReceiveEvent, News
<1>2. \/ /\ event.type = "deleted"
         /\ live' = [live EXCEPT ![event.id] = 0] /\ items' = [items EXCEPT ![event.id] = 0]
      \/ /\ event.type # "deleted"
         /\ live' = [live EXCEPT ![event.id] = event.version]
         /\ items' = [items EXCEPT ![event.id] = event.version]
  BY DEF ReceiveEvent
<1>3. UNCHANGED <<rows, feed, cursor, ready, reload, list>>
  BY DEF ReceiveEvent
<1>. HIDE DEF event
<1>4. live \in Timeline /\ items \in Timeline
  BY DEF TypeOK
<1>5. \A k \in Messages : k # event.id =>
          /\ Announced(k) => Announced(k)'
          /\ items'[k] = items[k] /\ live'[k] = live[k]
  <2>1. \A k \in Messages : k # event.id => (Announced(k) => Announced(k)')
    BY <1>1 DEF Announced
  <2>2. \A k \in Messages : k # event.id => items'[k] = items[k] /\ live'[k] = live[k]
    BY <1>2, <1>4 DEF Timeline
  <2>. QED
    BY <2>1, <2>2
<1>6. event.id \in Messages => rows[event.id] = 0 \/ (items'[event.id] # 0 /\ live'[event.id] # 0)
  <2>1. event.type = "deleted" => rows[event.id] = 0
    BY <1>1 DEF True, Gone
  <2>2. event.type # "deleted" => event.version # 0
    BY <1>1 DEF True
  <2>. QED
    BY <1>2, <1>4, <2>1, <2>2 DEF Timeline
<1>7. Following' => Following
  BY <1>3 DEF Following
<1>. QED
  BY <1>3, <1>5, <1>6, <1>7, ReachKept

LEMMA ReachHistory ==
  ASSUME TypeOK, News, Listing, Following => Reaches,
         LoadFirst \/ LoadOlder \/ AnswerList \/ ShowPage \/ FailList
  PROVE  Following' => Reaches'
<1>. SUFFICES ASSUME Following' PROVE Reaches'
  OBVIOUS
<1>1. UNCHANGED <<rows, feed, ready>> /\ InFlight' = InFlight
  BY FeedSame DEF LoadFirst, LoadOlder, AnswerList, ShowPage, FailList, feedVars
<1>. DEFINE said(m) == Announced(m)
<1>2. \A m : said(m)' <=> said(m)
  BY <1>1 DEF Announced
<1>3. list \in List /\ items \in Timeline /\ live \in Timeline /\ cursor \in Messages \cup {0}
  BY DEF TypeOK
<1>4. CASE LoadFirst
  BY <1>4 DEF LoadFirst, NoList, Reaches
<1>5. CASE LoadOlder
  <2>1. Reaches /\ list.kind = "none"
    BY <1>5 DEF LoadOlder, NoList, Following, feedVars
  <2>2. list'.kind = "older" /\ list'.answered = FALSE /\ UNCHANGED <<items, cursor, rows>>
    BY <1>5 DEF LoadOlder, NoList, feedVars
  <2>3. \A m \in Messages : m >= cursor' /\ rows'[m] # 0 => items'[m] # 0 \/ said(m)'
    BY <1>2, <2>1, <2>2 DEF Reaches
  <2>. QED
    BY <2>2, <2>3 DEF Reaches
<1>6. CASE AnswerList
  <2>. DEFINE page == ListMessages(cursor, PageSize)
  <2>1. \A m \in Messages : m >= page.next /\ (cursor = 0 \/ m < cursor) => page.items[m] = rows[m]
    BY <1>3, PageAnswers
  <2>2. Reaches
    BY <1>6 DEF AnswerList, Following, feedVars
  <2>. HIDE DEF page
  <2>3. list'.kind = list.kind /\ list'.page = page
    BY <1>3, <1>6 DEF AnswerList, List, page
  <2>4. UNCHANGED <<items, cursor, live, rows>>
    BY <1>1, <1>6 DEF AnswerList
  <2>5. list'.kind = "first" => \A m \in Messages : m >= list'.page.next /\ rows'[m] # 0 =>
            list'.page.items[m] # 0
    BY <2>1, <2>3, <2>4 DEF Listing
  <2>6. list'.kind \in {"none", "older"} =>
           \A m \in Messages : m >= cursor' /\ rows'[m] # 0 => items'[m] # 0 \/ said(m)'
    BY <1>2, <2>2, <2>3, <2>4 DEF Reaches
  <2>7. \A m \in Messages : m >= list'.page.next /\ m < cursor' /\ rows'[m] # 0 =>
            list'.page.items[m] # 0
    BY <2>1, <2>3, <2>4
  <2>. QED
    BY <2>5, <2>6, <2>7 DEF Reaches
<1>7. CASE ShowPage
  <2>. DEFINE merged == IF list.kind = "first" THEN Merge(list.page.items, live)
                                               ELSE Merge(list.page.items, items)
  <2>1. Reaches /\ list.kind \in {"first", "older"} /\ list.answered
    BY <1>7 DEF ShowPage, Following, feedVars, Listing
  <2>2. \A m \in Messages : merged[m] # 0 /\ rows[m] # 0 => items'[m] # 0
    <3>1. items' = Overlay(merged)
      BY <1>7 DEF ShowPage
    <3>. HIDE DEF merged
    <3>2. \A m \in Messages : rows[m] # 0 => m \notin deleted
      BY DEF News, Gone
    <3>. QED
      BY <3>1, <3>2 DEF Overlay
  <2>3. list' = NoList /\ cursor' = list.page.next
    BY <1>7 DEF ShowPage
  <2>4. ASSUME NEW m \in Messages, m >= list.page.next, rows[m] # 0
        PROVE  items'[m] # 0 \/ said(m)
    <3>1. list.page.next \in Messages \cup {0} /\ m \in Nat /\ cursor \in Nat
      BY <1>3 DEF List, Messages
    <3>2. CASE list.kind = "first"
      <4>1. list.page.items[m] # 0 \/ live[m] # 0 \/ said(m)
        BY <2>1, <2>4, <3>2 DEF Reaches
      <4>2. merged[m] = IF live[m] # 0 THEN live[m] ELSE list.page.items[m]
        BY <3>2 DEF Merge
      <4>. QED
        BY <2>2, <2>4, <4>1, <4>2
    <3>3. CASE list.kind = "older"
      <4>1. list.page.items[m] # 0 \/ items[m] # 0 \/ said(m)
        BY <2>1, <2>4, <3>1, <3>3 DEF Reaches
      <4>2. merged[m] = IF items[m] # 0 THEN items[m] ELSE list.page.items[m]
        BY <3>3 DEF Merge
      <4>. QED
        BY <2>2, <2>4, <4>1, <4>2
    <3>. QED
      BY <2>1, <3>2, <3>3
  <2>5. list'.kind = "none"
    BY <2>3 DEF NoList
  <2>6. \A m \in Messages : m >= cursor' /\ rows'[m] # 0 => items'[m] # 0 \/ said(m)'
    BY <1>1, <1>2, <2>3, <2>4
  <2>. QED
    BY <2>5, <2>6 DEF Reaches
<1>8. CASE FailList
  <2>1. CASE list.kind = "first"
    <3>1. list'.kind = "failed"
      BY <1>8, <2>1 DEF FailList, NoList
    <3>. QED
      BY <3>1 DEF Reaches
  <2>2. CASE list.kind = "older"
    <3>1. list'.kind = "none" /\ UNCHANGED <<items, cursor>>
      BY <1>8, <2>2 DEF FailList, NoList
    <3>2. Reaches
      BY <1>8 DEF FailList, Following, feedVars
    <3>3. \A m \in Messages : m >= cursor' /\ rows'[m] # 0 => items'[m] # 0 \/ said(m)'
      BY <1>1, <1>2, <2>2, <3>1, <3>2 DEF Reaches
    <3>. QED
      BY <3>1, <3>3 DEF Reaches
  <2>. QED
    BY <1>8, <2>1, <2>2 DEF FailList
<1>. QED
  BY <1>4, <1>5, <1>6, <1>7, <1>8

LEMMA ReachRequest ==
  ASSUME TypeOK, News, Following => Reaches, RequestNext
  PROVE  Following' => Reaches'
<1>1. ASSUME UNCHANGED <<feedVars, pageVars>> PROVE Following' => Reaches'
  BY <1>1, FeedSame, ReachSame DEF feedVars, pageVars
<1>2. CASE StartSend \/ SendAnswered
  BY <1>1, <1>2 DEF StartSend, Start, SendAnswered
<1>3. ASSUME NEW m \in Messages, StartEdit(m) \/ StartDelete(m) PROVE Following' => Reaches'
  BY <1>1, <1>3 DEF StartEdit, StartDelete, Start
<1>4. ASSUME NEW op \in Ops, GiveUp(op) PROVE Following' => Reaches'
  BY <1>1, <1>4 DEF GiveUp
<1>5. ASSUME NEW op \in Ops, NEW m \in Messages, Serve(op, m) PROVE Following' => Reaches'
  BY <1>5, WriteHappens, ReachWrote DEF Serve
<1>6. ASSUME UNCHANGED feedVars PROVE \A m \in Messages : Announced(m) => Announced(m)'
  BY <1>6, FeedSame DEF Announced
<1>7. CASE EditAnswered
  <2>1. req["edit"].event.version # 0
    BY <1>7 DEF EditAnswered, Answered, News
  <2>2. \A m \in Messages : items[m] # 0 => items'[m] # 0
    BY <1>7, <2>1 DEF EditAnswered, TypeOK, Timeline
  <2>3. UNCHANGED <<feed, rows, ready, reload, cursor, list, live>>
    BY <1>7 DEF EditAnswered, feedVars
  <2>4. Following' => Following
    BY <2>3 DEF Following
  <2>. QED
    BY <1>6, <1>7, <2>2, <2>3, <2>4, ReachKept DEF EditAnswered
<1>8. CASE DeleteAnswered
  <2>1. rows[req["delete"].id] = 0
    BY <1>8 DEF DeleteAnswered, Answered, News, True, Gone
  <2>2. \A m \in Messages : rows[m] # 0 /\ items[m] # 0 => items'[m] # 0
    BY <1>8, <2>1 DEF DeleteAnswered, TypeOK, Timeline
  <2>3. UNCHANGED <<feed, rows, ready, reload, cursor, list, live>>
    BY <1>8 DEF DeleteAnswered, feedVars
  <2>4. Following' => Following
    BY <2>3 DEF Following
  <2>. QED
    BY <1>6, <1>8, <2>2, <2>3, <2>4, ReachKept DEF DeleteAnswered
<1>. QED
  BY <1>2, <1>3, <1>4, <1>5, <1>7, <1>8 DEF RequestNext

LEMMA NextReach ==
  ASSUME TypeOK, News, Listing, Following => Reaches, [Next]_vars
  PROVE  Following' => Reaches'
<1>1. CASE ReceiveReady \/ Retry \/ Disconnect \/ ServerRestart \/ Remount
  BY <1>1 DEF ReceiveReady, Retry, Disconnect, ServerRestart, Remount, Following
<1>2. CASE ReceiveEvent
  BY <1>2, ReachReceive
<1>3. CASE LoadFirst \/ LoadOlder \/ AnswerList \/ ShowPage \/ FailList
  BY <1>3, ReachHistory
<1>4. CASE ShowSent
  <2>1. UNCHANGED <<feedVars, ready, reload, cursor, list, live>> /\ InFlight' = InFlight
    BY <1>4, FeedSame DEF ShowSent
  <2>2. (\A m \in Messages : Announced(m) => Announced(m)') /\ (Following' => Following)
    BY <2>1 DEF Announced, Following, feedVars
  <2>3. \A m \in Messages : items[m] # 0 => items'[m] # 0
    BY <1>4 DEF ShowSent, Merge
  <2>. QED
    BY <2>1, <2>2, <2>3, ReachKept DEF feedVars
<1>5. CASE RequestNext
  BY <1>5, ReachRequest
<1>6. ASSUME NEW m \in Messages, WriteElsewhere(m) PROVE Following' => Reaches'
  BY <1>6, WriteHappens, ReachWrote DEF WriteElsewhere
<1>7. ASSUME NEW event, Publish(event) PROVE Following' => Reaches'
  <2>1. CASE feed' = "open"
    <3>1. InFlight \subseteq InFlight' /\ feed = "open"
      BY <1>7, <2>1, PublishInFlight DEF Publish, PublishMessage
    <3>. QED
      BY <1>7, <2>1, <3>1, ReachSame DEF Publish, PublishMessage, pageVars
  <2>. QED
    BY <2>1 DEF Following
<1>8. CASE Connect
  BY <1>8 DEF Connect, SubscribeMessages, Listing, Following, pageVars
<1>9. CASE Deliver
  BY <1>9, DeliverInFlight, ReachSame DEF Deliver, WriteEvent, pageVars
<1>10. CASE UNCHANGED vars
  BY <1>10, FeedSame, ReachSame DEF vars, feedVars, pageVars
<1>. QED
  BY <1>1, <1>2, <1>3, <1>4, <1>5, <1>6, <1>7, <1>8, <1>9, <1>10 DEF Next, PageNext, FeedNext

-----------------------------------------------------------------------------
(* Any conversation.                                                       *)

\* PageInv, in every state of the conversation: types, deletions that are true
\* for good, and what a connected page has been told of.
THEOREM Invariant == Spec => []PageInv
<1>1. Init => PageInv
  BY InitType, InitNews, InitReach DEF PageInv
<1>2. PageInv /\ [Next]_vars => PageInv'
  BY NextType, NextNews, NextListing, NextReach DEF PageInv
<1>. QED
  BY <1>1, <1>2, PTL DEF Spec

\* TypeOK: the rows, events and frames of the server, the page's timelines and
\* its requests keep their types.
THEOREM TypeCorrect == Spec => []TypeOK
BY Invariant, PTL DEF PageInv

\* NothingMissing: however writes, publications, answers and reconnections
\* interleave, no message that exists is absent from a connected page that
\* reaches back to it, unless its event is on its way (Conversation.jsx 86-98,
\* 131-137, 261-262, 270-281).
THEOREM NoneMissing == Spec => []NothingMissing
<1>1. PageInv => NothingMissing
  <2>. SUFFICES ASSUME PageInv, Settled, NEW m \in Messages, m >= cursor, rows[m] # 0,
                       ~UnderWay(m, Versions \ {0})
                PROVE  Shown(m) # 0
    BY DEF NothingMissing
  <2>1. Following /\ list.kind \in {"none", "older"}
    BY DEF Settled, Following, PageInv, TypeOK, List
  <2>2. ~Announced(m)
    <3>1. \A event \in InFlight : event # Ready => event \in Event
      BY DEF PageInv, News, True
    <3>2. \A event \in Event : event.version \in Versions
      BY DEF Event
    <3>. QED
      BY <3>1, <3>2 DEF Announced, InFlight, UnderWay
  <2>3. items[m] # 0
    BY <2>1, <2>2 DEF PageInv, Reaches
  <2>4. m \notin deleted
    BY DEF PageInv, News, Gone
  <2>. QED
    BY <2>3, <2>4 DEF Shown
<1>. QED
  BY <1>1, Invariant, PTL

-----------------------------------------------------------------------------
(* The stream a subscriber is to receive: what is on the wire, then what is *)
(* in the channel.                                                          *)

\* The next frame comes off the front.
LEMMA TailConcat ==
  ASSUME NEW S, NEW s \in Seq(S), NEW t \in Seq(S), s # <<>>
  PROVE  s \o t # <<>> /\ Tail(s) \o t = Tail(s \o t)
<1>1. s \o t \in Seq(S) /\ Len(s \o t) = Len(s) + Len(t) /\ Len(s) \in Nat \ {0} /\ Len(t) \in Nat
  BY ConcatProperties, EmptySeq, LenProperties
<1>2. s \o t # <<>>
  BY <1>1, EmptySeq
<1>. DEFINE rest == Tail(s)
            whole == s \o t
<1>3. rest \in Seq(S) /\ Len(rest) = Len(s) - 1 /\ \A i \in 1..Len(rest) : rest[i] = s[i + 1]
  BY HeadTailProperties
<1>4. \A i \in 1..Len(whole) : whole[i] = IF i <= Len(s) THEN s[i] ELSE t[i - Len(s)]
  BY <1>1, ConcatProperties
<1>5. /\ Tail(whole) \in Seq(S) /\ Len(Tail(whole)) = Len(whole) - 1
      /\ \A i \in 1..Len(Tail(whole)) : Tail(whole)[i] = whole[i + 1]
  BY <1>1, <1>2, HeadTailProperties
<1>6. /\ rest \o t \in Seq(S) /\ Len(rest \o t) = Len(rest) + Len(t)
      /\ \A i \in 1..Len(rest) + Len(t) :
             (rest \o t)[i] = IF i <= Len(rest) THEN rest[i] ELSE t[i - Len(rest)]
  BY <1>3, ConcatProperties
<1>. HIDE DEF rest, whole
<1>7. Len(rest \o t) = Len(Tail(whole))
  BY <1>1, <1>3, <1>5, <1>6 DEF whole
<1>8. ASSUME NEW i \in 1..Len(rest \o t)
      PROVE  (rest \o t)[i] = Tail(whole)[i]
  <2>1. i \in Nat /\ i >= 1 /\ i <= Len(s) - 1 + Len(t) /\ Len(whole) = Len(s) + Len(t)
    BY <1>1, <1>3, <1>6 DEF whole
  <2>2. Tail(whole)[i] = whole[i + 1] /\ i + 1 \in 1..Len(whole)
    BY <1>1, <1>5, <2>1
  <2>3. CASE i <= Len(s) - 1
    <3>1. whole[i + 1] = s[i + 1]
      BY <1>1, <1>4, <2>1, <2>2, <2>3
    <3>2. (rest \o t)[i] = rest[i] /\ rest[i] = s[i + 1]
      BY <1>1, <1>3, <1>6, <2>1, <2>3
    <3>. QED
      BY <2>2, <3>1, <3>2
  <2>4. CASE i > Len(s) - 1
    <3>1. whole[i + 1] = t[i + 1 - Len(s)]
      BY <1>1, <1>4, <2>1, <2>2, <2>4
    <3>2. (rest \o t)[i] = t[i - (Len(s) - 1)]
      BY <1>1, <1>3, <1>6, <2>1, <2>4
    <3>3. i + 1 - Len(s) = i - (Len(s) - 1)
      BY <1>1, <2>1
    <3>. QED
      BY <2>2, <3>1, <3>2, <3>3
  <2>. QED
    BY <1>1, <2>1, <2>3, <2>4
<1>9. rest \o t = Tail(whole)
  BY <1>5, <1>6, <1>7, <1>8, SeqEqual
<1>. QED
  BY <1>2, <1>9 DEF rest, whole

\* What is published goes to the end.
LEMMA AppendConcat ==
  ASSUME NEW S, NEW s \in Seq(S), NEW t \in Seq(S), NEW e \in S
  PROVE  s \o Append(t, e) = Append(s \o t, e)
<1>1. <<e>> \in Seq(S) /\ s \o t \in Seq(S)
  BY ConcatProperties
<1>2. Append(t, e) = t \o <<e>> /\ Append(s \o t, e) = (s \o t) \o <<e>>
  BY <1>1, AppendIsConcat
<1>3. (s \o t) \o <<e>> = s \o (t \o <<e>>)
  BY <1>1, ConcatAssociative
<1>. QED
  BY <1>2, <1>3

\* A frame that is written moves from the channel to the wire.
LEMMA HeadConcat ==
  ASSUME NEW S, NEW s \in Seq(S), NEW t \in Seq(S), t # <<>>
  PROVE  Append(s, Head(t)) \o Tail(t) = s \o t
<1>1. Head(t) \in S /\ Tail(t) \in Seq(S) /\ Len(t) \in Nat \ {0}
  BY HeadTailProperties, EmptySeq
<1>2. <<Head(t)>> \in Seq(S)
  BY <1>1
<1>3. Append(s, Head(t)) = s \o <<Head(t)>>
  BY <1>1, AppendIsConcat
<1>4. (s \o <<Head(t)>>) \o Tail(t) = s \o (<<Head(t)>> \o Tail(t))
  BY <1>1, <1>2, ConcatAssociative
<1>5. <<Head(t)>> \o Tail(t) = t
  <2>. DEFINE u == <<Head(t)>> \o Tail(t)
  <2>1. /\ u \in Seq(S) /\ Len(u) = Len(t)
        /\ \A i \in 1..Len(t) : u[i] = IF i <= 1 THEN Head(t) ELSE Tail(t)[i - 1]
    <3>1. Len(<<Head(t)>>) = 1 /\ <<Head(t)>>[1] = Head(t) /\ Len(Tail(t)) = Len(t) - 1
      BY <1>1, HeadTailProperties
    <3>2. /\ u \in Seq(S) /\ Len(u) = 1 + (Len(t) - 1)
          /\ \A i \in 1..1 + (Len(t) - 1) : u[i] = IF i <= 1 THEN <<Head(t)>>[i] ELSE Tail(t)[i - 1]
      BY <1>1, <1>2, <3>1, ConcatProperties
    <3>3. 1 + (Len(t) - 1) = Len(t)
      BY <1>1
    <3>. HIDE DEF u
    <3>4. \A i \in 1..Len(t) : i <= 1 => i = 1
      BY <1>1
    <3>. QED
      BY <3>1, <3>2, <3>3, <3>4
  <2>2. Head(t) = t[1] /\ \A i \in 1..Len(t) : i = 1 \/ (i > 1 /\ Tail(t)[i - 1] = t[i])
    <3>1. \A i \in DOMAIN t : i = 1 \/ Tail(t)[i - 1] = t[i]
      BY Shifted
    <3>2. DOMAIN t = 1..Len(t) /\ Head(t) = t[1]
      BY LenProperties, Shifted
    <3>. QED
      BY <1>1, <3>1, <3>2
  <2>. HIDE DEF u
  <2>3. \A i \in 1..Len(u) : u[i] = t[i]
    BY <1>1, <2>1, <2>2
  <2>4. u = t
    BY <2>1, <2>3, SeqEqual
  <2>. QED
    BY <2>4 DEF u
<1>. QED
  BY <1>3, <1>4, <1>5

LEMMA WroteStream ==
  ASSUME NEW m, NEW event, Wrote(m, event)
  PROVE  Stream!Next
BY DEF Wrote, Stream!Next, Stream!Write

LEMMA PublishStream ==
  ASSUME TypeOK, NEW event, PublishMessage(event)
  PROVE  Stream!Next
<1>1. event \in outbox /\ event \in Event /\ outbox' = outbox \ {event} /\ UNCHANGED <<rows, wire>>
  BY DEF PublishMessage, TypeOK, FeedTypeOK
<1>2. Stream!Publish(event)
  BY <1>1 DEF Stream!Publish
<1>3. CASE feed = "open" /\ Len(channel) < Buffer
  <2>1. channel' = Append(channel, event) /\ UNCHANGED feed
    BY <1>3 DEF PublishMessage
  <2>2. wire \in Seq(Event \cup {Ready}) /\ channel \in Seq(Event \cup {Ready})
    BY SeqMonotonic DEF TypeOK, FeedTypeOK
  <2>3. wire' \o channel' = Append(wire \o channel, event)
    BY <1>1, <2>1, <2>2, AppendConcat
  <2>. QED
    BY <1>1, <1>2, <1>3, <2>1, <2>3 DEF Stream!Next, Stream!Bring
<1>4. CASE ~(feed = "open" /\ Len(channel) < Buffer)
  <2>1. feed' = (IF feed = "open" THEN "cut" ELSE feed) /\ UNCHANGED <<wire, channel>>
    BY <1>1, <1>4 DEF PublishMessage
  <2>. QED
    BY <1>1, <1>2, <2>1 DEF Stream!Next, Stream!BreakOff
<1>. QED
  BY <1>3, <1>4

LEMMA ArrivedStream ==
  ASSUME TypeOK, Arrived
  PROVE  Stream!Next
<1>1. wire \in Seq(Event \cup {Ready}) /\ channel \in Seq(Event \cup {Ready})
  BY SeqMonotonic DEF TypeOK, FeedTypeOK
<1>2. wire \o channel # <<>> /\ wire' \o channel' = Tail(wire \o channel)
  BY <1>1, TailConcat DEF Arrived
<1>. QED
  BY <1>2 DEF Arrived, Stream!Next, Stream!Receive

LEMMA DeliverStream ==
  ASSUME TypeOK, WriteEvent
  PROVE  UNCHANGED Stream!vars
<1>1. wire \in Seq(Event \cup {Ready}) /\ channel \in Seq(Event \cup {Ready})
  BY SeqMonotonic DEF TypeOK, FeedTypeOK
<1>2. wire' \o channel' = wire \o channel
  BY <1>1, HeadConcat DEF WriteEvent
<1>. QED
  BY <1>2 DEF WriteEvent, Stream!vars

\* The ends of a connection, and its beginning.
LEMMA ConnectionStream ==
  ASSUME SubscribeMessages \/ Unsubscribe \/ Restart
  PROVE  Stream!Next
<1>1. <<Ready>> \o <<>> = <<Ready>> /\ <<>> \o <<>> = <<>>
  <2>1. <<Ready>> \in Seq({Ready}) /\ <<>> \in Seq({Ready})
    OBVIOUS
  <2>. QED
    BY <2>1, ConcatEmptySeq
<1>2. CASE SubscribeMessages
  <2>1. wire' \o channel' = <<Ready>>
    BY <1>1, <1>2 DEF SubscribeMessages
  <2>. QED
    BY <1>2, <2>1 DEF SubscribeMessages, Stream!Next, Stream!Subscribe
<1>3. CASE Unsubscribe \/ Restart
  <2>1. wire' \o channel' = <<>>
    BY <1>1, <1>3 DEF Unsubscribe, Restart
  <2>. QED
    BY <1>3, <2>1 DEF Unsubscribe, Restart, Stream!Next, Stream!End, Stream!Restart
<1>. QED
  BY <1>2, <1>3

LEMMA NextStream ==
  ASSUME TypeOK, News, [Next]_vars
  PROVE  [Stream!Next]_(Stream!vars)
<1>1. CASE UNCHANGED feedVars
  BY <1>1 DEF feedVars, Stream!vars
<1>2. ASSUME NEW m \in Messages, WriteElsewhere(m) \/ (\E op \in Ops : Serve(op, m)) PROVE Stream!Next
  BY <1>2, WriteHappens, WroteStream
<1>3. ASSUME NEW event, Publish(event) PROVE Stream!Next
  BY <1>3, PublishStream DEF Publish
<1>4. CASE Connect \/ Disconnect \/ ServerRestart \/ Remount
  BY <1>4, ConnectionStream DEF Connect, Disconnect, ServerRestart, Remount
<1>5. CASE Deliver
  BY <1>5, DeliverStream DEF Deliver
<1>6. CASE ReceiveReady \/ ReceiveEvent
  BY <1>6, ReceiveArrives, ArrivedStream
<1>7. CASE LoadFirst \/ LoadOlder \/ AnswerList \/ ShowPage \/ FailList \/ Retry \/ ShowSent
  BY <1>1, <1>7 DEF LoadFirst, LoadOlder, AnswerList, ShowPage, FailList, Retry, ShowSent
<1>8. CASE StartSend \/ SendAnswered \/ EditAnswered \/ DeleteAnswered
  BY <1>1, <1>8 DEF StartSend, Start, SendAnswered, EditAnswered, DeleteAnswered
<1>9. ASSUME NEW m \in Messages, StartEdit(m) \/ StartDelete(m) PROVE UNCHANGED feedVars
  BY <1>9 DEF StartEdit, StartDelete, Start
<1>10. ASSUME NEW op \in Ops, GiveUp(op) PROVE UNCHANGED feedVars
  BY <1>10 DEF GiveUp
<1>11. CASE UNCHANGED vars
  BY <1>1, <1>11 DEF vars
<1>. QED
  BY <1>1, <1>2, <1>3, <1>4, <1>5, <1>6, <1>7, <1>8, <1>9, <1>10, <1>11
     DEF Next, PageNext, RequestNext, FeedNext

\* ImplementsStream: neither the broker's bounded channel, nor the frames of a
\* connection that blocks, nor a restart makes a subscriber miss an event and
\* hear the next: what is left for it, in the channel and on the wire, is a
\* gapless stream of what was published, in that order, until it breaks off;
\* for any sizes of the channel and of the wire, and without pacing
\* (message_events.go 15-45, message_socket.go 73-112).
THEOREM Refinement == Spec => ImplementsStream
<1>1. Init => Stream!Init
  <2>1. <<>> \o <<>> = <<>>
    <3>1. <<>> \in Seq({Ready})
      OBVIOUS
    <3>. QED
      BY <3>1, ConcatEmptySeq
  <2>. QED
    BY <2>1 DEF Init, FeedInit, Stream!Init
<1>2. PageInv /\ [Next]_vars => [Stream!Next]_(Stream!vars)
  BY NextStream DEF PageInv
<1>. QED
  BY <1>1, <1>2, Invariant, PTL DEF Spec, ImplementsStream, Stream!Spec

-----------------------------------------------------------------------------
(* Paced writes.                                                           *)

LEMMA ToldSame ==
  ASSUME UNCHANGED rows, InFlight \subseteq InFlight'
  PROVE  \A m : Told(m) => Told(m)'
BY DEF Told

LEMMA ToldWrote ==
  ASSUME TypeOK, NEW m \in Messages, NEW event, Wrote(m, event)
  PROVE  Told(m)' /\ \A k \in Messages : Told(k) => Told(k)'
<1>1. InFlight' = InFlight \cup {event} /\ event \in Event /\ event.id = m
  BY WroteInFlight DEF Wrote
<1>2. \A k \in Messages : rows'[k] = IF k = m THEN event.version ELSE rows[k]
  BY WroteElse
<1>3. Told(m)'
  BY <1>1, <1>2, ReadyIsNoEvent DEF Told
<1>4. ASSUME NEW k \in Messages, k # m, Told(k) PROVE Told(k)'
  BY <1>1, <1>2, <1>4 DEF Told
<1>. QED
  BY <1>3, <1>4

\* Whatever is said of a message on an open connection, the present follows.
LEMMA OpenTold ==
  ASSUME TypeOK, LastWrites, InOrder, NEW event \in InFlight, event # Ready
  PROVE  Told(event.id)
<1>1. outbox \subseteq InFlight /\ Ready \notin outbox
  BY ReadyIsNoEvent DEF InFlight, TypeOK, FeedTypeOK
<1>2. \A i \in DOMAIN channel : channel[i] \in InFlight
  BY DEF InFlight
<1>3. \A i \in DOMAIN wire : wire[i] \in InFlight
  BY DEF InFlight
<1>4. ASSUME NEW x \in InFlight, Says(x, event.id) PROVE Told(event.id)
  BY <1>4 DEF Says, Told
<1>5. ASSUME NEW x \in outbox, x.id = event.id PROVE Told(event.id)
  BY <1>1, <1>5 DEF LastWrites, Told
<1>6. CASE event \in outbox
  BY <1>5, <1>6
<1>7. ASSUME NEW i \in DOMAIN channel, event = channel[i] PROVE Told(event.id)
  BY <1>2, <1>4, <1>5, <1>7 DEF InOrder
<1>8. ASSUME NEW i \in DOMAIN wire, event = wire[i] PROVE Told(event.id)
  BY <1>2, <1>3, <1>4, <1>5, <1>8 DEF InOrder
<1>. QED
  BY <1>6, <1>7, <1>8 DEF InFlight

LEMMA LastSame ==
  ASSUME LastWrites, UNCHANGED rows, outbox' \subseteq outbox,
         \A op \in Ops : req'[op].stage = "committed" =>
             req[op].stage = "committed" /\ req'[op].event = req[op].event /\ req'[op].id = req[op].id
  PROVE  LastWrites'
BY DEF LastWrites

LEMMA LastWrote ==
  ASSUME TypeOK, News, LastWrites, NEW m \in Messages, NEW event, Wrote(m, event), Calm(m),
         \A op \in Ops : req'[op].stage = "committed" =>
             \/ req'[op] = req[op]
             \/ req'[op].id = m /\ req'[op].event.version = event.version
  PROVE  LastWrites'
<1>1. \A k \in Messages : rows'[k] = IF k = m THEN event.version ELSE rows[k]
  BY WroteElse
<1>2. outbox' = outbox \cup {event} /\ event.id = m /\ \A x \in outbox : x.id # m /\ x.id \in Messages
  BY DEF Wrote, Calm, TypeOK, FeedTypeOK, Event
<1>3. \A x \in outbox' : x.version = rows'[x.id]
  BY <1>1, <1>2 DEF LastWrites
<1>4. ASSUME NEW op \in Ops, req'[op].stage = "committed"
      PROVE  req'[op].event.version = rows'[req'[op].id]
  <2>1. CASE req'[op] = req[op]
    <3>1. req[op].id \in Messages /\ req[op].id # m
      BY <1>4, <2>1 DEF News, True, Event, Calm
    <3>. QED
      BY <1>1, <1>4, <2>1, <3>1 DEF LastWrites
  <2>2. CASE req'[op].id = m /\ req'[op].event.version = event.version
    BY <1>1, <2>2
  <2>. QED
    BY <1>4, <2>1, <2>2
<1>. QED
  BY <1>3, <1>4 DEF LastWrites

LEMMA NextLast ==
  ASSUME TypeOK, News, LastWrites, Paced, [Next]_vars
  PROVE  LastWrites'
<1>1. req \in [Ops -> Request] /\ NoRequest.stage = "idle"
  BY DEF TypeOK, NoRequest
<1>2. CASE UNCHANGED <<rows, outbox, req>>
  BY <1>2, LastSame
<1>3. ASSUME NEW m \in Messages, WriteElsewhere(m) PROVE LastWrites'
  <2>1. PICK event : Wrote(m, event)
    BY <1>3, WriteHappens
  <2>2. Calm(m) /\ UNCHANGED req
    BY <1>3 DEF WriteElsewhere
  <2>. QED
    BY <2>1, <2>2, LastWrote
<1>4. ASSUME NEW op \in Ops, NEW m \in Messages, Serve(op, m) PROVE LastWrites'
  <2>1. PICK event, told :
            /\ Wrote(m, event) /\ told.version = event.version
            /\ req' = [req EXCEPT ![op] = [stage |-> "committed", id |-> m, event |-> told,
                                           mounted |-> req[op].mounted]]
    BY <1>4, ServeWrites
  <2>2. Calm(m)
    BY <1>4 DEF Serve
  <2>3. \A o \in Ops : \/ req'[o] = req[o]
                       \/ req'[o].id = m /\ req'[o].event.version = event.version
    BY <1>1, <2>1
  <2>. QED
    BY <2>1, <2>2, <2>3, LastWrote
<1>5. ASSUME NEW op, NEW m, Start(op, m) PROVE LastWrites'
  <2>1. [NoRequest EXCEPT !.stage = "sent", !.id = m].stage = "sent"
    BY DEF NoRequest
  <2>2. \A o \in Ops : req'[o].stage = "committed" => req'[o] = req[o]
    BY <1>1, <1>5, <2>1 DEF Start
  <2>. QED
    BY <1>5, <2>2, LastSame DEF Start, feedVars
<1>6. ASSUME NEW op, Answered(op) \/ GiveUp(op), UNCHANGED <<rows, outbox>> PROVE LastWrites'
  <2>1. \A o \in Ops : req'[o].stage = "committed" => req'[o] = req[o]
    BY <1>1, <1>6 DEF Answered, GiveUp
  <2>. QED
    BY <1>6, <2>1, LastSame
<1>7. CASE SendAnswered \/ EditAnswered \/ DeleteAnswered
  BY <1>6, <1>7 DEF SendAnswered, EditAnswered, DeleteAnswered, feedVars
<1>11. CASE ServerRestart
  <2>1. \A o \in Ops : req'[o].stage = "committed" => req'[o] = req[o]
    BY <1>1, <1>11 DEF ServerRestart
  <2>. QED
    BY <1>11, <2>1, LastSame DEF ServerRestart, Restart
<1>12. CASE Remount
  <2>1. \A o \in Ops :
            req'[o].stage = req[o].stage /\ req'[o].event = req[o].event /\ req'[o].id = req[o].id
    BY <1>12, RemountKeepsRequests
  <2>. QED
    BY <1>12, <2>1, LastSame DEF Remount, Unsubscribe
<1>13. ASSUME NEW event, Publish(event) PROVE LastWrites'
  BY <1>13, LastSame DEF Publish, PublishMessage
<1>14. CASE PageNext /\ ~Remount
  BY <1>2, <1>14 DEF PageNext, ReceiveReady, ReceiveEvent, LoadFirst, LoadOlder, AnswerList, ShowPage,
     FailList, Retry, ShowSent, feedVars
<1>15. CASE Connect \/ Deliver \/ Disconnect \/ UNCHANGED vars
  BY <1>2, <1>15 DEF Connect, Deliver, Disconnect, SubscribeMessages, WriteEvent, Unsubscribe, vars,
     feedVars
<1>. QED
  BY <1>3, <1>4, <1>5, <1>6, <1>7, <1>11, <1>12, <1>13, <1>14, <1>15
     DEF Next, RequestNext, FeedNext, StartSend, StartEdit, StartDelete, GiveUp, feedVars

(* Events stay in order on an open connection.                             *)

LEMMA OrderSame ==
  ASSUME InOrder, UNCHANGED <<channel, wire, outbox, rows>>
  PROVE  InOrder'
BY DEF InOrder, Says

LEMMA OrderWrote ==
  ASSUME TypeOK, InOrder, NEW m \in Messages, NEW event, Wrote(m, event)
  PROVE  InOrder'
<1>1. /\ channel \in Seq(Event) /\ wire \in Seq(Event \cup {Ready})
      /\ UNCHANGED <<channel, wire>> /\ outbox' = outbox \cup {event} /\ event.id = m
  BY DEF TypeOK, FeedTypeOK, Wrote
<1>2. \A k \in Messages : rows'[k] = IF k = m THEN event.version ELSE rows[k]
  BY WroteElse
<1>3. \A x, k : k \in Messages /\ k # m /\ Says(x, k) => Says(x, k)'
  BY <1>2 DEF Says
<1>4. ASSUME NEW i \in DOMAIN channel
      PROVE  \/ \E j \in DOMAIN channel : j >= i /\ Says(channel[j], channel[i].id)'
             \/ \E x \in outbox' : x.id = channel[i].id
  <2>1. channel[i].id \in Messages
    <3>1. channel[i] \in Event
      BY <1>1
    <3>. QED
      BY <3>1 DEF Event
  <2>2. CASE channel[i].id = m
    BY <1>1, <2>2
  <2>3. CASE channel[i].id # m
    BY <1>1, <1>3, <2>1, <2>3 DEF InOrder
  <2>. QED
    BY <2>2, <2>3
<1>5. ASSUME NEW i \in DOMAIN wire, wire[i] # Ready
      PROVE  \/ \E j \in DOMAIN wire : j >= i /\ Says(wire[j], wire[i].id)'
             \/ \E j \in DOMAIN channel : Says(channel[j], wire[i].id)'
             \/ \E x \in outbox' : x.id = wire[i].id
  <2>1. wire[i].id \in Messages
    <3>1. wire[i] \in Event
      BY <1>1, <1>5
    <3>. QED
      BY <3>1 DEF Event
  <2>2. CASE wire[i].id = m
    BY <1>1, <2>2
  <2>3. CASE wire[i].id # m
    BY <1>1, <1>3, <1>5, <2>1, <2>3 DEF InOrder
  <2>. QED
    BY <2>2, <2>3
<1>. QED
  BY <1>1, <1>4, <1>5 DEF InOrder, Says

LEMMA OrderPublished ==
  ASSUME TypeOK, LastWrites, InOrder, NEW event, PublishMessage(event), feed' = "open"
  PROVE  InOrder'
<1>1. /\ channel \in Seq(Event) /\ Len(channel) \in Nat /\ channel' = Append(channel, event)
      /\ outbox' = outbox \ {event} /\ event \in outbox /\ event \in Event /\ event # Ready
      /\ UNCHANGED <<wire, rows>>
  BY ReadyIsNoEvent DEF TypeOK, FeedTypeOK, PublishMessage
<1>. DEFINE last == Len(channel) + 1
<1>2. /\ last \in DOMAIN channel' /\ channel'[last] = event
      /\ \A i \in DOMAIN channel : i \in DOMAIN channel' /\ channel'[i] = channel[i]
      /\ \A i \in DOMAIN channel' : i \in Nat /\ i <= last /\ (i = last \/ i \in DOMAIN channel)
  BY <1>1
<1>3. Says(event, event.id)'
  BY <1>1 DEF Says, LastWrites
<1>4. \A x, k : Says(x, k)' <=> Says(x, k)
  BY <1>1 DEF Says
<1>. HIDE DEF last
<1>5. ASSUME NEW i \in DOMAIN channel'
      PROVE  \/ \E j \in DOMAIN channel' : j >= i /\ Says(channel'[j], channel'[i].id)
             \/ \E x \in outbox' : x.id = channel'[i].id
  <2>1. CASE channel'[i].id = event.id
    <3>1. last >= i
      BY <1>2
    <3>2. Says(channel'[last], channel'[i].id)
      BY <1>2, <1>3, <1>4, <2>1
    <3>. QED
      BY <1>2, <3>1, <3>2
  <2>2. CASE channel'[i].id # event.id
    <3>1. i \in DOMAIN channel /\ channel'[i] = channel[i]
      BY <1>2, <2>2
    <3>. QED
      BY <1>1, <1>2, <2>2, <3>1 DEF InOrder
  <2>. QED
    BY <2>1, <2>2
<1>6. ASSUME NEW i \in DOMAIN wire, wire[i] # Ready
      PROVE  \/ \E j \in DOMAIN wire : j >= i /\ Says(wire[j], wire[i].id)
             \/ \E j \in DOMAIN channel' : Says(channel'[j], wire[i].id)
             \/ \E x \in outbox' : x.id = wire[i].id
  <2>1. CASE wire[i].id = event.id
    BY <1>2, <1>3, <1>4, <2>1
  <2>2. CASE wire[i].id # event.id
    BY <1>1, <1>2, <1>6, <2>2 DEF InOrder
  <2>. QED
    BY <2>1, <2>2
<1>. QED
  BY <1>1, <1>5, <1>6 DEF InOrder, Says

LEMMA OrderDelivered ==
  ASSUME TypeOK, InOrder, WriteEvent
  PROVE  InOrder'
<1>1. /\ channel \in Seq(Event) /\ channel # <<>> /\ wire \in Seq(Event \cup {Ready})
      /\ Len(wire) \in Nat /\ UNCHANGED <<rows, outbox>>
      /\ wire' = Append(wire, Head(channel)) /\ channel' = Tail(channel)
  BY DEF TypeOK, FeedTypeOK, WriteEvent
<1>2. /\ Head(channel) = channel[1] /\ 1 \in DOMAIN channel
      /\ \A i \in DOMAIN channel' : i + 1 \in DOMAIN channel /\ channel'[i] = channel[i + 1]
      /\ \A i \in DOMAIN channel : i = 1 \/ (i - 1 \in DOMAIN channel' /\ channel'[i - 1] = channel[i])
      /\ \A i \in DOMAIN channel : i \in Nat /\ i >= 1
  BY <1>1, Shifted
<1>. DEFINE last == Len(wire) + 1
<1>3. /\ \A i \in DOMAIN wire : i \in DOMAIN wire' /\ wire'[i] = wire[i] /\ i \in Nat /\ last >= i
      /\ \A i \in DOMAIN wire' : i = last \/ i \in DOMAIN wire
      /\ last \in DOMAIN wire' /\ wire'[last] = channel[1] /\ last \in Nat
  BY <1>1, <1>2
<1>. HIDE DEF last
<1>4. channel' \in Seq(Event)
  BY <1>1
<1>5. ASSUME NEW i \in DOMAIN channel'
      PROVE  \/ \E j \in DOMAIN channel' : j >= i /\ Says(channel'[j], channel'[i].id)
             \/ \E x \in outbox' : x.id = channel'[i].id
  <2>1. i \in Nat /\ i + 1 \in DOMAIN channel /\ channel'[i] = channel[i + 1]
    BY <1>2, <1>4
  <2>2. CASE \E x \in outbox : x.id = channel[i + 1].id
    BY <1>1, <2>1, <2>2
  <2>3. ASSUME NEW j \in DOMAIN channel, j >= i + 1, Says(channel[j], channel[i + 1].id)
        PROVE  \E l \in DOMAIN channel' : l >= i /\ Says(channel'[l], channel'[i].id)
    <3>1. j # 1 /\ j - 1 >= i
      BY <1>2, <1>4, <2>1, <2>3
    <3>. QED
      BY <1>2, <2>1, <2>3, <3>1
  <2>. QED
    BY <2>1, <2>2, <2>3 DEF InOrder
<1>6. ASSUME NEW k, NEW j \in DOMAIN channel, Says(channel[j], k)
      PROVE  Says(wire'[last], k) \/ (\E l \in DOMAIN channel' : Says(channel'[l], k))
  BY <1>2, <1>3, <1>6
<1>7. ASSUME NEW i \in DOMAIN wire', wire'[i] # Ready
      PROVE  \/ \E j \in DOMAIN wire' : j >= i /\ Says(wire'[j], wire'[i].id)
             \/ \E j \in DOMAIN channel' : Says(channel'[j], wire'[i].id)
             \/ \E x \in outbox' : x.id = wire'[i].id
  <2>1. last >= i
    BY <1>3
  <2>2. CASE i = last
    <3>1. \/ \E j \in DOMAIN channel : Says(channel[j], wire'[i].id)
          \/ \E x \in outbox : x.id = wire'[i].id
      BY <1>2, <1>3, <2>2 DEF InOrder
    <3>. QED
      BY <1>1, <1>3, <1>6, <2>1, <3>1
  <2>3. CASE i \in DOMAIN wire
    <3>1. \/ \E j \in DOMAIN wire : j >= i /\ Says(wire[j], wire[i].id)
          \/ \E j \in DOMAIN channel : Says(channel[j], wire[i].id)
          \/ \E x \in outbox : x.id = wire[i].id
      BY <1>3, <1>7, <2>3 DEF InOrder
    <3>2. wire'[i] = wire[i]
      BY <1>3, <2>3
    <3>. QED
      BY <1>1, <1>3, <1>6, <2>1, <3>1, <3>2
  <2>. QED
    BY <1>3, <2>2, <2>3
<1>8. UNCHANGED rows
  BY <1>1
<1>. QED
  BY <1>5, <1>7, <1>8 DEF InOrder, Says

LEMMA OrderArrived ==
  ASSUME TypeOK, InOrder, Arrived
  PROVE  InOrder'
<1>1. wire \in Seq(Event \cup {Ready}) /\ wire # <<>> /\ wire' = Tail(wire)
      /\ UNCHANGED <<rows, outbox, channel>>
  BY DEF TypeOK, FeedTypeOK, Arrived
<1>2. /\ 1 \in DOMAIN wire /\ wire' \in Seq(Event \cup {Ready})
      /\ \A i \in DOMAIN wire' : i + 1 \in DOMAIN wire /\ wire'[i] = wire[i + 1]
      /\ \A i \in DOMAIN wire : i = 1 \/ (i - 1 \in DOMAIN wire' /\ wire'[i - 1] = wire[i])
      /\ \A i \in DOMAIN wire : i \in Nat /\ i >= 1
  BY <1>1, Shifted
<1>3. ASSUME NEW i \in DOMAIN wire', wire'[i] # Ready
      PROVE  \/ \E j \in DOMAIN wire' : j >= i /\ Says(wire'[j], wire'[i].id)
             \/ \E j \in DOMAIN channel' : Says(channel'[j], wire'[i].id)
             \/ \E x \in outbox' : x.id = wire'[i].id
  <2>1. i \in Nat /\ i + 1 \in DOMAIN wire /\ wire'[i] = wire[i + 1]
    BY <1>2
  <2>2. ASSUME NEW j \in DOMAIN wire, j >= i + 1, Says(wire[j], wire[i + 1].id)
        PROVE  \E l \in DOMAIN wire' : l >= i /\ Says(wire'[l], wire'[i].id)
    <3>1. j # 1 /\ j - 1 >= i
      BY <1>2, <2>1, <2>2
    <3>. QED
      BY <1>2, <2>1, <2>2, <3>1
  <2>3. CASE (\E j \in DOMAIN channel : Says(channel[j], wire[i + 1].id))
             \/ (\E x \in outbox : x.id = wire[i + 1].id)
    BY <1>1, <2>1, <2>3
  <2>. QED
    BY <1>3, <2>1, <2>2, <2>3 DEF InOrder
<1>4. \A i \in DOMAIN channel' : \/ \E j \in DOMAIN channel' : j >= i /\ Says(channel'[j], channel'[i].id)
                                 \/ \E x \in outbox' : x.id = channel'[i].id
  BY <1>1 DEF InOrder
<1>. QED
  BY <1>1, <1>3, <1>4 DEF InOrder, Says

LEMMA NextOrder ==
  ASSUME TypeOK, News, LastWrites, feed = "open" => InOrder, [Next]_vars
  PROVE  feed' = "open" => InOrder'
<1>. SUFFICES ASSUME feed' = "open" PROVE InOrder'
  OBVIOUS
<1>1. CASE UNCHANGED feedVars
  BY <1>1, OrderSame DEF feedVars
<1>2. ASSUME NEW m \in Messages, WriteElsewhere(m) \/ (\E op \in Ops : Serve(op, m)) PROVE InOrder'
  <2>1. PICK event : Wrote(m, event)
    BY <1>2, WriteHappens
  <2>2. feed = "open"
    BY <2>1 DEF Wrote
  <2>. QED
    BY <2>1, <2>2, OrderWrote
<1>3. ASSUME NEW event, Publish(event) PROVE InOrder'
  BY <1>3, OrderPublished DEF Publish, PublishMessage
<1>4. CASE Connect
  <2>1. channel' = <<>> /\ wire' = <<Ready>>
    BY <1>4 DEF Connect, SubscribeMessages
  <2>2. DOMAIN channel' = {} /\ \A i \in DOMAIN wire' : wire'[i] = Ready
    BY <2>1
  <2>. QED
    BY <2>2 DEF InOrder
<1>5. CASE Deliver
  BY <1>5, OrderDelivered DEF Deliver, WriteEvent
<1>6. CASE ReceiveReady \/ ReceiveEvent
  BY <1>6, ReceiveArrives, OrderArrived DEF Arrived
<1>7. CASE Disconnect \/ ServerRestart \/ Remount
  BY <1>7, DownActions DEF Down
<1>8. CASE LoadFirst \/ LoadOlder \/ AnswerList \/ ShowPage \/ FailList \/ Retry \/ ShowSent
  BY <1>1, <1>8 DEF LoadFirst, LoadOlder, AnswerList, ShowPage, FailList, Retry, ShowSent
<1>9. CASE StartSend \/ SendAnswered \/ EditAnswered \/ DeleteAnswered
  BY <1>1, <1>9 DEF StartSend, Start, SendAnswered, EditAnswered, DeleteAnswered
<1>10. ASSUME NEW m \in Messages, StartEdit(m) \/ StartDelete(m) PROVE InOrder'
  BY <1>1, <1>10 DEF StartEdit, StartDelete, Start
<1>11. ASSUME NEW op \in Ops, GiveUp(op) PROVE InOrder'
  BY <1>1, <1>11 DEF GiveUp
<1>12. CASE UNCHANGED vars
  BY <1>1, <1>12 DEF vars
<1>. QED
  BY <1>2, <1>3, <1>4, <1>5, <1>6, <1>7, <1>8, <1>9, <1>10, <1>11, <1>12
     DEF Next, PageNext, RequestNext, FeedNext

(* What the timeline shows.                                                *)

\* Told(m), as it is or becomes, and what the page holds stays as it is.
LEMMA HoldsKept ==
  ASSUME NEW S \in SUBSET Messages, Holds(S), UNCHANGED <<cursor, list, items, live, edited, deleted>>,
         feed' = "open" /\ ready' => feed = "open" /\ ready, reload' = FALSE => reload = FALSE,
         TypeOK, reload' \in BOOLEAN,
         \A m \in Messages : feed' = "open" => Told(m)' \/ (rows'[m] = rows[m] /\ (Told(m) => Told(m)'))
  PROVE  Holds(S)'
<1>. DEFINE told(m) == Told(m)
<1>1. \A m \in Messages : feed' = "open" => told(m)' \/ (rows'[m] = rows[m] /\ (told(m) => told(m)'))
  OBVIOUS
<1>2. \A m : Shown(m)' = Shown(m) /\ (Covered(m)' <=> Covered(m))
  BY DEF Shown, Covered
<1>3. (Following' => Following) /\ (Settled' => Settled)
  BY DEF Following, Settled, TypeOK
<1>. DEFINE shown(m) == Shown(m)
            covered(m) == Covered(m)
<1>4. \A m : shown(m)' = shown(m) /\ (covered(m)' <=> covered(m))
  BY <1>2
<1>5. \A version : \A m \in Messages : feed' = "open" =>
          (version = rows[m] \/ told(m) => version = rows'[m] \/ told(m)')
  BY <1>1
<1>. HIDE DEF shown, covered, told
<1>6. /\ \A m \in Messages : live'[m] # 0 => edited'[m] # 0
      /\ feed' = "open" /\ ready' =>
           \A m \in Messages : edited'[m] # 0 => edited'[m] = rows'[m] \/ told(m)' \/ m \in deleted'
  <2>1. UNCHANGED <<live, edited, deleted>>
    OBVIOUS
  <2>. QED
    BY <1>5, <2>1 DEF Holds, Right, told
<1>7. Following' /\ list'.answered => \A m \in Messages : list'.page.items[m] # 0 =>
           list'.page.items[m] = rows'[m] \/ told(m)' \/ edited'[m] # 0 \/ m \in deleted'
  <2>1. UNCHANGED <<list, edited, deleted>> /\ (Following' => feed' = "open")
    BY DEF Following
  <2>. QED
    BY <1>3, <1>5, <2>1 DEF Holds, Right, told
<1>8. Settled' => \A m \in S : covered(m)' => shown(m)' = rows'[m] \/ told(m)'
  <2>1. Settled' => feed' = "open"
    BY DEF Settled
  <2>. QED
    BY <1>3, <1>4, <1>5, <2>1 DEF Holds, Right, told, shown, covered
<1>. QED
  BY <1>6, <1>7, <1>8 DEF Holds, Right, told, shown, covered

\* The page of history and the timeline it becomes.
LEMMA HoldsHistory ==
  ASSUME TypeOK, News, Listing, Following => Reaches, PacedInv, NEW S \in SUBSET Messages, Holds(S),
         LoadFirst \/ LoadOlder \/ AnswerList \/ ShowPage \/ FailList
  PROVE  Holds(S)'
<1>1. UNCHANGED <<rows, feed, ready, deleted, live, edited>> /\ InFlight' = InFlight
  BY FeedSame DEF LoadFirst, LoadOlder, AnswerList, ShowPage, FailList, feedVars
<1>. DEFINE told(m) == Told(m)
            covered(m) == Covered(m)
            shown(m) == Shown(m)
<1>2. \A m : told(m)' <=> told(m)
  BY <1>1 DEF Told
<1>3. /\ list \in List /\ items \in Timeline /\ live \in Timeline /\ edited \in Timeline
      /\ cursor \in Messages \cup {0}
  BY DEF TypeOK
<1>4. S \subseteq Messages /\ Holds(S)
  OBVIOUS
<1>5. /\ \A m \in Messages : live'[m] # 0 => edited'[m] # 0
      /\ feed' = "open" /\ ready' =>
           \A m \in Messages : edited'[m] # 0 => edited'[m] = rows'[m] \/ told(m)' \/ m \in deleted'
  BY <1>1, <1>2, <1>4 DEF Holds, Right
<1>6. SUFFICES /\ Following' /\ list'.answered => \A m \in Messages : list'.page.items[m] # 0 =>
                      list'.page.items[m] = rows'[m] \/ told(m)' \/ edited'[m] # 0 \/ m \in deleted'
               /\ Settled' => \A m \in S : covered(m)' => shown(m)' = rows'[m] \/ told(m)'
  BY <1>5, <1>6 DEF Holds, Right
<1>7. CASE LoadFirst
  <2>1. list'.kind = "first" /\ list'.answered = FALSE
    BY <1>7 DEF LoadFirst, NoList
  <2>. QED
    BY <2>1 DEF Settled
<1>8. ASSUME UNCHANGED <<items, cursor, reload>>, list.kind # "first", list.kind # "failed"
      PROVE  Settled' => \A m \in S : covered(m)' => shown(m)' = rows'[m] \/ told(m)'
  <2>1. \A m : shown(m)' = shown(m) /\ (covered(m)' <=> covered(m))
    BY <1>1, <1>8 DEF Shown, Covered
  <2>2. Settled' => Settled
    BY <1>1, <1>8 DEF Settled
  <2>. QED
    BY <1>1, <1>2, <1>4, <2>1, <2>2 DEF Holds, Right
<1>9. CASE LoadOlder
  <2>1. list'.answered = FALSE /\ list.kind = "none" /\ UNCHANGED <<items, cursor, reload>>
    BY <1>9 DEF LoadOlder, NoList
  <2>. QED
    BY <1>8, <2>1
<1>10. CASE AnswerList
  <2>. DEFINE page == ListMessages(cursor, PageSize)
  <2>1. \A m \in Messages : page.items[m] \in {0, rows[m]}
    BY <1>3, PageAnswers
  <2>. HIDE DEF page
  <2>2. list'.kind = list.kind /\ list'.page = page /\ UNCHANGED <<items, cursor, reload>>
        /\ list.kind # "failed"
    BY <1>3, <1>10 DEF AnswerList, List, page
  <2>3. \A m \in Messages : list'.page.items[m] # 0 => list'.page.items[m] = rows'[m]
    BY <1>1, <2>1, <2>2
  <2>4. CASE list.kind = "first"
    BY <2>2, <2>3, <2>4 DEF Settled
  <2>5. CASE list.kind # "first"
    BY <1>8, <2>2, <2>3, <2>5
  <2>. QED
    BY <2>4, <2>5
<1>11. CASE FailList
  <2>1. CASE list.kind = "first"
    <3>1. list'.kind = "failed" /\ list'.answered = FALSE
      BY <1>11, <2>1 DEF FailList, NoList
    <3>. QED
      BY <3>1 DEF Settled
  <2>2. CASE list.kind = "older"
    <3>1. list'.answered = FALSE /\ UNCHANGED <<items, cursor, reload>>
      BY <1>11, <2>2 DEF FailList, NoList
    <3>. QED
      BY <1>8, <2>2, <3>1
  <2>. QED
    BY <1>11, <2>1, <2>2 DEF FailList
<1>12. CASE ShowPage
  <2>. DEFINE merged == IF list.kind = "first" THEN Merge(list.page.items, live)
                                               ELSE Merge(list.page.items, items)
  <2>1. list'.answered = FALSE /\ cursor' = list.page.next /\ reload' = reload
        /\ list.kind \in {"first", "older"} /\ list.answered
    BY <1>12 DEF ShowPage, NoList, Listing
  <2>2. \A m \in Messages : items'[m] = IF merged[m] = 0 \/ m \in deleted THEN 0
                                        ELSE IF edited[m] # 0 THEN edited[m] ELSE merged[m]
    <3>1. items' = Overlay(merged)
      BY <1>12 DEF ShowPage
    <3>. HIDE DEF merged
    <3>. QED
      BY <3>1 DEF Overlay
  <2>3. \A m \in Messages : merged[m] =
            IF list.kind = "first" THEN IF live[m] # 0 THEN live[m] ELSE list.page.items[m]
            ELSE IF items[m] # 0 THEN items[m] ELSE list.page.items[m]
    BY DEF Merge
  <2>. HIDE DEF merged
  <2>4. \A m \in Messages : shown(m)' = items'[m] /\ (covered(m)' <=> m >= cursor' \/ shown(m)' # 0)
    BY <1>1, <2>2 DEF Shown, Covered
  <2>5. ASSUME Settled', NEW m \in Messages, m \in S, covered(m)'
        PROVE  items'[m] = rows[m] \/ told(m)
    <3>1. Following /\ Reaches /\ feed = "open" /\ ready /\ (list.kind = "older" => Settled)
      BY <1>1, <2>1, <2>5 DEF Settled, Following
    <3>2. Announced(m) => told(m)
      BY <3>1, OpenTold DEF Announced, PacedInv
    <3>3. list.page.next \in Nat /\ m \in Nat /\ cursor \in Nat
      BY <1>3 DEF List, Messages
    <3>4. CASE m \in deleted
      BY <2>2, <3>4 DEF News, Gone
    <3>5. CASE m \notin deleted /\ merged[m] = 0
      <4>1. items'[m] = 0 /\ m >= list.page.next
        BY <2>1, <2>2, <2>4, <2>5, <3>5
      <4>2. CASE list.kind = "first"
        BY <2>1, <2>3, <3>1, <3>2, <3>5, <4>1, <4>2 DEF Reaches
      <4>3. CASE list.kind = "older"
        BY <2>1, <2>3, <3>1, <3>2, <3>3, <3>5, <4>1, <4>3 DEF Reaches
      <4>. QED
        BY <2>1, <4>2, <4>3
    <3>6. CASE m \notin deleted /\ merged[m] # 0 /\ edited[m] # 0
      BY <1>4, <2>2, <3>1, <3>6 DEF Holds, Right
    <3>7. CASE m \notin deleted /\ merged[m] # 0 /\ edited[m] = 0
      <4>1. items'[m] = merged[m]
        BY <2>2, <3>7
      <4>2. CASE merged[m] = list.page.items[m]
        BY <1>4, <2>1, <3>1, <3>7, <4>1, <4>2 DEF Holds, Right
      <4>3. CASE list.kind = "older" /\ merged[m] = items[m]
        <5>1. Shown(m) = items[m] /\ Covered(m)
          BY <3>7, <4>3 DEF Shown, Covered
        <5>. QED
          BY <1>4, <2>5, <3>1, <4>1, <4>3, <5>1 DEF Holds, Right
      <4>4. live[m] = 0
        BY <1>4, <3>7 DEF Holds
      <4>. QED
        BY <2>1, <2>3, <4>2, <4>3, <4>4
    <3>. QED
      BY <3>4, <3>5, <3>6, <3>7
  <2>. QED
    BY <1>1, <1>2, <1>4, <2>1, <2>4, <2>5
<1>. QED
  BY <1>7, <1>9, <1>10, <1>11, <1>12

\* An event arrives: what it says is the present, or the present follows it.
LEMMA HoldsReceive ==
  ASSUME TypeOK, News, PacedInv, NEW S \in SUBSET Messages, Holds(S), ReceiveEvent
  PROVE  Holds(S)'
<1>0. PICK event : event = Head(wire)
  OBVIOUS
<1>. DEFINE told(m) == Told(m)
            covered(m) == Covered(m)
            shown(m) == Shown(m)
<1>1. /\ event \in InFlight /\ event # Ready /\ InFlight \subseteq InFlight' \cup {event}
      /\ InFlight' \subseteq InFlight /\ True(event)
  BY <1>0, DeliveredInFlight DEF ReceiveEvent, News
<1>2. \/ /\ event.type = "deleted" /\ deleted' = deleted \cup {event.id} /\ edited' = edited
         /\ live' = [live EXCEPT ![event.id] = 0] /\ items' = [items EXCEPT ![event.id] = 0]
      \/ /\ event.type # "deleted" /\ deleted' = deleted
         /\ live' = [live EXCEPT ![event.id] = event.version]
         /\ edited' = [edited EXCEPT ![event.id] = event.version]
         /\ items' = [items EXCEPT ![event.id] = event.version]
  BY <1>0 DEF ReceiveEvent
<1>3. UNCHANGED <<rows, feed, cursor, ready, reload, list>>
  BY DEF ReceiveEvent
<1>4. feed = "open" => event.version = rows[event.id] \/ told(event.id)'
  <2>1. CASE feed # "open"
    BY <2>1
  <2>2. CASE feed = "open"
    <3>1. InOrder /\ LastWrites /\ event = wire[1] /\ 1 \in DOMAIN wire
          /\ \A i \in DOMAIN wire : i = 1 \/ (i - 1 \in DOMAIN wire' /\ wire'[i - 1] = wire[i])
      <4>1. wire \in Seq(Event \cup {Ready}) /\ wire # <<>> /\ wire' = Tail(wire)
        BY DEF TypeOK, FeedTypeOK, ReceiveEvent
      <4>. QED
        BY <1>0, <2>2, <4>1, Shifted DEF PacedInv
    <3>2. UNCHANGED <<channel, outbox>> /\ Ready \notin outbox
      BY ReadyIsNoEvent DEF ReceiveEvent, TypeOK, FeedTypeOK
    <3>3. ASSUME NEW x \in InFlight', Says(x, event.id)
          PROVE  told(event.id)'
      BY <1>3, <3>3 DEF Says, Told
    <3>4. CASE \E i \in DOMAIN wire : i # 1 /\ Says(wire[i], event.id)
      <4>1. PICK i \in DOMAIN wire' : Says(wire'[i], event.id)
        BY <3>1, <3>4
      <4>2. wire'[i] \in InFlight'
        BY DEF InFlight
      <4>. QED
        BY <3>3, <4>1, <4>2
    <3>5. CASE Says(wire[1], event.id)
      BY <3>1, <3>5 DEF Says
    <3>6. CASE \E i \in DOMAIN channel : Says(channel[i], event.id)
      <4>1. \A i \in DOMAIN channel : channel[i] \in InFlight'
        BY <3>2 DEF InFlight
      <4>. QED
        BY <3>3, <3>6, <4>1
    <3>7. CASE \E x \in outbox : x.id = event.id
      <4>1. PICK x \in outbox : x.id = event.id
        BY <3>7
      <4>2. x \in InFlight' /\ Says(x, event.id)
        BY <3>1, <3>2, <4>1 DEF InFlight, Says, LastWrites
      <4>. QED
        BY <3>3, <4>2
    <3>. QED
      BY <1>1, <3>1, <3>4, <3>5, <3>6, <3>7 DEF InOrder
  <2>. QED
    BY <2>1, <2>2
<1>5. live \in Timeline /\ items \in Timeline /\ edited \in Timeline /\ event.id \in Messages
  BY <1>1 DEF TypeOK, True, Event
<1>6. \A m \in Messages : m # event.id =>
          /\ told(m) => told(m)'
          /\ items'[m] = items[m] /\ live'[m] = live[m] /\ edited'[m] = edited[m]
          /\ m \in deleted' <=> m \in deleted
          /\ shown(m)' = shown(m) /\ (covered(m)' <=> covered(m))
  <2>1. ASSUME NEW m \in Messages, m # event.id, told(m) PROVE told(m)'
    <3>1. PICK x \in InFlight : x # Ready /\ x.id = m /\ x.version = rows[m]
      BY <2>1 DEF Told
    <3>2. x \in InFlight'
      BY <1>1, <2>1, <3>1
    <3>. QED
      BY <1>3, <3>1, <3>2 DEF Told
  <2>2. ASSUME NEW m \in Messages, m # event.id
        PROVE  /\ items'[m] = items[m] /\ live'[m] = live[m] /\ edited'[m] = edited[m]
               /\ m \in deleted' <=> m \in deleted
    BY <1>2, <1>5, <2>2 DEF Timeline
  <2>3. ASSUME NEW m \in Messages, m # event.id
        PROVE  shown(m)' = shown(m) /\ (covered(m)' <=> covered(m))
    BY <1>3, <2>2, <2>3 DEF Shown, Covered
  <2>. QED
    BY <2>1, <2>2, <2>3
<1>7. /\ items'[event.id] = event.version
      /\ event.id \in deleted' \/ edited'[event.id] = event.version
      /\ event.id \in deleted' => rows[event.id] = 0
      /\ event.id \notin deleted' => event.version # 0
      /\ live'[event.id] # 0 => edited'[event.id] # 0
  <2>1. event.type = "deleted" <=> event.version = 0
    BY <1>1 DEF True
  <2>2. event.version = 0 => rows[event.id] = 0
    BY <1>1 DEF True, Gone
  <2>3. event.id \in deleted => rows[event.id] = 0
    BY <1>5 DEF News, Gone
  <2>. QED
    BY <1>2, <1>5, <2>1, <2>2, <2>3 DEF Timeline
<1>8. shown(event.id)' = IF event.id \in deleted' THEN 0 ELSE event.version
  BY <1>5, <1>7 DEF Shown
<1>9. S \subseteq Messages /\ Holds(S)
  OBVIOUS
<1>. HIDE DEF told, covered, shown
<1>10. \A m \in Messages : live'[m] # 0 => edited'[m] # 0
  BY <1>6, <1>7, <1>9 DEF Holds
<1>11. feed' = "open" /\ ready' =>
           \A m \in Messages : edited'[m] # 0 => edited'[m] = rows'[m] \/ told(m)' \/ m \in deleted'
  BY <1>3, <1>4, <1>6, <1>7, <1>9 DEF Holds, Right, told
<1>12. Following' /\ list'.answered => \A m \in Messages : list'.page.items[m] # 0 =>
           list'.page.items[m] = rows'[m] \/ told(m)' \/ edited'[m] # 0 \/ m \in deleted'
  <2>1. Following' => Following
    BY <1>3 DEF Following
  <2>. QED
    BY <1>3, <1>6, <1>7, <1>9, <2>1 DEF Holds, Right, told
<1>13. Settled' => \A m \in S : covered(m)' => shown(m)' = rows'[m] \/ told(m)'
  <2>1. Settled' => Settled /\ feed = "open"
    BY <1>3 DEF Settled
  <2>. QED
    BY <1>3, <1>4, <1>6, <1>7, <1>8, <1>9, <2>1 DEF Holds, Right, told, shown, covered
<1>. QED
  BY <1>10, <1>11, <1>12, <1>13 DEF Holds, Right, told, shown, covered

\* The answers to the page's own edits and deletions.
LEMMA HoldsAnswered ==
  ASSUME TypeOK, News, PacedInv, NEW S \in SUBSET Messages, Holds(S),
         EditAnswered \/ DeleteAnswered
  PROVE  Holds(S)'
<1>. DEFINE told(m) == Told(m)
            covered(m) == Covered(m)
            shown(m) == Shown(m)
<1>1. UNCHANGED <<rows, feed, cursor, ready, reload, list, live>> /\ InFlight' = InFlight
  BY FeedSame DEF EditAnswered, DeleteAnswered, feedVars
<1>2. \A m : told(m)' <=> told(m)
  BY <1>1 DEF Told
<1>3. (Following' => Following) /\ (Settled' => Settled) /\ S \subseteq Messages
  BY <1>1 DEF Following, Settled
<1>4. \A m \in deleted : rows[m] = 0
  BY DEF News, Gone
<1>5. items \in Timeline /\ edited \in Timeline
  BY DEF TypeOK
<1>6. PICK m : /\ m \in Messages
               /\ \/ /\ deleted' = deleted /\ rows[m] # 0
                     /\ edited' = edited \/ edited' = [edited EXCEPT ![m] = rows[m]]
                     /\ items' = items \/ (items[m] # 0 /\ items' = [items EXCEPT ![m] = rows[m]])
                  \/ /\ deleted' = deleted \cup {m} /\ rows[m] = 0 /\ edited' = edited
                     /\ items' = items \/ items' = [items EXCEPT ![m] = 0]
  <2>1. CASE EditAnswered
    <3>. DEFINE edit == req["edit"]
    <3>1. edit.id \in Messages /\ edit.event.version # 0 /\ edit.event.version = rows[edit.id]
      BY <2>1 DEF EditAnswered, Answered, News, True, Event, PacedInv, LastWrites
    <3>2. /\ deleted' = deleted
          /\ edited' = edited \/ edited' = [edited EXCEPT ![edit.id] = edit.event.version]
          /\ \/ items' = items
             \/ items' = [items EXCEPT ![edit.id] = IF @ = 0 THEN 0 ELSE edit.event.version]
      BY <2>1 DEF EditAnswered
    <3>. HIDE DEF edit
    <3>3. items[edit.id] = 0 => [items EXCEPT ![edit.id] = IF @ = 0 THEN 0 ELSE edit.event.version] = items
      BY <1>5, <3>1 DEF Timeline
    <3>4. items[edit.id] # 0 => [items EXCEPT ![edit.id] = IF @ = 0 THEN 0 ELSE edit.event.version]
                                   = [items EXCEPT ![edit.id] = rows[edit.id]]
      BY <1>5, <3>1 DEF Timeline
    <3>. QED
      BY <3>1, <3>2, <3>3, <3>4
  <2>2. CASE DeleteAnswered
    <3>1. req["delete"].id \in Messages /\ rows[req["delete"].id] = 0
      BY <2>2 DEF DeleteAnswered, Answered, News, True, Gone, Event
    <3>. QED
      BY <2>2, <3>1 DEF DeleteAnswered
  <2>. QED
    BY <2>1, <2>2
<1>7. ASSUME NEW k \in Messages
      PROVE  /\ k \in deleted => k \in deleted'
             /\ edited'[k] = edited[k] \/ (edited'[k] = rows[k] /\ rows[k] # 0)
             /\ shown(k)' = rows[k] \/ (shown(k)' = shown(k) /\ (covered(k)' <=> covered(k)))
  <2>1. /\ k \in deleted => k \in deleted'
        /\ edited'[k] = edited[k] \/ (edited'[k] = rows[k] /\ rows[k] # 0)
    BY <1>5, <1>6 DEF Timeline
  <2>2. CASE k = m
    <3>1. k \in deleted' => rows[k] = 0
      BY <1>4, <1>6, <2>2
    <3>2. CASE k \notin deleted' /\ items' # items
      <4>1. items'[k] = rows[k]
        BY <1>5, <1>6, <2>2, <3>2 DEF Timeline
      <4>. QED
        BY <2>1, <3>2, <4>1 DEF Shown
    <3>3. CASE k \notin deleted' /\ items' = items
      <4>1. k \notin deleted
        BY <1>6, <3>3
      <4>. QED
        BY <1>1, <2>1, <3>3, <4>1 DEF Shown, Covered
    <3>. QED
      BY <2>1, <3>1, <3>2, <3>3 DEF Shown
  <2>3. CASE k # m
    <3>1. items'[k] = items[k] /\ (k \in deleted' <=> k \in deleted)
      BY <1>5, <1>6, <2>3 DEF Timeline
    <3>. QED
      BY <1>1, <2>1, <3>1 DEF Shown, Covered
  <2>. QED
    BY <2>2, <2>3
<1>. HIDE DEF told, covered, shown
<1>8. /\ \A k \in Messages : live'[k] # 0 => edited'[k] # 0
      /\ feed' = "open" /\ ready' =>
           \A k \in Messages : edited'[k] # 0 => edited'[k] = rows'[k] \/ told(k)' \/ k \in deleted'
  BY <1>1, <1>2, <1>3, <1>7 DEF Holds, Right, told
<1>9. Following' /\ list'.answered => \A k \in Messages : list'.page.items[k] # 0 =>
           list'.page.items[k] = rows'[k] \/ told(k)' \/ edited'[k] # 0 \/ k \in deleted'
  BY <1>1, <1>2, <1>3, <1>7 DEF Holds, Right, told
<1>10. Settled' => \A k \in S : covered(k)' => shown(k)' = rows'[k] \/ told(k)'
  BY <1>1, <1>2, <1>3, <1>7 DEF Holds, Right, told, shown, covered
<1>. QED
  BY <1>8, <1>9, <1>10 DEF Holds, Right, told, shown, covered

\* A new page, or a page that is about to load its history anew.
LEMMA HoldsEmpty ==
  ASSUME NEW S \in SUBSET Messages, live' = Empty, edited' = Empty, reload' = TRUE
  PROVE  Holds(S)'
<1>1. \A m \in Messages : live'[m] = 0 /\ edited'[m] = 0
  BY DEF Empty
<1>. QED
  BY <1>1 DEF Holds, Following, Settled

\* The effect that inserts the message last sent concerns that one alone.
LEMMA HoldsSent ==
  ASSUME TypeOK, NEW S \in SUBSET Messages, Holds(S), ShowSent,
         ~(OldSentShown /\ draft.sent \in S)
  PROVE  Holds(S)'
<1>. DEFINE told(m) == Told(m)
            covered(m) == Covered(m)
            shown(m) == Shown(m)
<1>1. UNCHANGED <<rows, feed, cursor, deleted, live, edited, ready, reload, list>>
      /\ InFlight' = InFlight
  BY FeedSame DEF ShowSent, feedVars
<1>2. (\A m : told(m)' <=> told(m)) /\ (Following' <=> Following) /\ (Settled' <=> Settled)
  BY <1>1 DEF Told, Following, Settled
<1>3. draft.sent \in S => draft.version = rows[draft.sent]
  BY DEF OldSentShown
<1>4. \A m \in Messages : items'[m] = IF m = draft.sent /\ draft.version # 0 THEN draft.version
                                      ELSE items[m]
  <2>1. \A m \in Messages : Empty[m] = 0
    BY DEF Empty
  <2>2. \A m \in Messages : Only(draft.sent, draft.version)[m] =
            IF m = draft.sent THEN draft.version ELSE 0
    BY <2>1 DEF Only, Empty
  <2>. QED
    BY <2>2 DEF ShowSent, Merge
<1>5. ASSUME NEW m \in S
      PROVE  shown(m)' = rows[m] \/ (shown(m)' = shown(m) /\ (covered(m)' <=> covered(m)))
  <2>1. CASE m \notin deleted /\ m = draft.sent /\ draft.version # 0
    BY <1>1, <1>3, <1>4, <2>1 DEF Shown
  <2>2. CASE m \in deleted \/ ~(m = draft.sent /\ draft.version # 0)
    BY <1>1, <1>4, <2>2 DEF Shown, Covered
  <2>. QED
    BY <2>1, <2>2
<1>. HIDE DEF told, covered, shown
<1>6. /\ \A m \in Messages : live'[m] # 0 => edited'[m] # 0
      /\ feed' = "open" /\ ready' =>
           \A m \in Messages : edited'[m] # 0 => edited'[m] = rows'[m] \/ told(m)' \/ m \in deleted'
      /\ Following' /\ list'.answered => \A m \in Messages : list'.page.items[m] # 0 =>
           list'.page.items[m] = rows'[m] \/ told(m)' \/ edited'[m] # 0 \/ m \in deleted'
  BY <1>1, <1>2 DEF Holds, Right, told
<1>7. Settled' => \A m \in S : covered(m)' => shown(m)' = rows'[m] \/ told(m)'
  BY <1>1, <1>2, <1>5 DEF Holds, Right, told, shown, covered
<1>. QED
  BY <1>6, <1>7 DEF Holds, Right, told, shown, covered

LEMMA NextHolds ==
  ASSUME PageInv, PacedInv, [Next]_vars, NEW S \in SUBSET Messages, Holds(S),
         ~(OldSentShown /\ draft.sent \in S)
  PROVE  Holds(S)'
<1>1. TypeOK /\ News /\ Listing /\ (Following => Reaches)
  BY DEF PageInv
<1>2. TypeOK'
  BY <1>1, NextType
<1>3. ASSUME UNCHANGED feedVars, UNCHANGED pageVars PROVE Holds(S)'
  <2>1. \A m \in Messages : Told(m) => Told(m)'
    BY <1>1, <1>3, FeedSame, ToldSame DEF feedVars
  <2>. QED
    BY <1>1, <1>2, <1>3, <2>1, HoldsKept DEF feedVars, pageVars, TypeOK
<1>4. ASSUME NEW m \in Messages, WriteElsewhere(m) \/ (\E op \in Ops : Serve(op, m)) PROVE Holds(S)'
  <2>1. PICK event : Wrote(m, event)
    BY <1>1, <1>4, WriteHappens
  <2>2. Told(m)' /\ \A k \in Messages : Told(k) => Told(k)'
    BY <1>1, <2>1, ToldWrote
  <2>3. \A k \in Messages : k # m => rows'[k] = rows[k]
    BY <1>1, <2>1, WroteElse
  <2>4. UNCHANGED pageVars /\ feed' = feed
    BY <1>4, <2>1 DEF WriteElsewhere, Serve, Wrote
  <2>. QED
    BY <1>1, <1>2, <2>2, <2>3, <2>4, HoldsKept DEF pageVars, TypeOK
<1>5. ASSUME NEW event, Publish(event) PROVE Holds(S)'
  <2>1. feed' = "open" => \A m \in Messages : Told(m) => Told(m)'
    BY <1>1, <1>5, PublishInFlight, ToldSame DEF Publish, PublishMessage
  <2>2. UNCHANGED <<rows, pageVars>> /\ (feed' = "open" => feed = "open")
    BY <1>5 DEF Publish, PublishMessage
  <2>. QED
    BY <1>1, <1>2, <2>1, <2>2, HoldsKept DEF pageVars, TypeOK
<1>6. CASE Connect
  <2>1. ready' = FALSE /\ UNCHANGED <<rows, pageVars>>
    BY <1>1, <1>6 DEF Connect, SubscribeMessages, Listing, pageVars
  <2>2. InFlight \subseteq InFlight'
    BY <1>1, <1>6 DEF Connect, SubscribeMessages, Listing, InFlight
  <2>3. \A m \in Messages : Told(m) => Told(m)'
    BY <2>1, <2>2, ToldSame
  <2>. QED
    BY <1>1, <1>2, <2>1, <2>3, HoldsKept DEF pageVars, TypeOK
<1>7. CASE Deliver
  <2>1. \A m \in Messages : Told(m) => Told(m)'
    BY <1>1, <1>7, DeliverInFlight, ToldSame DEF Deliver, WriteEvent
  <2>. QED
    BY <1>1, <1>2, <1>7, <2>1, HoldsKept DEF Deliver, WriteEvent, pageVars, TypeOK
<1>8. CASE Disconnect \/ ServerRestart
  <2>1. feed' = "down" /\ ready' = FALSE /\ UNCHANGED <<cursor, list, items, live, edited, deleted, reload>>
    BY <1>8 DEF Disconnect, ServerRestart, Unsubscribe, Restart
  <2>. QED
    BY <1>1, <1>2, <2>1, HoldsKept DEF TypeOK
<1>9. CASE ReceiveReady \/ Remount
  BY <1>9, HoldsEmpty DEF ReceiveReady, Remount
<1>10. CASE ReceiveEvent
  BY <1>1, <1>10, HoldsReceive
<1>11. CASE LoadFirst \/ LoadOlder \/ AnswerList \/ ShowPage \/ FailList
  BY <1>1, <1>11, HoldsHistory
<1>12. CASE Retry
  <2>1. \A m \in Messages : Told(m) => Told(m)'
    BY <1>1, <1>12, FeedSame, ToldSame DEF Retry, feedVars
  <2>. QED
    BY <1>1, <1>2, <1>12, <2>1, HoldsKept DEF Retry, feedVars, TypeOK
<1>13. CASE EditAnswered \/ DeleteAnswered
  BY <1>1, <1>13, HoldsAnswered
<1>14. CASE StartSend \/ SendAnswered
  BY <1>3, <1>14 DEF StartSend, Start, SendAnswered
<1>18. CASE ShowSent
  BY <1>1, <1>18, HoldsSent
<1>15. ASSUME NEW m \in Messages, StartEdit(m) \/ StartDelete(m) PROVE Holds(S)'
  BY <1>3, <1>15 DEF StartEdit, StartDelete, Start
<1>16. ASSUME NEW op \in Ops, GiveUp(op) PROVE Holds(S)'
  BY <1>3, <1>16 DEF GiveUp
<1>17. CASE UNCHANGED vars
  BY <1>3, <1>17 DEF vars
<1>. QED
  BY <1>4, <1>5, <1>6, <1>7, <1>8, <1>9, <1>10, <1>11, <1>12, <1>13, <1>14, <1>15, <1>16, <1>17, <1>18
     DEF Next, PageNext, RequestNext, FeedNext

\* PacedInv, in every state of a paced conversation: the last write of a
\* message is published and answered before the next, events keep their order,
\* and every text that overrides a page of history, or is in one that nothing
\* overrides, is the present one or about to be replaced.
THEOREM PacedInvariant == Paced => (Spec => []PacedInv)
<1>. SUFFICES ASSUME Paced PROVE Spec => []PacedInv
  OBVIOUS
<1>1. Init => PacedInv
  <2>1. Init => LastWrites
    BY DEF Init, FeedInit, LastWrites, NoRequest
  <2>2. Init => Holds({})
    BY DEF Init, FeedInit, Holds, Following, Settled, Empty
  <2>. QED
    BY <2>1, <2>2 DEF PacedInv, Init, FeedInit
<1>2. PageInv /\ PacedInv /\ [Next]_vars => PacedInv'
  <2>. SUFFICES ASSUME PageInv, PacedInv, [Next]_vars PROVE PacedInv'
    OBVIOUS
  <2>1. LastWrites' /\ (feed' = "open" => InOrder')
    BY NextLast, NextOrder DEF PageInv, PacedInv
  <2>2. Holds({})'
    BY NextHolds DEF PacedInv
  <2>. QED
    BY <2>1, <2>2 DEF PacedInv
<1>. QED
  BY <1>1, <1>2, Invariant, PTL DEF Spec

\* What Holds adds for one message is that the page is current in it.
LEMMA CurrentHolds ==
  ASSUME NEW m \in Messages, Holds({})
  PROVE  Current(m) <=> Holds({m})
<1>1. Told(m) <=> UnderWay(m, {rows[m]})
  BY DEF Told, InFlight, UnderWay
<1>. QED
  BY <1>1 DEF Current, Holds, Right

LEMMA NextCurrent ==
  ASSUME PageInv, PacedInv, PacedInv', [Next]_vars, NEW m \in Messages, Current(m),
         ~(OldSentShown /\ m = draft.sent)
  PROVE  Current(m)'
<1>1. Holds({}) /\ Holds({})'
  BY DEF PacedInv
<1>2. Holds({m})
  BY <1>1, CurrentHolds
<1>3. Holds({m})'
  <2>1. {m} \in SUBSET Messages /\ ~(OldSentShown /\ draft.sent \in {m})
    OBVIOUS
  <2>. QED
    BY <1>2, <2>1, NextHolds
<1>4. Told(m)' <=> UnderWay(m, {rows[m]})'
  BY DEF Told, InFlight, UnderWay
<1>. QED
  BY <1>3, <1>4 DEF Current, Holds, Right

\* GapsAreOldSends: what opens a gap is one thing alone, the effect that merges
\* the message last sent from here over the timeline, as it was when sent; and
\* it does so for that message only.  No page of history, event, answer to an
\* own edit or deletion, reconnection or restart does, for paced writes and any
\* requests of the browser's own (Conversation.jsx 130-175, 250-281).
THEOREM GapsExplained == Paced => (Spec => GapsAreOldSends)
<1>. SUFFICES ASSUME Paced PROVE Spec => GapsAreOldSends
  OBVIOUS
<1>1. PageInv /\ PacedInv /\ PacedInv' /\ [Next]_vars =>
          [\A m \in Messages : Current(m) /\ ~Current(m)' => OldSentShown /\ m = draft.sent]_vars
  BY NextCurrent
<1>. QED
  BY <1>1, Invariant, PacedInvariant, PTL DEF Spec, GapsAreOldSends

\* NoGap: between subscription, snapshot and events nothing falls through.  On
\* a connected page every message within its reach is shown as the database
\* has it, or the event that will correct it is on its way: for paced writes,
\* and a browser that sends nothing itself (Conversation.jsx 79-101 and
\* 250-268, message_events.go 31-45).
THEOREM NothingFallsThrough == Paced /\ "send" \notin Ops => (Spec => []NoGap)
<1>. SUFFICES ASSUME Paced, "send" \notin Ops PROVE Spec => []NoGap
  OBVIOUS
<1>. DEFINE Unsent == draft.sent = 0
<1>1. Init => Unsent /\ NoGap
  BY DEF Init, FeedInit, NoDraft, NoGap, Current, Settled
<1>2. PageInv /\ Unsent /\ [Next]_vars => Unsent'
  <2>. SUFFICES ASSUME PageInv, Unsent, [Next]_vars PROVE Unsent'
    OBVIOUS
  <2>1. ~StartSend /\ ~SendAnswered
    BY DEF StartSend, Start, SendAnswered, Answered
  <2>2. CASE UNCHANGED draft
    BY <2>2
  <2>3. CASE EditAnswered
    <3>1. req["edit"].id \in Messages
      BY <2>3 DEF EditAnswered, Answered, PageInv, News, True, Event
    <3>. QED
      BY <2>3, <3>1 DEF EditAnswered, Messages
  <2>4. CASE DeleteAnswered
    <3>1. draft \in [sent : Messages \cup {0}, version : Versions, deleted : SUBSET Messages]
      BY DEF PageInv, TypeOK
    <3>. QED
      BY <2>4, <3>1 DEF DeleteAnswered
  <2>5. CASE PageNext
    BY <2>2, <2>5 DEF PageNext, ReceiveReady, ReceiveEvent, LoadFirst, LoadOlder, AnswerList,
       ShowPage, FailList, Retry, ShowSent, Remount
  <2>6. CASE FeedNext
    BY <2>2, <2>6 DEF FeedNext, WriteElsewhere, Publish, Connect, Deliver, Disconnect, ServerRestart
  <2>7. CASE RequestNext
    BY <2>1, <2>2, <2>3, <2>4, <2>7 DEF RequestNext, StartEdit, StartDelete, Serve, GiveUp
  <2>8. CASE UNCHANGED vars
    BY <2>2, <2>8 DEF vars
  <2>. QED
    BY <2>5, <2>6, <2>7, <2>8 DEF Next
<1>3. PageInv /\ PacedInv /\ PacedInv' /\ Unsent /\ NoGap /\ [Next]_vars => NoGap'
  <2>. SUFFICES ASSUME PageInv, PacedInv, PacedInv', Unsent, NoGap, [Next]_vars,
                       NEW m \in Messages
                PROVE  Current(m)'
    BY DEF NoGap
  <2>1. ~OldSentShown /\ Current(m)
    BY DEF OldSentShown, ShowSent, NoGap
  <2>. QED
    BY <2>1, NextCurrent
<1>. QED
  BY <1>1, <1>2, <1>3, Invariant, PacedInvariant, PTL DEF Spec

=============================================================================
