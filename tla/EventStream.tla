----------------------------- MODULE EventStream -----------------------------
(***************************************************************************)
(* What SubscribeMessages promises to one subscriber, without channels,    *)
(* frames and their limits: a subscription begins with a ready frame and   *)
(* then brings everything published since, in that order and without a     *)
(* gap, until it breaks off.  Then it brings no more, ever; what was       *)
(* written or published while there was none is in the rows alone.         *)
(* Conversation implements this module.                                    *)
(***************************************************************************)
EXTENDS Naturals, Sequences

CONSTANTS
    Messages,
    Events,     \* what can be published; each has an id and a version
    Ready       \* the frame that begins a subscription

VARIABLES
    rows,       \* each message's version
    pending,    \* events written and not yet published
    status,     \* the subscription: down, open, or cut off
    stream      \* what the subscriber is still to receive

vars == <<rows, pending, status, stream>>

Init ==
    /\ rows = [m \in Messages |-> 0]
    /\ pending = {}
    /\ status = "down"
    /\ stream = <<>>

\* A transaction: its event says what it wrote.
Write(event) ==
    /\ rows' = [rows EXCEPT ![event.id] = event.version]
    /\ pending' = pending \cup {event}
    /\ UNCHANGED <<status, stream>>

Publish(event) ==
    /\ event \in pending
    /\ pending' = pending \ {event}
    /\ UNCHANGED rows

Bring(event) ==
    /\ status = "open" /\ Publish(event)
    /\ stream' = Append(stream, event)
    /\ UNCHANGED status

\* One event that is not brought is the end of all.
BreakOff(event) ==
    /\ Publish(event)
    /\ status' = IF status = "open" THEN "cut" ELSE status
    /\ UNCHANGED stream

Subscribe ==
    /\ status = "down"
    /\ status' = "open"
    /\ stream' = <<Ready>>
    /\ UNCHANGED <<rows, pending>>

Receive ==
    /\ stream # <<>>
    /\ stream' = Tail(stream)
    /\ UNCHANGED <<rows, pending, status>>

\* The connection ends, by whatever side.
End ==
    /\ status' = "down" /\ stream' = <<>>
    /\ UNCHANGED <<rows, pending>>

\* The server stops, and what it had not published is never heard of.
Restart ==
    /\ status' = "down" /\ stream' = <<>>
    /\ pending' = {}
    /\ UNCHANGED rows

Next ==
    \/ \E event \in Events : Write(event)
    \/ \E event \in pending : Bring(event) \/ BreakOff(event)
    \/ Subscribe \/ Receive \/ End \/ Restart

Spec == Init /\ [][Next]_vars

=============================================================================
