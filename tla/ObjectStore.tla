----------------------------- MODULE ObjectStore -----------------------------
(***************************************************************************)
(* What Put, Open and Delete of a storage.Store promise to their callers:  *)
(* an object appears, or goes, in one step between the call and its        *)
(* return; a call that fails may have had its effect or not; a call that   *)
(* returns nil has had it.                                                 *)
(***************************************************************************)
CONSTANTS Keys, Callers

VARIABLES
    objects,  \* keys whose objects can be opened
    seen,     \* keys that were stored once
    call      \* of each caller: the operation, its key and what came of it

vars == <<objects, seen, call>>

Operations == {"put", "delete"}

TypeOK ==
    /\ objects \subseteq seen /\ seen \subseteq Keys
    /\ call \in [Callers -> [op : Operations, key : Keys, at : {"called", "done", "ok", "error"}]]

Returned(c) == call[c].at \in {"ok", "error"}

Init ==
    /\ objects = {} /\ seen = {}
    /\ call \in [Callers -> [op : Operations, key : Keys, at : {"error"}]]

Call(c, op, k) ==
    /\ Returned(c)
    /\ call' = [call EXCEPT ![c] = [op |-> op, key |-> k, at |-> "called"]]
    /\ UNCHANGED <<objects, seen>>

Put(c) ==
    /\ call[c].op = "put" /\ call[c].at = "called"
    /\ call' = [call EXCEPT ![c].at = "done"]
    /\ objects' = objects \cup {call[c].key}
    /\ seen' = seen \cup {call[c].key}

Delete(c) ==
    /\ call[c].op = "delete" /\ call[c].at = "called"
    /\ call' = [call EXCEPT ![c].at = "ok"]
    /\ objects' = objects \ {call[c].key}
    /\ UNCHANGED seen

Succeed(c) ==
    /\ call[c].at = "done"
    /\ call' = [call EXCEPT ![c].at = "ok"]
    /\ UNCHANGED <<objects, seen>>

Fail(c) ==
    /\ ~Returned(c)
    /\ call' = [call EXCEPT ![c].at = "error"]
    /\ UNCHANGED <<objects, seen>>

Stopped == [c \in Callers |-> IF Returned(c) THEN call[c] ELSE [call[c] EXCEPT !.at = "error"]]

\* The process dies: calls end, objects stay.
Crash == call' = Stopped /\ UNCHANGED <<objects, seen>>

\* The machine loses power: of what was ever stored some may be there.
PowerLoss == call' = Stopped /\ objects' \in SUBSET seen /\ UNCHANGED seen

Next ==
    \/ \E c \in Callers : \/ \E op \in Operations, k \in Keys : Call(c, op, k)
                          \/ Put(c) \/ Delete(c) \/ Succeed(c) \/ Fail(c)
    \/ Crash \/ PowerLoss

Spec == Init /\ [][Next]_vars

=============================================================================
