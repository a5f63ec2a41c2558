---------------------------- MODULE ObjectCustody ----------------------------
(***************************************************************************)
(* What the photo store promises, with no requests, tables or workers: the *)
(* life of one stored object.  A key is issued once, its object is written *)
(* while an upload holds it, it is published under some photo, and after   *)
(* the photo is gone (or the upload came to nothing) it is condemned,      *)
(* erased and forgotten.  ObjectLifecycle implements this module.          *)
(***************************************************************************)

CONSTANT
    Keys        \* storage keys

VARIABLES
    custody,    \* the stage of each key
    store       \* the keys under which the object store holds an object

vars == <<custody, store>>

Stages == {"fresh", "pending", "published", "condemned", "erased"}

TypeOK ==
    /\ custody \in [Keys -> Stages]
    /\ store \subseteq Keys

Init ==
    /\ custody = [k \in Keys |-> "fresh"]
    /\ store = {}

\* The keys of K move to stage s; the others keep theirs.
Advance(K, s) == [k \in Keys |-> IF k \in K THEN s ELSE custody[k]]

AllAt(K, stages) == \A k \in K : custody[k] \in stages

\* An upload takes keys nobody ever had.
Issue(K) ==
    /\ AllAt(K, {"fresh"})
    /\ custody' = Advance(K, "pending")
    /\ UNCHANGED store

Write(k) ==
    /\ AllAt({k}, {"pending"})
    /\ store' = store \cup {k}
    /\ UNCHANGED custody

\* Photos appear for K, all of whose objects are there, and may replace the
\* objects D, which are condemned in the same step.
Publish(K, D) ==
    /\ AllAt(K, {"pending"}) /\ K \subseteq store
    /\ AllAt(D, {"published"})
    /\ custody' = [k \in Keys |-> IF k \in K THEN "published"
                                  ELSE IF k \in D THEN "condemned"
                                  ELSE custody[k]]
    /\ UNCHANGED store

\* Photos disappear, or uploads come to nothing.
Condemn(K) ==
    /\ AllAt(K, {"pending", "published"})
    /\ custody' = Advance(K, "condemned")
    /\ UNCHANGED store

Erase(k) ==
    /\ AllAt({k}, {"condemned"})
    /\ store' = store \ {k}
    /\ UNCHANGED custody

\* Only an object that is gone may be forgotten.
Forget(k) ==
    /\ AllAt({k}, {"condemned"}) /\ k \notin store
    /\ custody' = Advance({k}, "erased")
    /\ UNCHANGED store

Next ==
    \/ \E K \in SUBSET Keys : Issue(K) \/ Condemn(K)
    \/ \E K, D \in SUBSET Keys : Publish(K, D)
    \/ \E k \in Keys : Write(k) \/ Erase(k) \/ Forget(k)

Spec == Init /\ [][Next]_vars

=============================================================================
