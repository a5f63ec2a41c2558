------------------------------ MODULE LocalStore ------------------------------
(***************************************************************************)
(* The store of photos in a directory: Put writes a temporary file, syncs  *)
(* it, renames it to its key and syncs the directory.  What is in memory   *)
(* and what a power loss would leave on the disk are kept apart: until a   *)
(* file or directory is synced any of its states since may be found there. *)
(* The keys here lie in the directory of one logbook; each is put once.    *)
(***************************************************************************)
EXTENDS Integers

CONSTANTS
    Keys,           \* objects of one logbook or message
    Callers,        \* requests and cleanup workers
    MaxCrashes,     \* bound on ends of the process
    MaxPowerLosses  \* bound on power losses

ASSUME LocalStoreAssumption == MaxCrashes \in Nat /\ MaxPowerLosses \in Nat

VARIABLES
    directory,    \* whether the keys' directory exists
    directories,  \* what a power loss may make of that
    name,         \* the name of each key's file: "none", "temporary", "key"
    names,        \* the names a power loss may leave it
    text,         \* what the file holds: "none", "part", "full"
    synced,       \* the file has been synced
    call,         \* of each caller: the operation, its key and the next step
    used,         \* keys that Put was called for
    published,    \* keys whose files had their names once
    acked,        \* keys whose Put has returned nil
    deleted,      \* keys that Delete was called for
    lost,         \* a power loss took the directory
    crashes, losses   \* counters of the bounds

disk == <<directory, directories, name, names, text, synced>>
history == <<used, published, acked, deleted, lost, crashes, losses>>
vars == <<disk, call, history>>

Names == {"none", "temporary", "key"}

Init ==
    /\ directory = FALSE /\ directories = {FALSE}
    /\ name = [k \in Keys |-> "none"] /\ names = [k \in Keys |-> {"none"}]
    /\ text = [k \in Keys |-> "none"] /\ synced = [k \in Keys |-> FALSE]
    /\ call \in [Callers -> [op : {"put", "delete"}, key : Keys, at : {"error"}]]
    /\ used = {} /\ published = {} /\ acked = {} /\ deleted = {}
    /\ lost = FALSE /\ crashes = 0 /\ losses = 0

-----------------------------------------------------------------------------
Returned(c) == call[c].at \in {"ok", "error"}
At(c, op, step) == call[c].op = op /\ call[c].at = step
Goes(c, step) == call' = [call EXCEPT ![c].at = step]

Renamed(k, n) ==
    /\ name' = [name EXCEPT ![k] = n]
    /\ names' = [names EXCEPT ![k] = @ \cup {n}]

\* Keys hold a UUID of their own: no two calls put the same one.
CallPut(c, k) ==
    /\ Returned(c) /\ k \notin used
    /\ used' = used \cup {k}
    /\ call' = [call EXCEPT ![c] = [op |-> "put", key |-> k, at |-> "mkdir"]]
    /\ UNCHANGED <<disk, published, acked, deleted, lost, crashes, losses>>

CallDelete(c, k) ==
    /\ Returned(c)
    /\ deleted' = deleted \cup {k}
    /\ call' = [call EXCEPT ![c] = [op |-> "delete", key |-> k, at |-> "remove"]]
    /\ UNCHANGED <<disk, used, published, acked, lost, crashes, losses>>

-----------------------------------------------------------------------------
(* Put.                                                                    *)

MkdirAll(c) ==
    /\ At(c, "put", "mkdir") /\ Goes(c, "create")
    /\ directory' = TRUE /\ directories' = directories \cup {TRUE}
    /\ UNCHANGED <<name, names, text, synced, history>>

CreateTemporary(c) ==
    /\ At(c, "put", "create") /\ Goes(c, "write")
    /\ directory
    /\ Renamed(call[c].key, "temporary")
    /\ UNCHANGED <<directory, directories, text, synced, history>>

\* Mutant: copyExact does not compare what it copied with the size declared.
CopyUnchecked(c) ==
    /\ At(c, "put", "write") /\ Goes(c, "sync")
    /\ \E t \in {"part", "full"} : text' = [text EXCEPT ![call[c].key] = t]
    /\ UNCHANGED <<directory, directories, name, names, synced, history>>

\* copyExact: all of it, or part of it and an error.
CopyExact(c) ==
    /\ At(c, "put", "write")
    /\ \/ text' = [text EXCEPT ![call[c].key] = "full"] /\ Goes(c, "sync")
       \/ text' = [text EXCEPT ![call[c].key] = "part"] /\ Goes(c, "abandon")
    /\ UNCHANGED <<directory, directories, name, names, synced, history>>

\* Mutant: the file is closed without being synced.
CloseUnsynced(c) ==
    /\ At(c, "put", "sync") /\ Goes(c, "rename")
    /\ UNCHANGED <<disk, history>>

SyncAndClose(c) ==
    /\ At(c, "put", "sync") /\ Goes(c, "rename")
    /\ synced' = [synced EXCEPT ![call[c].key] = TRUE]
    /\ UNCHANGED <<directory, directories, name, names, text, history>>

Rename(c) ==
    /\ At(c, "put", "rename") /\ Goes(c, "sync directory")
    /\ Renamed(call[c].key, "key")
    /\ published' = published \cup {call[c].key}
    /\ UNCHANGED <<directory, directories, text, synced, used, acked, deleted, lost, crashes, losses>>

\* Mutant: Put returns once the file is renamed.
LeaveDirectory(c) ==
    /\ At(c, "put", "sync directory") /\ Goes(c, "ok")
    /\ acked' = acked \cup {call[c].key}
    /\ UNCHANGED <<disk, used, published, deleted, lost, crashes, losses>>

\* parent.Sync: the entries of the directory, not the directory's own.
SyncDirectory(c) ==
    /\ At(c, "put", "sync directory") /\ Goes(c, "ok")
    /\ names' = [k \in Keys |-> {name[k]}]
    /\ acked' = acked \cup {call[c].key}
    /\ UNCHANGED <<directory, directories, name, text, synced, used, published, deleted, lost, crashes, losses>>

\* An error, or a context that has ended, before and after there is a file to
\* be removed; after the rename there is nothing to remove.
Fail(c) ==
    /\ call[c].at \in {"mkdir", "create", "sync directory", "remove"}
    /\ Goes(c, "error")
    /\ UNCHANGED <<disk, history>>

\* The deferred removal of the temporary file, whose error nobody looks at.
Abandon(c) ==
    /\ call[c].at \in {"write", "abandon", "sync", "rename"}
    /\ Goes(c, "error")
    /\ Renamed(call[c].key, "none") \/ UNCHANGED <<name, names>>
    /\ UNCHANGED <<directory, directories, text, synced, history>>

-----------------------------------------------------------------------------
(* Delete, Crash, power loss.                                              *)

\* Mutant: whatever Remove answers counts as deleted.
DeleteAnyway(c) ==
    /\ At(c, "delete", "remove") /\ Goes(c, "ok")
    /\ \/ name[call[c].key] = "key" /\ Renamed(call[c].key, "none")
       \/ UNCHANGED <<name, names>>
    /\ UNCHANGED <<directory, directories, text, synced, history>>

\* Remove; that there is no such file is as good.  The directory is not synced.
Delete(c) ==
    /\ At(c, "delete", "remove") /\ Goes(c, "ok")
    /\ IF name[call[c].key] = "key" THEN Renamed(call[c].key, "none") ELSE UNCHANGED <<name, names>>
    /\ UNCHANGED <<directory, directories, text, synced, history>>

Stopped == [c \in Callers |-> IF Returned(c) THEN call[c] ELSE [call[c] EXCEPT !.at = "error"]]

Crash ==
    /\ crashes < MaxCrashes /\ crashes' = crashes + 1
    /\ call' = Stopped
    /\ UNCHANGED <<disk, used, published, acked, deleted, lost, losses>>

PowerLoss ==
    /\ losses < MaxPowerLosses /\ losses' = losses + 1
    /\ call' = Stopped
    /\ directory' \in directories /\ directories' = {directory'}
    /\ lost' = (lost \/ ~directory')
    /\ name' \in IF directory' THEN [Keys -> Names] ELSE [Keys -> {"none"}]
    /\ \A k \in Keys : directory' => name'[k] \in names[k]
    /\ names' = [k \in Keys |-> {name'[k]}]
    /\ text' \in [Keys -> {"none", "part", "full"}]
    /\ \A k \in Keys : IF synced[k] THEN text'[k] = text[k]
                       ELSE text'[k] = "full" => text[k] = "full"
    /\ UNCHANGED <<synced, used, published, acked, deleted, crashes>>

-----------------------------------------------------------------------------
Next ==
    \/ \E c \in Callers :
           \/ \E k \in Keys : CallPut(c, k) \/ CallDelete(c, k)
           \/ MkdirAll(c) \/ CreateTemporary(c) \/ CopyExact(c) \/ SyncAndClose(c)
           \/ Rename(c) \/ SyncDirectory(c) \/ Fail(c) \/ Abandon(c) \/ Delete(c)
    \/ Crash \/ PowerLoss

Spec == Init /\ [][Next]_vars

-----------------------------------------------------------------------------
(* Properties.                                                             *)

TypeOK ==
    /\ directory \in directories
    /\ \A k \in Keys :
           /\ name[k] \in names[k] /\ names[k] \subseteq Names
           /\ synced[k] => text[k] = "full"
           /\ name[k] # "none" => directory
    /\ \A c, d \in Callers : call[c] = call[d] /\ ~Returned(c) /\ call[c].op = "put" => c = d

\* NeverTorn: what Open finds under a key is the whole object, also after a
\* power loss in the middle of Put.
NeverTorn == \A k \in Keys : name[k] = "key" => text[k] = "full"

\* PutSurvives: an object whose Put has returned nil, and that nobody deletes,
\* survives the process and the power; but for the directory itself, whose
\* entry in its parent is never synced (local.go:43, 75).
PutSurvives == ~lost => \A k \in acked \ deleted : name[k] = "key"

Abstract(c) ==
    [call[c] EXCEPT !.at = IF Returned(c) THEN @
                          ELSE IF @ = "sync directory" THEN "done" ELSE "called"]

Store == INSTANCE ObjectStore WITH
    objects <- {k \in Keys : name[k] = "key"},
    seen <- published,
    call <- [c \in Callers |-> Abstract(c)]

\* ImplementsStore: to its callers the directory is the store of ObjectStore,
\* which ObjectLifecycle takes for granted.
ImplementsStore == Store!Spec

=============================================================================
