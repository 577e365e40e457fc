------------------------------ MODULE MoveState ------------------------------
(***************************************************************************)
(* What moves, undos of moves and their recovery share: the names of the    *)
(* files in one workspace, the durable manifests (version 2), the change    *)
(* sets, and the memory of the one server that works on them.               *)
(*                                                                          *)
(* A file is its identity (device and inode): a name is a hard link to it.  *)
(* A manifest's operation is named by its source, which is unique in it.    *)
(***************************************************************************)
EXTENDS Integers, Sequences, FiniteSets

CONSTANTS
    Paths,      \* the paths, numbered in comparisonKey order
    InDir,      \* those below the one directory that may be missing
    Calls,      \* the calls of move_paths and of undo_change_set for a move
    Files,      \* the files there are at the start
    Foreign,    \* files, contents and directories of programs outside the lock
    None,
    Recovery,   \* the recovery run
    Workloads   \* bound: records of at, dir, task, crashes, faults, uses, foreign

Objects == Files \cup Foreign
Workers == Calls \cup {Recovery}

Names == Objects \cup {None}
Directories == Foreign \cup Calls \cup {None}
Plans == UNION {[S -> Paths] : S \in SUBSET Paths}
Requests == [plan : Plans, undoes : Calls \cup {None}]

ASSUME MoveAssumption ==
    /\ Paths \subseteq Nat /\ IsFiniteSet(Paths) /\ InDir \subseteq Paths
    /\ IsFiniteSet(Calls) /\ Files \cap Foreign = {}
    /\ None \notin Objects \cup Calls /\ Recovery \notin Calls \cup {None}

ASSUME WorkloadAssumption == \A w \in Workloads :
    /\ w.at \in [Paths -> Names] /\ w.dir \in Directories /\ w.task \in [Calls -> Requests]
    /\ w.crashes \in Nat /\ w.faults \in Nat /\ w.uses \in Nat /\ w.foreign \subseteq Foreign

VARIABLES
    \* the workspace
    at,         \* path -> the file that has this name
    bytes,      \* file -> its content
    dir,        \* the directory of InDir: the call or program that made it
    stage,      \* stage[c][p]: the file under the stage name for source p of c
    \* the state root
    journal,    \* call -> its manifest
    order,      \* the calls in createdAt order of their manifests
    changeset,  \* call -> the state of its change set
    audited,    \* the calls whose audit event is written
    \* the memory of the server
    task,       \* call -> what it is asked: plan (source -> destination), undoes
    lock,       \* the worker that holds the workspace lock
    frozen,     \* whether recovery has failed
    due,        \* what the recovery run has still to visit: call and state it saw
    pos,        \* worker -> where it is
    stale,      \* worker and manifest it has read, and that is written since
    \* bounds and history
    crashes, faults, uses, foreign,
    touched,    \* the paths other programs have changed during a move
    removed,    \* the files other programs have taken a name from
    derailed,   \* the calls recovery has once decided to commit, and failed to
    misled,     \* the undos told that ending their original failed, when it is ended
    raced       \* whether the lock was taken next to a rollback without it

disk    == <<at, bytes, dir, stage>>
records == <<changeset, audited>>
memory  == <<task, lock, frozen, due>>
limits  == <<crashes, faults, uses, foreign>>
history == <<touched, removed, derailed, misled, raced>>
vars == <<disk, journal, order, records, memory, pos, stale, limits, history>>

Plan(c) == task[c].plan
Sources(c) == DOMAIN Plan(c)
IsUndo(c) == task[c].undoes # None

\* mutant: the original goes before the change set that reverts it
OriginalFirst(c) ==
    IF IsUndo(c) THEN <<"original_change_set", "change_set", "audit">> ELSE <<"change_set", "audit">>
\* The participants in the order in which they are committed.
Participants(c) ==
    IF IsUndo(c) THEN <<"change_set", "audit", "original_change_set">> ELSE <<"change_set", "audit">>
Required(c) == {Participants(c)[i] : i \in 1..Len(Participants(c))}

Pending == "committed_pending_participants"
NoManifest(c) ==
    [state |-> "none",
     object |-> [p \in Sources(c) |-> None],    \* objectIdentity
     bytes |-> [p \in Sources(c) |-> None],     \* version
     parent |-> None,       \* the directory, as existing parent of a path in it
     shown |-> {},          \* the operations whose destination link is recorded
     plans |-> FALSE,       \* plannedCreatedDirectories
     made |-> None,         \* createdDirectoryIdentities
     drops |-> None,        \* plannedRemovedDirectoryIdentities
     dropped |-> FALSE,     \* removedDirectories
     facts |-> [i \in Required(c) |-> "pending"]]

NoPlan == [p \in {} |-> p]
Resting == [step |-> "idle", todo |-> {}, tries |-> 0, rolling |-> FALSE]

MoveInit ==
    /\ \E w \in Workloads :
         /\ at = w.at /\ dir = w.dir /\ task = w.task
         /\ crashes = w.crashes /\ faults = w.faults /\ uses = w.uses
         /\ foreign = w.foreign
    /\ bytes = [o \in Objects |-> o]
    /\ stage = [c \in Calls |-> [p \in Paths |-> None]]
    /\ journal = [c \in Calls |-> NoManifest(c)] /\ order = <<>>
    /\ changeset = [c \in Calls |-> "none"] /\ audited = {}
    /\ lock = None /\ frozen = FALSE /\ due = <<>> /\ stale = {}
    /\ pos = [w \in Workers |->
         IF w # Recovery /\ task[w].plan = NoPlan THEN [Resting EXCEPT !.step = "over"] ELSE Resting]
    /\ touched = {} /\ removed = {} /\ derailed = {} /\ misled = {} /\ raced = FALSE

-----------------------------------------------------------------------------
\* The manifest a worker is on, and the operation its loop has come to.
On(w) == IF w = Recovery THEN Head(due).call ELSE w
Installing == {"link", "show", "settle"}
\* Installs go in the order of destinations, everything else of sources.
Here(w) ==
    LET Key(p) == IF pos[w].step \in Installing THEN Plan(On(w))[p] ELSE p
    IN  CHOOSE p \in pos[w].todo : \A q \in pos[w].todo : Key(p) <= Key(q)
Object(w) == journal[On(w)].object[Here(w)]
Target(w) == Plan(On(w))[Here(w)]
Intact(c, p) == bytes[journal[c].object[p]] = journal[c].bytes[p]
Stands(p) == p \in InDir => dir # None
IsEmpty == \A p \in InDir : at[p] = None /\ \A c \in Calls : stage[c][p] = None

Goto(w, s) == pos' = [pos EXCEPT ![w].step = s]
Loop(w, s) == pos' = [pos EXCEPT ![w].step = s, ![w].todo = Sources(On(w))]
\* The loop goes on with its next operation, or the step after it begins.
Done(w, again, next) ==
    LET last == pos[w].todo = {Here(w)} IN
    pos' = [pos EXCEPT ![w].step = IF last THEN next ELSE again,
                       ![w].todo = IF last THEN Sources(On(w)) ELSE @ \ {Here(w)}]

\* writeNext refuses when the manifest on disk is not the one last read.
Fresh(w) == <<w, On(w)>> \notin stale
Readers(c) == {w \in {c, Recovery} : pos[w].step \notin {"idle", "over"}}
Write(w, m) ==
    /\ journal' = [journal EXCEPT ![On(w)] = m]
    /\ stale' = stale \cup ((Readers(On(w)) \ {w}) \X {On(w)})
Become(w, s) == Write(w, [journal[On(w)] EXCEPT !.state = s])

Fault == faults > 0 /\ faults' = faults - 1
=============================================================================
