---------------------------- MODULE MoveInvariant ----------------------------
(***************************************************************************)
(* The inductive invariants of MoveSystem. MoveInv, behind NoFileLost: who  *)
(* works on the workspace, what its position says of the manifest it is on, *)
(* and where the files of that manifest have their names meanwhile.         *)
(* RecordsInv, behind RecordsAgree and RecoveredBeforeMove: what is known of*)
(* manifests, change sets and audit events, whoever has taken the lock.     *)
(***************************************************************************)
EXTENDS MoveSystem

States == {"none", "preparing", "prepared", "committing", Pending, "commit_decided",
           "committed", "rolling_back", "rolled_back", "recovery_required"}
Manifests ==
    [state : States, object : UNION {[S -> Names] : S \in SUBSET Paths},
     bytes : UNION {[S -> Names] : S \in SUBSET Paths}, parent : Directories,
     shown : SUBSET Paths, plans : BOOLEAN, made : Directories, drops : Directories,
     dropped : BOOLEAN,
     facts : UNION {[S -> {"pending", "committed", "failed"}] :
                    S \in SUBSET {"change_set", "audit", "original_change_set"}}]

\* The steps of a call that has the lock, and of one that may have lost it.
Held == Committing \cup {"inspect", "effect", "fact", "failed",
                         "decide", "drop", "dropped", "finish"}
Undoing == Rolling \cup {"unproven"}
\* The steps that have a loop's operation in hand.
Looping == {"stage", "unlink", "link", "show", "settle", "restage", "remove", "restore",
            "unstage", "confirm", "sweep", "verify"}
CallSteps == Held \cup Undoing \cup {"idle", "waiting", "over", "reconcile"}
RunSteps == Rolling \cup {"idle", "choose", "probe", "confirm", "decide", "drop", "dropped",
                          "finish", "sweep", "verify", "record"}
Positions == [step : CallSteps \cup RunSteps, todo : SUBSET Paths, tries : Nat, rolling : BOOLEAN]

DiskOK ==
    /\ at \in [Paths -> Names] /\ bytes \in [Objects -> Objects] /\ dir \in Directories
    /\ stage \in [Calls -> [Paths -> Names]]
RecordsOK ==
    /\ journal \in [Calls -> Manifests] /\ order \in Seq(Calls)
    /\ changeset \in [Calls -> {"none", "active", "undone", "recovery_required"}]
    /\ audited \subseteq Calls
MemoryOK ==
    /\ task \in [Calls -> Requests] /\ lock \in Workers \cup {None} /\ frozen \in BOOLEAN
    /\ due \in Seq([call : Calls, state : States])
    /\ pos \in [Workers -> Positions] /\ stale \subseteq Workers \X Calls
HistoryOK ==
    /\ crashes \in Nat /\ faults \in Nat /\ uses \in Nat /\ foreign \subseteq Foreign
    /\ touched \subseteq Paths /\ removed \subseteq Objects
    /\ derailed \subseteq Calls /\ misled \subseteq Calls
    /\ raced \in BOOLEAN
TypeOK == DiskOK /\ RecordsOK /\ MemoryOK /\ HistoryOK

-----------------------------------------------------------------------------
(* Who works: the holder of the lock, or one call that rolls back without   *)
(* it and next to which nobody has taken it.                                *)

Active(c) == pos[c].step \in Held \cup Undoing
LockInv ==
    /\ \A c \in Calls : pos[c].step \in CallSteps
    /\ pos[Recovery].step \in RunSteps
    /\ \A c \in Calls : pos[c].step \in Held => lock = c
    /\ \A c \in Calls : pos[c].step = "waiting" => lock = Recovery
    /\ pos[Recovery].step # "idle" <=> lock = Recovery
    /\ ~raced =>
         /\ \A c \in Calls : Active(c) => lock \in {c, None}
         /\ \A c, d \in Calls : Active(c) /\ Active(d) => c = d

\* A call that has not planned has no manifest, one that works on files has,
\* and the order names each manifest once.
OrderInv ==
    /\ \A c \in Calls : pos[c].step \in {"idle", "waiting", "inspect"} => journal[c].state = "none"
    /\ \A c \in Calls : Active(c) /\ pos[c].step # "inspect" => c \in Present
    /\ \A c \in Calls : pos[c].step # "over" => Sources(c) # {}
    /\ \A c \in Present : Sources(c) # {} /\ \E i \in 1..Len(order) : order[i] = c
    /\ \A c \in Present : \A p \in Sources(c) : journal[c].object[p] \in Objects
    /\ \A i \in 1..Len(order) : order[i] \in Present
    /\ \A i, j \in 1..Len(order) : order[i] = order[j] => i = j

\* A loop has something to do, and a run a manifest to do it on.
TodoInv ==
    /\ \A w \in Workers : pos[w].step \in Looping =>
         pos[w].todo # {} /\ pos[w].todo \subseteq Sources(On(w))
    /\ \A i \in 1..Len(due) : due[i].call \in Present
    /\ pos[Recovery].step \notin {"idle", "choose"} => due # <<>>

\* A run has still to visit every manifest that is not at its end, and finds
\* it as it was when the run began.
RunInv ==
    lock = Recovery =>
        /\ \A d \in Present : journal[d].state \in Final \/ \E i \in 1..Len(due) : due[i].call = d
        /\ \A i \in 1..Len(due) : i # 1 \/ pos[Recovery].step = "choose" =>
             due[i].state = journal[due[i].call].state
        /\ \A i, j \in 1..Len(due) : due[i].call = due[j].call => i = j

-----------------------------------------------------------------------------
(* What the position of a worker says of the manifest it is on.             *)

Works(w) == IF w = Recovery THEN pos[w].step \notin {"idle", "choose"} ELSE Active(w)
StateAt(step) ==
    CASE step = "inspect" -> {"none"}
      [] step = "begin" -> {"prepared"}
      [] step \in Committing \ {"begin"} -> {"committing"}
      [] step \in {"probe", "effect", "fact", "failed", "decide"} -> {Pending}
      [] step = "confirm" -> {Pending, "commit_decided"}
      [] step \in {"drop", "dropped", "finish"} -> {"commit_decided"}
      [] step = "sweep" -> {"committed"}
      [] step = "verify" -> {"rolled_back"}
      [] step \in {"rmdir", "conclude"} -> {"rolling_back", "rolled_back"}
      [] step = "record" -> Final
      [] OTHER -> States

PhaseAt(w) ==
    /\ journal[On(w)].state \in StateAt(pos[w].step)
    /\ pos[w].step \in Held \cup {"probe", "confirm"} => ~pos[w].rolling
    /\ pos[w].step \in Undoing /\ pos[w].rolling =>
         journal[On(w)].state = "rolling_back" \/ (w = Recovery /\ Seen = "rolled_back")
    /\ pos[w].step \in Rolling \ {"rollback"} => pos[w].rolling \/ (w = Recovery /\ Seen = "rolled_back")
    /\ w = Recovery /\ pos[w].step = "verify" => Seen = "rolled_back"
    /\ w = Recovery /\ Seen = "rolled_back" =>
         /\ pos[w].step \in {"verify", "rmdir", "conclude", "record"}
         /\ journal[On(w)].state = "rolled_back"

-----------------------------------------------------------------------------
(* Where the files of a manifest have their names.                          *)

Gone(c, p) == journal[c].object[p] \in removed
\* A source a rollback need not fear for.
Safe(c, p) ==
    \/ at[p] = journal[c].object[p] \/ stage[c][p] = journal[c].object[p] \/ Gone(c, p)
Back(c, p) == at[p] = journal[c].object[p] \/ Gone(c, p)

\* What a loop has done with the operations it has visited.
LoopAt(w) ==
    LET c == On(w)
        step == pos[w].step
        visited == Sources(c) \ pos[w].todo
    IN  /\ step \in {"show", "settle"} => at[Target(w)] = Object(w) \/ Object(w) \in removed
        /\ step \in {"link", "show", "settle"} => \A p \in visited : stage[c][p] = None
        /\ step = "pend" => \A p \in Sources(c) : stage[c][p] = None
        /\ step = "restage" => \A p \in visited : Safe(c, p)
        /\ step = "remove" => \A r \in Sources(c) : Anchor(c, r, r) => Safe(c, r)
        /\ step = "restore" => \A p \in visited : Back(c, p)
        /\ step = "unstage" => \A p \in Sources(c) : Back(c, p)

\* A stage name is that of its operation's file, and once everything is
\* installed there is none until a rollback makes it.
StageInv ==
    \A c \in Calls : \A p \in Paths : stage[c][p] # None =>
        /\ c \in Present /\ p \in Sources(c) /\ stage[c][p] = journal[c].object[p]
        /\ journal[c].state \notin {Pending, "commit_decided", "committed"}

FileInv == (\E c \in Present : ~Anchored(c)) \/ FilesKept

-----------------------------------------------------------------------------
(* What the manifests and the stores say, whoever took the lock: a write is *)
(* refused unless the manifest is the one last read, so that what a worker  *)
(* knows of a manifest holds until it is Fresh no more, and a manifest that *)
(* is at its end stays there.                                               *)

Sharing == {"effect", "fact", "failed"}
Deciding == {"decide", "drop", "dropped", "finish"}
Early == {"idle", "waiting", "inspect"} \cup Committing

\* The manifest that a run is on.
HeadAt ==
    LET step == pos[Recovery].step
        state == journal[Current].state
    IN  /\ Seen = "rolled_back" =>
             state = "rolled_back" /\ step \in {"verify", "rmdir", "conclude", "record"}
        /\ step = "verify" => Seen = "rolled_back"
        /\ step = "probe" => ~pos[Recovery].rolling
        /\ step \in {"sweep", "record"} => state \in Final
        /\ Fresh(Recovery) /\ Seen # "rolled_back" =>
             /\ step \in {"probe", "decide"} => state = Pending
             /\ step = "confirm" => state \in {Pending, "commit_decided"}
             /\ step \in {"drop", "dropped", "finish"} => state = "commit_decided"
             /\ step = "rollback" => IF pos[Recovery].rolling THEN state = "rolling_back"
                                     ELSE state \notin Final \cup {"commit_decided"}
             /\ step \in Rolling \ {"rollback"} => state = "rolling_back"

\* A run goes through everything that is unfinished, in the state it saw unless
\* that was written since.
ScanInv ==
    lock = Recovery =>
        /\ \A d \in Present : journal[d].state \in Final \/ \E i \in 1..Len(due) : due[i].call = d
        /\ \A i, j \in 1..Len(due) : due[i].call = due[j].call => i = j
        /\ \A i \in 1..Len(due) :
             /\ i # 1 \/ pos[Recovery].step = "choose"
             /\ due[i].state \in Final \/ <<Recovery, due[i].call>> \notin stale
             => due[i].state = journal[due[i].call].state
        /\ pos[Recovery].step # "choose" => HeadAt

\* A call that has the lock is alone with what is unfinished.
PhaseInv ==
    /\ \A c \in Calls : pos[c].step \in Held =>
         /\ journal[c].state \in StateAt(pos[c].step)
         /\ \A d \in Present : d # c => journal[d].state \in Final
    /\ \A c \in Calls : pos[c].step \in Undoing /\ journal[c].state \in Final => ~Fresh(c)
    /\ ScanInv

\* A participant that is recorded has its effect in its store.
Effected(c, i) ==
    CASE i = "change_set" -> changeset[c] # "none"
      [] i = "audit" -> c \in audited
      [] OTHER -> changeset[Original(c)] = "undone"
FactIs(c, i, fact) == journal[c].facts[i] = fact
FactsAt(c) ==
    /\ DOMAIN journal[c].facts = Required(c)
    /\ \A i \in Required(c) : FactIs(c, i, "committed") => Effected(c, i)
    /\ journal[c].state \in {"commit_decided", "committed"} \/ pos[c].step \in Deciding =>
         \A i \in Required(c) : FactIs(c, i, "committed")
    /\ pos[c].step \in Early =>
         changeset[c] = "none" /\ \A i \in Required(c) : FactIs(c, i, "pending")
    /\ pos[c].step \in Sharing =>
         /\ \A i \in Required(c) : ~FactIs(c, i, "failed")
         /\ \E i \in Required(c) : FactIs(c, i, "pending")
         /\ FactIs(c, "audit", "committed") => FactIs(c, "change_set", "committed")
         /\ IsUndo(c) => FactIs(c, "original_change_set", "pending")
         /\ FactIs(c, "change_set", "pending") /\ pos[c].step = "effect" => changeset[c] = "none"
         /\ pos[c].step = "fact" => Effected(c, Turn(c))
StoreInv ==
    /\ \A c \in Calls : FactsAt(c)
    /\ pos[Recovery].step \notin {"idle", "choose"} /\ Fresh(Recovery) /\ journal[Current].state = Pending =>
         /\ pos[Recovery].step \in {"confirm", "decide"} =>
              \A i \in Required(Current) : FactIs(Current, i, "committed")
         /\ pos[Recovery].step = "rollback" => \E i \in Required(Current) : FactIs(Current, i, "failed")

\* An undo that has, or may have, ended the change set it reverts.
Standing(c) ==
    /\ journal[c].state \in {Pending, "commit_decided", "committed"}
    /\ FactIs(c, "change_set", "committed") /\ FactIs(c, "audit", "committed")
    /\ ~FactIs(c, "original_change_set", "failed")
Undone(c) == IsUndo(c) /\ changeset[Original(c)] = "undone"
Unended(c) == pos[c].step \in Held \cup {"waiting"} \/ journal[c].state \notin {"none"} \cup Final
Carried(c) ==
    /\ Standing(c)
    /\ \/ pos[c].step \in Deciding \cup {"over"}
       \/ pos[c].step = "fact" /\ Turn(c) = "original_change_set"
Ending(c) == Standing(c) \/ c \in misled
\* It is the only one, and stands until it is committed or given up for good, or
\* is misled and comes to no further participant.
UndoInv ==
    /\ \A c \in Calls : Undone(c) /\ Unended(c) => Carried(c) \/ c \in derailed \cup misled
    /\ \A c, e \in Calls :
         Undone(c) /\ Undone(e) /\ Ending(c) /\ Ending(e) /\ Original(c) = Original(e) => c = e
    /\ \A d \in Calls : changeset[d] = "undone" =>
         \E c \in Calls : Original(c) = d /\ (Ending(c) \/ c \in derailed)
    /\ \A c \in derailed : journal[c].state \in {"recovery_required", "rolling_back", "rolled_back"}
    /\ \A c \in misled : Undone(c) /\ pos[c].step \notin Early \cup Deciding \cup {"effect", "fact"}

RecordsInv == PhaseInv /\ StoreInv /\ UndoInv

-----------------------------------------------------------------------------
BaseInv == TypeOK /\ LockInv /\ OrderInv /\ TodoInv
WorkInv == /\ RunInv /\ StageInv /\ FileInv /\ RecoveredBeforeMove
           /\ \A w \in Workers : Works(w) => PhaseAt(w) /\ LoopAt(w)
MoveInv == BaseInv /\ (~raced => WorkInv)
=============================================================================
