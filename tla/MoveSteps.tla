------------------------------ MODULE MoveSteps ------------------------------
(***************************************************************************)
(* What the move engine and the recovery do alike with one manifest: to     *)
(* carry a commit out once it is decided, and to roll a transaction back.   *)
(* Worker w is a call, on its own manifest, or the recovery run.            *)
(*                                                                          *)
(* Source: src/src/moves/engine.ts, recovery.ts.                            *)
(***************************************************************************)
EXTENDS MoveState

Stays == UNCHANGED <<order, records, memory, limits, history>>

-----------------------------------------------------------------------------
(* A decided commit.                                                        *)

Decide(w) ==
    /\ pos[w].step = "decide" /\ Fresh(w)
    /\ Become(w, "commit_decided")
    /\ Goto(w, IF journal[On(w)].drops = None THEN "finish" ELSE "drop")
    /\ UNCHANGED disk /\ Stays

\* The directory that a move has made goes with its undo.
CanDrop(w) ==
    \/ dir = journal[On(w)].drops /\ IsEmpty
    \/ w = Recovery /\ dir = None
Drop(w) ==
    /\ pos[w].step = "drop" /\ CanDrop(w)
    /\ dir' = None /\ Goto(w, "dropped")
    /\ UNCHANGED <<at, bytes, stage, journal, stale>> /\ Stays

Dropped(w) ==
    /\ pos[w].step = "dropped"
    /\ IF journal[On(w)].dropped
         THEN UNCHANGED <<journal, stale>>
         ELSE Fresh(w) /\ Write(w, [journal[On(w)] EXCEPT !.dropped = TRUE])
    /\ Goto(w, "finish")
    /\ UNCHANGED disk /\ Stays

-----------------------------------------------------------------------------
(* A rollback: four loops over the operations, in the order of their        *)
(* sources, and the directory.                                              *)

BeginRollback(w) ==
    /\ pos[w].step = "rollback"
    /\ w = Recovery => ~journal[On(w)].dropped
    /\ IF pos[w].rolling
         THEN UNCHANGED <<journal, stale>>
         ELSE Fresh(w) /\ Become(w, "rolling_back")
    /\ pos' = [pos EXCEPT ![w].step = "restage", ![w].todo = Sources(On(w)), ![w].rolling = TRUE]
    /\ UNCHANGED disk /\ Stays

\* The recovery also asks for the directories the operation was planned with.
SourceStands(w) == w = Recovery /\ Here(w) \in InDir => dir = journal[On(w)].parent
TargetStands(w) ==
    LET m == journal[On(w)] IN
    w = Recovery /\ Target(w) \in InDir =>
        IF dir = None
          THEN m.plans
          ELSE dir = m.made \/ (m.made = None /\ ~m.plans /\ dir = m.parent)

\* ensureRollbackStages: every file has its stage name or its source name.
AtStage(w)  == stage[On(w)][Here(w)] = Object(w)
\* mutant: whatever file has the name of the source will do
AtSourceByName(w) == at[Here(w)] # None /\ SourceStands(w)
AtSource(w) == at[Here(w)] = Object(w) /\ SourceStands(w)
CanRestage(w) ==
    /\ Stands(Here(w))
    /\ \/ AtStage(w) \/ AtSource(w)
       \/ at[Target(w)] = Object(w) /\ SourceStands(w) /\ TargetStands(w)
Restage(w) ==
    /\ pos[w].step = "restage" /\ CanRestage(w)
    /\ stage' = IF AtSource(w) THEN stage ELSE [stage EXCEPT ![On(w)][Here(w)] = Object(w)]
    /\ Done(w, "restage", "remove")
    /\ UNCHANGED <<at, bytes, dir, journal, stale>> /\ Stays

\* removeInstalledDestinations
Ours(w) == at[Target(w)] = Object(w)
SourceOfAnother(w) ==
    Target(w) \in Sources(On(w)) /\ at[Target(w)] = journal[On(w)].object[Target(w)]
CanRemove(w) ==
    /\ TargetStands(w)
    /\ \/ at[Target(w)] = None \/ Ours(w) \/ SourceOfAnother(w)
       \/ Here(w) \notin journal[On(w)].shown
\* mutant: the destination goes when the manifest has it recorded, not when it is there
RemoveRecorded(w) ==
    /\ pos[w].step = "remove" /\ CanRemove(w)
    /\ at' = IF Ours(w) /\ Here(w) \in journal[On(w)].shown
               THEN [at EXCEPT ![Target(w)] = None] ELSE at
    /\ Done(w, "remove", "restore")
    /\ UNCHANGED <<bytes, dir, stage, journal, stale>> /\ Stays
Remove(w) ==
    /\ pos[w].step = "remove" /\ CanRemove(w)
    /\ at' = IF Ours(w) THEN [at EXCEPT ![Target(w)] = None] ELSE at
    /\ Done(w, "remove", "restore")
    /\ UNCHANGED <<bytes, dir, stage, journal, stale>> /\ Stays

\* restoreOriginalSources links; the recovery's restoreSources then verifies.
CanRestore(w) ==
    /\ Stands(Here(w)) /\ SourceStands(w)
    /\ \/ at[Here(w)] = None /\ AtStage(w)
       \/ AtSource(w) /\ (w = Recovery => Intact(On(w), Here(w)))
Restore(w) ==
    /\ pos[w].step = "restore" /\ CanRestore(w)
    /\ IF AtSource(w)
         THEN Done(w, "restore", "unstage") /\ UNCHANGED at
         ELSE at' = [at EXCEPT ![Here(w)] = Object(w)] /\ UNCHANGED pos
    /\ UNCHANGED <<bytes, dir, stage, journal, stale>> /\ Stays

\* cleanupRollbackStages
Unstage(w) ==
    /\ pos[w].step = "unstage"
    /\ stage' = [stage EXCEPT ![On(w)][Here(w)] = None]
    /\ Done(w, "unstage", "rmdir")
    /\ UNCHANGED <<at, bytes, dir, journal, stale>> /\ Stays

\* A directory that was made before the manifest could name it is in the way.
CanRemoveDirectory(w) ==
    LET m == journal[On(w)] IN
    IF m.made # None THEN dir = None \/ (dir = m.made /\ IsEmpty) ELSE m.plans => dir = None
RemoveDirectory(w) ==
    /\ pos[w].step = "rmdir" /\ CanRemoveDirectory(w)
    /\ dir' = IF journal[On(w)].made # None THEN None ELSE dir
    /\ Goto(w, "conclude")
    /\ UNCHANGED <<at, bytes, stage, journal, stale>> /\ Stays

RollbackStep(w) ==
    \/ BeginRollback(w) \/ Restage(w) \/ Remove(w) \/ Restore(w) \/ Unstage(w) \/ RemoveDirectory(w)

Rolling == {"rollback", "restage", "remove", "restore", "unstage", "rmdir", "conclude"}

\* What keeps the next step of a decided commit or a rollback from being taken.
Blocked(w) ==
    CASE pos[w].step \in {"decide", "finish", "conclude"} -> ~Fresh(w)
      [] pos[w].step = "drop"     -> ~CanDrop(w)
      [] pos[w].step = "dropped"  -> ~journal[On(w)].dropped /\ ~Fresh(w)
      [] pos[w].step = "rollback" -> \/ ~pos[w].rolling /\ ~Fresh(w)
                                     \/ w = Recovery /\ journal[On(w)].dropped
      [] pos[w].step = "restage"  -> ~CanRestage(w)
      [] pos[w].step = "remove"   -> ~CanRemove(w)
      [] pos[w].step = "restore"  -> ~CanRestore(w)
      [] pos[w].step = "rmdir"    -> ~CanRemoveDirectory(w)
      [] OTHER -> FALSE
=============================================================================
