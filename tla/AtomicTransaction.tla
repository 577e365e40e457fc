------------------------- MODULE AtomicTransaction --------------------------
(***************************************************************************)
(* The transaction engine: prepare, commit, the participants, finalize and *)
(* rollback of one request, one action per file-system call or manifest    *)
(* write between which a crash, a failure or another program can fall.     *)
(*                                                                         *)
(* Source: src/src/transactions/engine.ts and atomicFs.ts.                 *)
(***************************************************************************)
EXTENDS TransactionState

Fault == faults < MaxFault /\ faults' = faults + 1
ToRollback(t) == Become(t, "rollback")

\* What the steps between acquiring and releasing the lock leave alone.
Bystanders == UNCHANGED <<log, before, holder, frozen, recovery, crashes, spent>>

----------------------------------------------------------------------------
\* prepare(): every path is inspected, before the lock is taken.
Inspect(t) ==
    /\ pc[t] = "ready"
    /\ IF \A p \in Targets(t) : Inspectable(t, p)
         THEN /\ before' = [before EXCEPT ![t] =
                    [p \in Path |-> IF p \in Targets(t) THEN target[p] ELSE Absent]]
              /\ Become(t, "inspected")
         ELSE Become(t, "refused") /\ UNCHANGED before
    /\ UNCHANGED <<disk, manifest, recorded, made, facts, effect, log,
                   op, need, holder, frozen, recovery, history>>

\* locks.acquire, then writeInitial.  When that first write fails the rollback
\* that follows fails too, and its error leaves prepare() with the lock held.
Acquire(t) ==
    /\ pc[t] = "inspected"
    /\ IF LockFree
         THEN /\ holder' = {t}
              /\ \/ /\ Transition(t, "preparing")
                    /\ log' = Append(log, t)
                    /\ Become(t, "staging")
                    /\ UNCHANGED faults
                 \/ Fault /\ Become(t, "abandoned") /\ UNCHANGED <<manifest, log>>
         ELSE Become(t, "refused") /\ UNCHANGED <<holder, manifest, log, faults>>
    /\ UNCHANGED <<disk, before, recorded, made, facts, effect, op, need,
                   frozen, recovery, crashes, spent, applied, torn, decided>>

----------------------------------------------------------------------------
\* stageCreate, stageReplace and stageDelete, one operation at a time.
Staging(t, p) == pc[t] = "staging" /\ p \in Targets(t)

StageNext(t, p) ==
    /\ Staging(t, p)
    /\ InState(t, {"inspected", "staged"}) = {}
    /\ First(InState(t, {"planned"}), p)

\* The path is inspected again; then the new bytes are written beside it.
StageFile(t, p) ==
    /\ StageNext(t, p)
    /\ IF Inspectable(t, p) /\ CurrentMatches(t, p)
         THEN /\ IF Kind[t][p] = "delete" THEN UNCHANGED stage ELSE SetStage(t, p, t)
              /\ SetOp(t, p, IF Kind[t][p] = "create" THEN "staged" ELSE "inspected")
              /\ need' = [need EXCEPT ![t] = @ \/ (p \in InDir /\ ~dir)]
              /\ UNCHANGED pc
         ELSE ToRollback(t) /\ UNCHANGED <<stage, op, need>>
    /\ Bystanders
    /\ UNCHANGED <<target, backup, dir, manifest, recorded, made, facts,
                   effect, faults, applied, torn, decided>>

\* The file is linked to a backup name.  A replacement reads the backup and
\* removes both artifacts when it is not the inspected version; a deletion
\* links without reading.
LinkBackup(t, p) ==
    /\ Staging(t, p) /\ op[t][p] = "inspected"
    /\ IF /\ target[p] # Absent
          /\ Kind[t][p] = "replace" => CurrentMatches(t, p)
         THEN /\ SetBackup(t, p, target[p])
              /\ SetOp(t, p, "staged")
              /\ UNCHANGED <<stage, pc>>
         ELSE /\ SetStage(t, p, Absent)
              /\ ToRollback(t)
              /\ UNCHANGED <<backup, op>>
    /\ Bystanders
    /\ UNCHANGED <<target, dir, manifest, recorded, made, facts, effect,
                   need, faults, applied, torn, decided>>

\* The hard link of a creation's probe, or the verification of a deletion's
\* backup link, fails: the artifact stays and no operation refers to it.
LeakArtifact(t, p) ==
    /\ \/ /\ StageNext(t, p) /\ Kind[t][p] = "create"
          /\ Inspectable(t, p) /\ CurrentMatches(t, p)
          /\ SetStage(t, p, t)
          /\ UNCHANGED backup
       \/ /\ Staging(t, p) /\ Kind[t][p] = "delete"
          /\ op[t][p] = "inspected" /\ target[p] # Absent
          /\ SetBackup(t, p, target[p])
          /\ UNCHANGED stage
    /\ Fault
    /\ ToRollback(t)
    /\ Bystanders
    /\ UNCHANGED <<target, dir, manifest, recorded, made, facts, effect,
                   op, need, applied, torn, decided>>

RecordStagedInMemory(t, p) ==  \* mutant
    /\ Staging(t, p) /\ op[t][p] = "staged"
    /\ SetOp(t, p, "recorded")
    /\ Bystanders
    /\ UNCHANGED <<disk, manifest, recorded, made, facts, effect, pc, need,
                   faults, applied, torn, decided>>

\* The staged operation replaces the planned one in the manifest.
RecordStaged(t, p) ==
    /\ Staging(t, p) /\ op[t][p] = "staged"
    /\ recorded' = [recorded EXCEPT ![t] = @ \union {p}]
    /\ SetOp(t, p, "recorded")
    /\ Bystanders
    /\ UNCHANGED <<disk, manifest, made, facts, effect, pc, need,
                   faults, applied, torn, decided>>

PrepareDone(t) ==
    /\ pc[t] = "staging" /\ InState(t, {"recorded"}) = Targets(t)
    /\ Transition(t, "prepared") /\ Become(t, "prepared")
    /\ Bystanders
    /\ UNCHANGED <<disk, recorded, made, facts, effect, op, need,
                   faults, applied, torn, decided>>

----------------------------------------------------------------------------
\* commit()
BeginCommit(t) ==
    /\ pc[t] = "prepared"
    /\ Transition(t, "committing") /\ Become(t, "directories")
    /\ Bystanders
    /\ UNCHANGED <<disk, recorded, made, facts, effect, op, need,
                   faults, applied, torn, decided>>

\* A missing directory is created; one that has appeared is a conflict.
MakeDirectory(t) ==
    /\ pc[t] = "directories"
    /\ IF ~need[t] THEN Become(t, "installing") /\ UNCHANGED dir
       ELSE IF dir THEN ToRollback(t) /\ UNCHANGED dir
       ELSE dir' = TRUE /\ Become(t, "recordDirectory")
    /\ Bystanders
    /\ UNCHANGED <<target, stage, backup, manifest, recorded, made, facts,
                   effect, op, need, faults, applied, torn, decided>>

RecordDirectory(t) ==
    /\ pc[t] = "recordDirectory"
    /\ made' = [made EXCEPT ![t] = TRUE]
    /\ Become(t, "installing")
    /\ Bystanders
    /\ UNCHANGED <<disk, manifest, recorded, facts, effect, op, need,
                   faults, applied, torn, decided>>

\* install(): the target is compared with the before facts ...
CheckTarget(t, p) ==
    /\ pc[t] = "installing"
    /\ InState(t, {"checked", "visible"}) = {}
    /\ First(InState(t, {"recorded"}), p)
    /\ IF CurrentMatches(t, p)
         THEN SetOp(t, p, "checked") /\ UNCHANGED pc
         ELSE ToRollback(t) /\ UNCHANGED op
    /\ Bystanders
    /\ UNCHANGED <<disk, manifest, recorded, made, facts, effect, need,
                   faults, applied, torn, decided>>

\* ... and linked, renamed over or unlinked.  A link or an unlink whose target
\* has appeared or gone fails; a rename replaces whatever is there.
InstallFile(t, p) ==
    /\ pc[t] = "installing" /\ p \in Targets(t) /\ op[t][p] = "checked"
    /\ IF \/ Kind[t][p] = "create" /\ target[p] # Absent
          \/ Kind[t][p] = "delete" /\ target[p] = Absent
         THEN ToRollback(t) /\ UNCHANGED <<target, stage, op, applied>>
         ELSE /\ target' = [target EXCEPT ![p] = After(t, p)]
              /\ IF Kind[t][p] = "replace" THEN SetStage(t, p, Absent) ELSE UNCHANGED stage
              /\ SetOp(t, p, IF Kind[t][p] = "delete" THEN "installed" ELSE "visible")
              /\ applied' = [applied EXCEPT ![t] = @ \union {p}]
              /\ UNCHANGED pc
    /\ Bystanders
    /\ UNCHANGED <<backup, dir, manifest, recorded, made, facts, effect,
                   need, faults, torn, decided>>

\* The installed bytes are read back.  When that fails, or finds other bytes,
\* the operation is never marked installed.
Readback(t, p) ==
    /\ pc[t] = "installing" /\ p \in Targets(t) /\ op[t][p] = "visible"
    /\ \/ /\ target[p] = After(t, p)
          /\ SetOp(t, p, "installed")
          /\ UNCHANGED <<pc, faults, torn>>
       \/ /\ IF target[p] = After(t, p) THEN Fault ELSE UNCHANGED faults
          /\ torn' = torn \union {<<t, p>>}
          /\ ToRollback(t)
          /\ UNCHANGED op
    /\ Bystanders
    /\ UNCHANGED <<disk, manifest, recorded, made, facts, effect, need,
                   applied, decided>>

SomeInstalled(t) == InState(t, {"installed"}) # {}  \* mutant
AllInstalled(t) == InState(t, {"installed"}) = Targets(t)

InstallDone(t) ==
    /\ pc[t] = "installing" /\ AllInstalled(t)
    /\ Transition(t, "committed_pending_participants")
    /\ Become(t, "participants")
    /\ Bystanders
    /\ UNCHANGED <<disk, recorded, made, facts, effect, op, need,
                   faults, applied, torn, decided>>

----------------------------------------------------------------------------
\* commitParticipant(): the effect, then its fact in the manifest.
AllCommitted(t) == \A i \in Part : facts[t][i] = "committed"

Turn(t, i) == /\ pc[t] = "participants"
              /\ First({j \in Part : facts[t][j] # "committed"}, i)

CommitEffect(t, i) ==
    /\ Turn(t, i) /\ i \notin effect[t]
    /\ effect' = [effect EXCEPT ![t] = @ \union {i}]
    /\ Bystanders
    /\ UNCHANGED <<disk, manifest, recorded, made, facts, pc, op, need,
                   faults, applied, torn, decided>>

RecordFact(t, i) ==
    /\ Turn(t, i) /\ i \in effect[t]
    /\ SetFact(t, i, "committed")
    /\ Bystanders
    /\ UNCHANGED <<disk, manifest, recorded, made, effect, pc, op, need,
                   faults, applied, torn, decided>>

\* The action or the recording of its fact fails, with or without the effect.
ParticipantFails(t, i) ==
    /\ Turn(t, i) /\ Fault
    /\ SetFact(t, i, "failed")
    /\ ToRollback(t)
    /\ Bystanders
    /\ UNCHANGED <<disk, manifest, recorded, made, effect, op, need,
                   applied, torn, decided>>

\* finalize(): the commit point.
Finalize(t) ==
    /\ pc[t] = "participants" /\ AllCommitted(t)
    /\ Transition(t, "committed") /\ decided' = decided \union {t}
    /\ Become(t, "cleaning")
    /\ Bystanders
    /\ UNCHANGED <<disk, recorded, made, facts, effect, op, need,
                   faults, applied, torn>>

\* The last guard or the write of "committed" fails: the caller reports that
\* recovery is required and neither finishes nor rolls back.
FinalizeFails(t) ==
    /\ pc[t] = "participants" /\ AllCommitted(t) /\ Fault
    /\ Become(t, "abandoned")
    /\ Bystanders
    /\ UNCHANGED <<disk, manifest, recorded, made, facts, effect, op, need,
                   applied, torn, decided>>

\* Artifacts are removed; one that cannot be is left and cleanup is pending.
CleanUp(t, p) ==
    /\ pc[t] = "cleaning" /\ First(InState(t, {"installed"}), p)
    /\ \/ /\ SetStage(t, p, Absent)
          /\ SetBackup(t, p, Absent)
          /\ UNCHANGED faults
       \/ Fault /\ UNCHANGED <<stage, backup>>
    /\ SetOp(t, p, "finalized")
    /\ Bystanders
    /\ UNCHANGED <<target, dir, manifest, recorded, made, facts, effect, pc,
                   need, applied, torn, decided>>

Acknowledge(t) ==
    /\ pc[t] = "cleaning" /\ InState(t, {"installed"}) = {}
    /\ holder' = holder \ {t}
    /\ Become(t, "done")
    /\ UNCHANGED <<disk, journal, op, need, frozen, recovery, history>>

----------------------------------------------------------------------------
\* rollbackContext()
Prepared(t) == InState(t, OpState \ {"planned", "inspected"})
Pending(t)  == InState(t, {"staged", "recorded", "checked", "visible", "installed", "undoing"})

\* A caller gives a prepared or pending transaction up.
CallerRollback(t) ==
    /\ \/ pc[t] = "prepared"
       \/ pc[t] = "participants" /\ ~AllCommitted(t)
       \/ pc[t] = "retained"
    /\ ToRollback(t)
    /\ UNCHANGED <<disk, journal, op, need, holder, frozen, recovery, history>>

\* Any other call of prepare() or commit() fails without an effect.  A failed
\* replacement staging removes the artifact it has written.
StepFails(t) ==
    /\ pc[t] \in {"staging", "directories", "recordDirectory", "installing"}
    /\ InState(t, {"visible"}) = {}
    /\ Fault
    /\ stage' = [stage EXCEPT ![t] = [p \in Path |->
                    IF p \in InState(t, {"inspected"}) THEN Absent ELSE @[p]]]
    /\ ToRollback(t)
    /\ Bystanders
    /\ UNCHANGED <<target, backup, dir, manifest, recorded, made, facts,
                   effect, op, need, applied, torn, decided>>

BeginRollback(t) ==
    /\ pc[t] = "rollback"
    /\ Transition(t, "rolling_back") /\ Become(t, "rolling")
    /\ Bystanders
    /\ UNCHANGED <<disk, recorded, made, facts, effect, op, need,
                   faults, applied, torn, decided>>

UndoNext(t, p) == /\ pc[t] = "rolling" /\ InState(t, {"undone"}) = {}
                  /\ Last(Pending(t), p)

\* atomicFs.rollback touches the target only of an installed operation, and
\* only when it finds the version there that was installed.
Undo(t, p) ==
    /\ UndoNext(t, p) /\ op[t][p] # "undoing"
    /\ IF op[t][p] = "installed"
         THEN target[p] = After(t, p) /\ SetOp(t, p, "undoing")
         ELSE SetOp(t, p, "undone")
    /\ Bystanders
    /\ UNCHANGED <<disk, manifest, recorded, made, facts, effect, pc,
                   need, faults, applied, torn, decided>>

\* Then the creation is unlinked, the backup renamed over the replacement, or
\* linked where the file was.  Whatever has come there since the comparison is
\* unlinked or replaced as well; only the link does not clobber.
CanUndo(t, p) ==
    CASE Kind[t][p] = "create"  -> target[p] # Absent
      [] Kind[t][p] = "replace" -> TRUE
      [] Kind[t][p] = "delete"  -> target[p] = Absent

UndoFile(t, p) ==
    /\ UndoNext(t, p) /\ op[t][p] = "undoing" /\ CanUndo(t, p)
    /\ target' = [target EXCEPT ![p] = IF Kind[t][p] = "create" THEN Absent ELSE backup[t][p]]
    /\ IF Kind[t][p] = "replace" THEN SetBackup(t, p, Absent) ELSE UNCHANGED backup
    /\ SetOp(t, p, "undone")
    /\ applied' = [applied EXCEPT ![t] = @ \ {p}]
    /\ Bystanders
    /\ UNCHANGED <<stage, dir, manifest, recorded, made, facts, effect, pc,
                   need, faults, torn, decided>>

FinalizeUndone(t, p) ==
    /\ pc[t] = "rolling" /\ p \in InState(t, {"undone"})
    /\ SetStage(t, p, Absent)
    /\ SetBackup(t, p, Absent)
    /\ SetOp(t, p, "finalized")
    /\ Bystanders
    /\ UNCHANGED <<target, dir, manifest, recorded, made, facts, effect, pc,
                   need, faults, applied, torn, decided>>

NoneHalfUndone(t) == pc[t] = "rolling" /\ InState(t, {"undone"}) = {}  \* mutant
AllUndone(t) == pc[t] = "rolling" /\ Prepared(t) = InState(t, {"finalized"})
DirectoryInUse == \E p \in InDir : target[p] # Absent

\* The recorded directory is removed, rolled_back is written, the lock freed.
FinishRollback(t) ==
    /\ AllUndone(t)
    /\ made[t] /\ dir => ~DirectoryInUse
    /\ dir' = (dir /\ ~made[t])
    /\ Transition(t, "rolled_back") /\ Become(t, "aborted")
    /\ holder' = holder \ {t}
    /\ UNCHANGED <<target, stage, backup, before, recorded, made, facts,
                   effect, log, op, need, frozen, recovery, history>>

\* An unexpected target, a directory in use or any failing call: the lock and
\* the evidence are kept, and recovery_required is written if possible.
UndoBlocked(t, p) ==
    /\ UndoNext(t, p)
    /\ \/ op[t][p] = "installed" /\ target[p] # After(t, p)
       \/ op[t][p] = "undoing" /\ ~CanUndo(t, p)

RollbackFails(t) ==
    /\ pc[t] \in {"rollback", "rolling"}
    /\ \/ /\ \/ \E p \in Path : UndoBlocked(t, p)
             \/ AllUndone(t) /\ made[t] /\ dir /\ DirectoryInUse
          /\ Transition(t, "recovery_required")
          /\ UNCHANGED faults
       \/ Fault /\ (Transition(t, "recovery_required") \/ UNCHANGED manifest)
    /\ op' = [op EXCEPT ![t] = [p \in Path |-> IF @[p] = "undoing" THEN "installed" ELSE @[p]]]
    /\ Become(t, "retained")
    /\ Bystanders
    /\ UNCHANGED <<disk, recorded, made, facts, effect, need,
                   applied, torn, decided>>

----------------------------------------------------------------------------
\* What the engine does by itself once a caller has asked for it ...
EngineStep(t) ==
    \/ Inspect(t) \/ Acquire(t) \/ PrepareDone(t)
    \/ MakeDirectory(t) \/ RecordDirectory(t) \/ InstallDone(t)
    \/ Acknowledge(t) \/ BeginRollback(t) \/ FinishRollback(t) \/ RollbackFails(t)
    \/ \E p \in Path :
          \/ StageFile(t, p) \/ LinkBackup(t, p) \/ RecordStaged(t, p)
          \/ CheckTarget(t, p) \/ InstallFile(t, p) \/ Readback(t, p)
          \/ CleanUp(t, p) \/ Undo(t, p) \/ UndoFile(t, p) \/ FinalizeUndone(t, p)

\* ... what its callers ask for, and what fails.
CallerStep(t) ==
    \/ BeginCommit(t) \/ Finalize(t) \/ CallerRollback(t)
    \/ \E i \in Part : CommitEffect(t, i) \/ RecordFact(t, i)

Failure(t) ==
    \/ FinalizeFails(t) \/ StepFails(t)
    \/ \E p \in Path : LeakArtifact(t, p)
    \/ \E i \in Part : ParticipantFails(t, i)
=============================================================================
