------------------------- MODULE TransactionRecovery ------------------------
(***************************************************************************)
(* The recovery coordinator: ensureWorkspaceReady, which every transaction *)
(* awaits and every use of a workspace calls without awaiting it, and the  *)
(* recovery run it starts when the lock is free.                           *)
(* A run takes the manifests in createdAt order and brings each one to an  *)
(* end; any failure freezes the workspace for the life of the server.      *)
(*                                                                         *)
(* Source: src/src/transactions/recovery.ts, participantRecovery.ts.       *)
(*                                                                         *)
(*   rpc    where the run is; "idle" when there is none                    *)
(*   rby    the server that runs it and holds the lock for it              *)
(*   rpos   the position in log of the manifest it works on                *)
(*   rfrom  that manifest's state when the run came to it (initial.state)  *)
(*   rseen  what it found at the target it is about to restore (current)   *)
(*   todo   the operations a loop over them has still to visit             *)
(***************************************************************************)
EXTENDS TransactionState

current == log[rpos]

Step(phase) == rpc' = phase

\* The locals of a run go out of scope when it is over.
RunOver == Step("idle") /\ rpos' = 1 /\ rfrom' = "none" /\ rseen' = Absent /\ todo' = {}

\* What recovering one manifest leaves alone.
Elsewhere == UNCHANGED <<before, recorded, made, effect, log, memory,
                         rby, rpos, crashes, spent, torn>>

----------------------------------------------------------------------------
\* A request joins the run its server has in flight; a lock held by a live
\* owner lets it through; otherwise it takes the lock and starts a run.
EnsureReady(t) ==
    /\ pc[t] = "idle"
    /\ IF Home[t] \in frozen
         THEN Become(t, "refused") /\ UNCHANGED <<rpc, rby, rpos>>
       ELSE IF rpc # "idle"
         THEN /\ Become(t, IF rby = Home[t] THEN "waiting" ELSE "ready")
              /\ UNCHANGED <<rpc, rby, rpos>>
       ELSE IF holder # {}
         THEN Become(t, "ready") /\ UNCHANGED <<rpc, rby, rpos>>
       ELSE /\ Become(t, "waiting")
            /\ Step("scan") /\ rby' = Home[t] /\ rpos' = 1
    /\ UNCHANGED <<disk, journal, op, need, holder, frozen, rfrom, rseen, todo, history>>

\* Any tool that is given the workspace starts a run, and does not wait for it.
UseWorkspace(s) ==
    /\ s \notin frozen /\ LockFree
    /\ Step("scan") /\ rby' = s /\ rpos' = 1
    /\ UNCHANGED <<disk, journal, memory, rfrom, rseen, todo, history>>

ResumeNobody(phase) == pc' = pc  \* mutant

ResumeAnyway(phase) ==  \* mutant
    pc' = [t \in Tx |-> IF pc[t] = "waiting" /\ Home[t] = rby THEN "ready" ELSE pc[t]]

\* The requests of the server that waited for the run go on, or fail.
Resume(phase) ==
    pc' = [t \in Tx |-> IF pc[t] = "waiting" /\ Home[t] = rby THEN phase ELSE pc[t]]

RunEnds == /\ rpc = "scan" /\ rpos > Len(log)
           /\ RunOver
           /\ Resume("ready")
           /\ UNCHANGED <<disk, journal, op, need, holder, frozen, rby, history>>

----------------------------------------------------------------------------
\* recoveryActionForState: what is done about the next manifest.
Choose ==
    /\ rpc = "scan" /\ rpos <= Len(log)
    /\ rfrom' = manifest[current]
    /\ CASE manifest[current] = "committed_pending_participants" ->
                Step("reconcile") /\ UNCHANGED todo
         [] manifest[current] = "committed" ->
                Step("cleanup") /\ todo' = Targets(current)
         [] manifest[current] = "rolled_back" ->
                Step("recheck") /\ todo' = Targets(current)
         [] OTHER -> Step("decided") /\ UNCHANGED todo
    /\ Elsewhere
    /\ UNCHANGED <<disk, manifest, facts, faults, applied, decided, rseen>>

\* reconcileParticipants: an effect that is recorded or found by its probe is
\* present; the transaction commits when all are, else it is rolled back.
Present(t) == {i \in Part : facts[t][i] = "committed" \/ i \in effect[t]}
Ambiguous(t) == \E i \in Unprobeable : facts[t][i] # "committed"

Reconcile ==
    /\ rpc = "reconcile" /\ ~Ambiguous(current)
    /\ facts' = [facts EXCEPT ![current] = [i \in Part |->
                    IF i \in Present(current) THEN "committed" ELSE "failed"]]
    /\ IF Present(current) = Part
         THEN /\ Transition(current, "committed")
              /\ decided' = decided \union {current}
              /\ Step("cleanup") /\ todo' = Targets(current)
         ELSE Step("decided") /\ UNCHANGED <<manifest, todo, decided>>
    /\ Elsewhere
    /\ UNCHANGED <<disk, rfrom, faults, applied, rseen>>

BeginRestore ==
    /\ rpc = "decided"
    /\ Transition(current, "rolling_back")
    /\ Step("restore") /\ todo' = Targets(current)
    /\ Elsewhere
    /\ UNCHANGED <<disk, facts, rfrom, faults, applied, decided, rseen>>

\* restoreOperation, last operation first.  A target with its before facts is
\* left alone; a creation is unlinked; otherwise the recorded backup is renamed
\* over the transaction's own version, or linked where there is no file.
Restored(t, p) == target[p] = before[t][p]

AnyRestorable(t, p) == TRUE  \* mutant
Restorable(t, p) ==
    \/ Restored(t, p)
    \/ Kind[t][p] = "create" /\ target[p] = t
    \/ /\ Kind[t][p] # "create"
       /\ p \in recorded[t] /\ backup[t][p] = before[t][p]
       /\ target[p] \in {After(t, p), Absent}

RestoreTarget(p) ==
    /\ rpc = "restore" /\ Last(todo, p) /\ Restorable(current, p)
    /\ IF Restored(current, p)
         THEN /\ applied' = [applied EXCEPT ![current] = @ \ {p}]
              /\ Step("dropStage") /\ UNCHANGED rseen
         ELSE Step("restoring") /\ rseen' = target[p] /\ UNCHANGED applied
    /\ Elsewhere
    /\ UNCHANGED <<disk, manifest, facts, rfrom, todo, faults, decided>>

\* The unlink or the rename takes what has come there since; the link does not.
CanRestore(p) ==
    IF rseen = Absent THEN target[p] = Absent
                      ELSE Kind[current][p] = "create" => target[p] # Absent

RestoreFile(p) ==
    /\ rpc = "restoring" /\ Last(todo, p) /\ CanRestore(p)
    /\ target' = [target EXCEPT ![p] =
                    IF Kind[current][p] = "create" THEN Absent ELSE backup[current][p]]
    /\ IF rseen # Absent /\ Kind[current][p] = "replace"
         THEN SetBackup(current, p, Absent) ELSE UNCHANGED backup
    /\ applied' = [applied EXCEPT ![current] = @ \ {p}]
    /\ Step("dropStage") /\ rseen' = Absent
    /\ Elsewhere
    /\ UNCHANGED <<stage, dir, manifest, facts, rfrom, todo, faults, decided>>

\* removeArtifactIfProven: only an artifact the manifest names and only with
\* the version the manifest says.  A program that writes a file in place writes
\* all its names, an artifact among them.
StageProven(t, p)  == p \in recorded[t] => stage[t][p] \in {t, Absent}
BackupProven(t, p) == p \in recorded[t] => backup[t][p] \in {before[t][p], Absent}
Proven(t, p) == StageProven(t, p) /\ BackupProven(t, p)
RemoveStage(t, p) ==
    IF p \in recorded[t] THEN SetStage(t, p, Absent) ELSE UNCHANGED stage
RemoveBackup(t, p) ==
    IF p \in recorded[t] THEN SetBackup(t, p, Absent) ELSE UNCHANGED backup

DropStage(p) ==
    /\ rpc = "dropStage" /\ Last(todo, p) /\ StageProven(current, p)
    /\ RemoveStage(current, p)
    /\ Step("dropBackup")
    /\ Elsewhere
    /\ UNCHANGED <<target, backup, dir, manifest, facts, rfrom, todo,
                   faults, applied, decided, rseen>>

DropBackup(p) ==
    /\ rpc = "dropBackup" /\ Last(todo, p) /\ BackupProven(current, p)
    /\ RemoveBackup(current, p)
    /\ todo' = todo \ {p}
    /\ Step("restore")
    /\ Elsewhere
    /\ UNCHANGED <<target, stage, dir, manifest, facts, rfrom,
                   faults, applied, decided, rseen>>

\* verifyBeforeState of every operation ...
Verify ==
    /\ rpc = "restore" /\ todo = {}
    /\ \A p \in Targets(current) : Restored(current, p)
    /\ Step("remove")
    /\ Elsewhere
    /\ UNCHANGED <<disk, manifest, facts, rfrom, todo, faults, applied, decided, rseen>>

\* ... then removeCreatedDirectories; a rolled_back manifest stays as it is.
DirectoryOccupied == made[current] /\ dir /\ \E p \in InDir : target[p] # Absent

RemoveDirectory ==
    /\ rpc = "remove" /\ ~DirectoryOccupied
    /\ dir' = (dir /\ ~made[current])
    /\ Step(IF manifest[current] = "rolled_back" THEN "record" ELSE "persist")
    /\ Elsewhere
    /\ UNCHANGED <<target, stage, backup, manifest, facts, rfrom, todo,
                   faults, applied, decided, rseen>>

Persist ==
    /\ rpc = "persist"
    /\ Transition(current, "rolled_back")
    /\ Step("record")
    /\ Elsewhere
    /\ UNCHANGED <<disk, facts, rfrom, todo, faults, applied, decided, rseen>>

\* finish_rollback_cleanup: each target of a rolled-back transaction is compared
\* with its before facts again, and its artifacts are removed.
Recheck(p) ==
    /\ rpc = "recheck" /\ First(todo, p)
    /\ Restored(current, p) /\ Proven(current, p)
    /\ RemoveStage(current, p) /\ RemoveBackup(current, p)
    /\ todo' = todo \ {p}
    /\ Elsewhere
    /\ UNCHANGED <<target, dir, manifest, facts, rpc, rfrom,
                   faults, applied, decided, rseen>>

Rechecked ==
    /\ rpc = "recheck" /\ todo = {} /\ Step("remove")
    /\ Elsewhere
    /\ UNCHANGED <<disk, manifest, facts, rfrom, todo, faults, applied, decided, rseen>>

\* verifyCommittedState: a committed transaction only loses its artifacts.
CleanCommitted(p) ==
    /\ rpc = "cleanup" /\ First(todo, p) /\ Proven(current, p)
    /\ RemoveStage(current, p) /\ RemoveBackup(current, p)
    /\ todo' = todo \ {p}
    /\ Elsewhere
    /\ UNCHANGED <<target, dir, manifest, facts, rpc, rfrom,
                   faults, applied, decided, rseen>>

Cleaned ==
    /\ rpc = "cleanup" /\ todo = {} /\ Step("record")
    /\ Elsewhere
    /\ UNCHANGED <<disk, manifest, facts, rfrom, todo, faults, applied, decided, rseen>>

\* recordRecovery appends an audit event; then comes the next manifest.
RecordRecovery ==
    /\ rpc = "record"
    /\ Step("scan") /\ rpos' = rpos + 1
    /\ UNCHANGED <<disk, journal, memory, rby, rfrom, rseen, todo, history>>

----------------------------------------------------------------------------
\* Where recovery cannot prove what it needs.
Blocked ==
    \/ rpc = "reconcile" /\ Ambiguous(current)
    \/ \E p \in todo :
          \/ rpc = "restore" /\ Last(todo, p) /\ ~Restorable(current, p)
          \/ rpc = "restoring" /\ Last(todo, p) /\ ~CanRestore(p)
          \/ rpc = "dropStage" /\ Last(todo, p) /\ ~StageProven(current, p)
          \/ rpc = "dropBackup" /\ Last(todo, p) /\ ~BackupProven(current, p)
          \/ /\ rpc = "recheck" /\ First(todo, p)
             /\ ~(Restored(current, p) /\ Proven(current, p))
          \/ rpc = "cleanup" /\ First(todo, p) /\ ~Proven(current, p)
    \/ /\ rpc = "restore" /\ todo = {}
       /\ \E p \in Targets(current) : ~Restored(current, p)
    \/ rpc = "remove" /\ DirectoryOccupied

AlwaysOverwritten == TRUE  \* mutant
Overwritten == rfrom # "committed"

\* The catch of recoverManifest and of recoverWorkspace: unless the manifest
\* said committed when the run came to it, it is set to recovery_required (if
\* that write succeeds); the workspace is frozen and the lock released.
RecoveryFails ==
    /\ \/ Blocked /\ UNCHANGED faults
       \/ /\ rpc \notin {"idle", "scan"}
          /\ faults < MaxFault /\ faults' = faults + 1
    /\ \/ Overwritten /\ Transition(current, "recovery_required")
       \/ (~Overwritten \/ faults' # faults) /\ UNCHANGED manifest
    /\ frozen' = frozen \union {rby}
    /\ RunOver
    /\ Resume("refused")
    /\ UNCHANGED <<disk, before, recorded, made, facts, effect, log, op, need,
                   holder, rby, crashes, spent, applied, torn, decided>>

RecoveryStep ==
    \/ RunEnds \/ Choose \/ Reconcile \/ BeginRestore \/ Verify
    \/ RemoveDirectory \/ Persist \/ Rechecked \/ Cleaned \/ RecordRecovery
    \/ RecoveryFails
    \/ \E p \in Path : \/ RestoreTarget(p) \/ RestoreFile(p) \/ DropStage(p) \/ DropBackup(p)
                       \/ Recheck(p) \/ CleanCommitted(p)
=============================================================================
