-------------------------- MODULE TransactionProofs -------------------------
(***************************************************************************)
(* Proofs about TransactionSystem that hold for every set of paths,        *)
(* requests, servers and participants and for every bound.                 *)
(***************************************************************************)
EXTENDS TransactionInvariant, TLAPS

USE TransactionAssumption

----------------------------------------------------------------------------
(* One entry of a function changes to a value of its range. *)

\* A function of two arguments keeps its type when one value changes.
LEMMA Nested ==
    ASSUME NEW A, NEW B, NEW C, NEW f \in [A -> [B -> C]],
           NEW a \in A, NEW b \in B, NEW c \in C
    PROVE  [f EXCEPT ![a][b] = c] \in [A -> [B -> C]]
OBVIOUS

\* A file may take any version.
LEMMA TargetType ==
    ASSUME DiskTypeOK, NEW p \in Path, NEW v \in Version
    PROVE  [target EXCEPT ![p] = v] \in [Path -> Version]
BY DEF DiskTypeOK

\* A backup may take any version.
LEMMA SetBackupType ==
    ASSUME DiskTypeOK, NEW t \in Tx, NEW p \in Path, NEW v \in Version,
           SetBackup(t, p, v)
    PROVE  backup' \in [Tx -> [Path -> Version]]
BY Nested DEF DiskTypeOK, SetBackup

\* So may a stage file.
LEMMA SetStageType ==
    ASSUME DiskTypeOK, NEW t \in Tx, NEW p \in Path, NEW v \in Version,
           SetStage(t, p, v)
    PROVE  stage' \in [Tx -> [Path -> Version]]
BY Nested DEF DiskTypeOK, SetStage

\* Visible steps are taken and undone.
LEMMA AppliedType ==
    ASSUME HistoryTypeOK, NEW t \in Tx, NEW p \in Path
    PROVE  /\ [applied EXCEPT ![t] = @ \union {p}] \in [Tx -> SUBSET Path]
           /\ [applied EXCEPT ![t] = @ \ {p}] \in [Tx -> SUBSET Path]
BY DEF HistoryTypeOK

\* A manifest takes a new state.
LEMMA TransitionType ==
    ASSUME JournalTypeOK, NEW t \in Tx, NEW s \in ManifestState, Transition(t, s)
    PROVE  manifest' \in [Tx -> ManifestState]
BY DEF JournalTypeOK, Transition

\* A participant's fact changes.
LEMMA SetFactType ==
    ASSUME JournalTypeOK, NEW t \in Tx, NEW i \in Part,
           NEW f \in {"pending", "committed", "failed"}, SetFact(t, i, f)
    PROVE  facts' \in [Tx -> [Part -> {"pending", "committed", "failed"}]]
BY Nested DEF JournalTypeOK, SetFact

\* A request takes a new position.
LEMMA BecomeType ==
    ASSUME MemoryTypeOK, NEW t \in Tx, NEW s \in Phase, Become(t, s)
    PROVE  pc' \in [Tx -> Phase]
BY DEF MemoryTypeOK, Become

\* An operation takes a new state.
LEMMA SetOpType ==
    ASSUME MemoryTypeOK, NEW t \in Tx, NEW p \in Path, NEW s \in OpState,
           SetOp(t, p, s)
    PROVE  op' \in [Tx -> [Path -> OpState]]
BY Nested DEF MemoryTypeOK, SetOp

----------------------------------------------------------------------------
(* The engine. *)

\* Inspect keeps the types.
LEMMA InspectTypes ==
    ASSUME TypeOK, NEW t \in Tx, Inspect(t)
    PROVE  TypeOK'
<1>1. JournalTypeOK'
  <2>1. [p \in Path |-> IF p \in Targets(t) THEN target[p] ELSE Absent]
            \in [Path -> Version]
    BY DEF TypeOK, DiskTypeOK, Version
  <2>2. CASE UNCHANGED before
    BY <2>2 DEF Inspect, TypeOK, JournalTypeOK
  <2>3. CASE before' = [before EXCEPT ![t] =
                 [p \in Path |-> IF p \in Targets(t) THEN target[p] ELSE Absent]]
    BY <2>1, <2>3 DEF Inspect, TypeOK, JournalTypeOK
  <2> QED BY <2>2, <2>3 DEF Inspect
<1>2. MemoryTypeOK'
  BY BecomeType, SetOpType DEF Inspect, TypeOK, MemoryTypeOK, Bystanders, ToRollback, Phase, Terminal, OpState
<1> QED
  BY <1>1, <1>2 DEF Inspect, Bystanders, TypeOK,
     DiskTypeOK, RecoveryTypeOK, HistoryTypeOK,
     disk, recovery, history

\* Acquire keeps the types.
LEMMA AcquireTypes ==
    ASSUME TypeOK, NEW t \in Tx, Acquire(t)
    PROVE  TypeOK'
<1>1. JournalTypeOK'
  <2>1. manifest' \in [Tx -> ManifestState]
    BY TransitionType DEF Acquire, TypeOK, JournalTypeOK, ManifestState
  <2>2. log' \in Seq(Tx)
    <3>1. log' = log \/ log' = Append(log, t) BY DEF Acquire
    <3>2. log \in Seq(Tx) BY DEF TypeOK, JournalTypeOK
    <3> QED BY <3>1, <3>2
  <2> QED BY <2>1, <2>2 DEF Acquire, TypeOK, JournalTypeOK
<1>2. MemoryTypeOK'
  BY BecomeType, SetOpType DEF Acquire, TypeOK, MemoryTypeOK, Bystanders, ToRollback, Phase, Terminal, OpState
<1>3. RecoveryTypeOK'
  BY DEF Acquire, TypeOK, RecoveryTypeOK, LockFree, JournalTypeOK, recovery
<1>4. HistoryTypeOK'
  BY AppliedType DEF Acquire, TypeOK, HistoryTypeOK, Bystanders, Fault
<1> QED
  BY <1>1, <1>2, <1>3, <1>4 DEF Acquire, Bystanders, TypeOK,
     DiskTypeOK,
     disk

\* StageFile keeps the types.
LEMMA StageFileTypes ==
    ASSUME TypeOK, NEW t \in Tx, NEW p \in Path, StageFile(t, p)
    PROVE  TypeOK'
<1>1. DiskTypeOK'
  <2>1. t \in Version BY DEF Version, Written
  <2> QED BY <2>1, SetStageType DEF StageFile, TypeOK, DiskTypeOK
<1>2. MemoryTypeOK'
  <2>1. need' \in [Tx -> BOOLEAN]
    <3>1. \/ UNCHANGED need
          \/ need' = [need EXCEPT ![t] = @ \/ (p \in InDir /\ ~dir)]
      BY DEF StageFile
    <3> QED BY <3>1 DEF TypeOK, MemoryTypeOK
  <2> QED
    BY <2>1, BecomeType, SetOpType
    DEF StageFile, Bystanders, ToRollback, TypeOK, MemoryTypeOK, Phase, OpState
<1> QED
  BY <1>1, <1>2 DEF StageFile, Bystanders, TypeOK,
     JournalTypeOK, RecoveryTypeOK, HistoryTypeOK,
     journal, recovery, history

\* LinkBackup keeps the types.
LEMMA LinkBackupTypes ==
    ASSUME TypeOK, NEW t \in Tx, NEW p \in Path, LinkBackup(t, p)
    PROVE  TypeOK'
<1>1. DiskTypeOK'
  <2>1. target[p] \in Version BY DEF TypeOK, DiskTypeOK
  <2>2. stage' \in [Tx -> [Path -> Version]]
    BY SetStageType DEF LinkBackup, TypeOK, DiskTypeOK, Version
  <2>3. backup' \in [Tx -> [Path -> Version]]
    BY <2>1, SetBackupType DEF LinkBackup, TypeOK, DiskTypeOK
  <2> QED BY <2>2, <2>3 DEF LinkBackup, TypeOK, DiskTypeOK
<1>2. MemoryTypeOK'
  BY BecomeType, SetOpType DEF LinkBackup, TypeOK, MemoryTypeOK, Bystanders, ToRollback, Phase, Terminal, OpState
<1> QED
  BY <1>1, <1>2 DEF LinkBackup, Bystanders, TypeOK,
     JournalTypeOK, RecoveryTypeOK, HistoryTypeOK,
     journal, recovery, history

\* LeakArtifact keeps the types.
LEMMA LeakArtifactTypes ==
    ASSUME TypeOK, NEW t \in Tx, NEW p \in Path, LeakArtifact(t, p)
    PROVE  TypeOK'
<1>1. DiskTypeOK'
  <2>1. target[p] \in Version /\ t \in Version BY DEF TypeOK, DiskTypeOK, Version, Written
  <2> QED BY <2>1, SetStageType, SetBackupType DEF LeakArtifact, TypeOK, DiskTypeOK
<1>2. MemoryTypeOK'
  BY BecomeType, SetOpType DEF LeakArtifact, TypeOK, MemoryTypeOK, Bystanders, ToRollback, Phase, Terminal, OpState
<1>3. HistoryTypeOK'
  BY AppliedType DEF LeakArtifact, TypeOK, HistoryTypeOK, Bystanders, Fault
<1> QED
  BY <1>1, <1>2, <1>3 DEF LeakArtifact, Bystanders, TypeOK,
     JournalTypeOK, RecoveryTypeOK,
     journal, recovery

\* RecordStaged keeps the types.
LEMMA RecordStagedTypes ==
    ASSUME TypeOK, NEW t \in Tx, NEW p \in Path, RecordStaged(t, p)
    PROVE  TypeOK'
<1>1. JournalTypeOK'
  BY TransitionType, SetFactType DEF RecordStaged, TypeOK, JournalTypeOK, Bystanders, ManifestState
<1>2. MemoryTypeOK'
  BY BecomeType, SetOpType DEF RecordStaged, TypeOK, MemoryTypeOK, Bystanders, ToRollback, Phase, Terminal, OpState
<1> QED
  BY <1>1, <1>2 DEF RecordStaged, Bystanders, TypeOK,
     DiskTypeOK, RecoveryTypeOK, HistoryTypeOK,
     disk, recovery, history

\* PrepareDone keeps the types.
LEMMA PrepareDoneTypes ==
    ASSUME TypeOK, NEW t \in Tx, PrepareDone(t)
    PROVE  TypeOK'
<1>1. JournalTypeOK'
  BY TransitionType, SetFactType DEF PrepareDone, TypeOK, JournalTypeOK, Bystanders, ManifestState
<1>2. MemoryTypeOK'
  BY BecomeType, SetOpType DEF PrepareDone, TypeOK, MemoryTypeOK, Bystanders, ToRollback, Phase, Terminal, OpState
<1> QED
  BY <1>1, <1>2 DEF PrepareDone, Bystanders, TypeOK,
     DiskTypeOK, RecoveryTypeOK, HistoryTypeOK,
     disk, recovery, history

\* BeginCommit keeps the types.
LEMMA BeginCommitTypes ==
    ASSUME TypeOK, NEW t \in Tx, BeginCommit(t)
    PROVE  TypeOK'
<1>1. JournalTypeOK'
  BY TransitionType, SetFactType DEF BeginCommit, TypeOK, JournalTypeOK, Bystanders, ManifestState
<1>2. MemoryTypeOK'
  BY BecomeType, SetOpType DEF BeginCommit, TypeOK, MemoryTypeOK, Bystanders, ToRollback, Phase, Terminal, OpState
<1> QED
  BY <1>1, <1>2 DEF BeginCommit, Bystanders, TypeOK,
     DiskTypeOK, RecoveryTypeOK, HistoryTypeOK,
     disk, recovery, history

\* MakeDirectory keeps the types.
LEMMA MakeDirectoryTypes ==
    ASSUME TypeOK, NEW t \in Tx, MakeDirectory(t)
    PROVE  TypeOK'
<1>1. DiskTypeOK'
  BY TargetType, SetStageType, SetBackupType DEF MakeDirectory, TypeOK, DiskTypeOK, Version
<1>2. MemoryTypeOK'
  BY BecomeType, SetOpType DEF MakeDirectory, TypeOK, MemoryTypeOK, Bystanders, ToRollback, Phase, Terminal, OpState
<1> QED
  BY <1>1, <1>2 DEF MakeDirectory, Bystanders, TypeOK,
     JournalTypeOK, RecoveryTypeOK, HistoryTypeOK,
     journal, recovery, history

\* RecordDirectory keeps the types.
LEMMA RecordDirectoryTypes ==
    ASSUME TypeOK, NEW t \in Tx, RecordDirectory(t)
    PROVE  TypeOK'
<1>1. JournalTypeOK'
  BY TransitionType, SetFactType DEF RecordDirectory, TypeOK, JournalTypeOK, Bystanders, ManifestState
<1>2. MemoryTypeOK'
  BY BecomeType, SetOpType DEF RecordDirectory, TypeOK, MemoryTypeOK, Bystanders, ToRollback, Phase, Terminal, OpState
<1> QED
  BY <1>1, <1>2 DEF RecordDirectory, Bystanders, TypeOK,
     DiskTypeOK, RecoveryTypeOK, HistoryTypeOK,
     disk, recovery, history

\* CheckTarget keeps the types.
LEMMA CheckTargetTypes ==
    ASSUME TypeOK, NEW t \in Tx, NEW p \in Path, CheckTarget(t, p)
    PROVE  TypeOK'
<1>1. MemoryTypeOK'
  BY BecomeType, SetOpType DEF CheckTarget, TypeOK, MemoryTypeOK, Bystanders, ToRollback, Phase, Terminal, OpState
<1> QED
  BY <1>1 DEF CheckTarget, Bystanders, TypeOK,
     DiskTypeOK, JournalTypeOK, RecoveryTypeOK, HistoryTypeOK,
     disk, journal, recovery, history

\* InstallFile keeps the types.
LEMMA InstallFileTypes ==
    ASSUME TypeOK, NEW t \in Tx, NEW p \in Path, InstallFile(t, p)
    PROVE  TypeOK'
<1>1. DiskTypeOK'
  <2>1. After(t, p) \in Version BY DEF After, Version, Written
  <2>2. target' \in [Path -> Version]
    BY <2>1, TargetType DEF InstallFile, TypeOK, DiskTypeOK
  <2>3. stage' \in [Tx -> [Path -> Version]]
    BY SetStageType DEF InstallFile, TypeOK, DiskTypeOK, Version
  <2> QED BY <2>2, <2>3 DEF InstallFile, TypeOK, DiskTypeOK
<1>2. MemoryTypeOK'
  BY BecomeType, SetOpType DEF InstallFile, TypeOK, MemoryTypeOK, Bystanders, ToRollback, Phase, Terminal, OpState
<1>3. HistoryTypeOK'
  BY AppliedType DEF InstallFile, TypeOK, HistoryTypeOK, Bystanders, Fault
<1> QED
  BY <1>1, <1>2, <1>3 DEF InstallFile, Bystanders, TypeOK,
     JournalTypeOK, RecoveryTypeOK,
     journal, recovery

\* Readback keeps the types.
LEMMA ReadbackTypes ==
    ASSUME TypeOK, NEW t \in Tx, NEW p \in Path, Readback(t, p)
    PROVE  TypeOK'
<1>1. MemoryTypeOK'
  BY BecomeType, SetOpType DEF Readback, TypeOK, MemoryTypeOK, Bystanders, ToRollback, Phase, Terminal, OpState
<1>2. HistoryTypeOK'
  BY AppliedType DEF Readback, TypeOK, HistoryTypeOK, Bystanders, Fault
<1> QED
  BY <1>1, <1>2 DEF Readback, Bystanders, TypeOK,
     DiskTypeOK, JournalTypeOK, RecoveryTypeOK,
     disk, journal, recovery

\* InstallDone keeps the types.
LEMMA InstallDoneTypes ==
    ASSUME TypeOK, NEW t \in Tx, InstallDone(t)
    PROVE  TypeOK'
<1>1. JournalTypeOK'
  BY TransitionType, SetFactType DEF InstallDone, TypeOK, JournalTypeOK, Bystanders, ManifestState
<1>2. MemoryTypeOK'
  BY BecomeType, SetOpType DEF InstallDone, TypeOK, MemoryTypeOK, Bystanders, ToRollback, Phase, Terminal, OpState
<1> QED
  BY <1>1, <1>2 DEF InstallDone, Bystanders, TypeOK,
     DiskTypeOK, RecoveryTypeOK, HistoryTypeOK,
     disk, recovery, history

\* CommitEffect keeps the types.
LEMMA CommitEffectTypes ==
    ASSUME TypeOK, NEW t \in Tx, NEW i \in Part, CommitEffect(t, i)
    PROVE  TypeOK'
<1>1. JournalTypeOK'
  BY TransitionType, SetFactType DEF CommitEffect, TypeOK, JournalTypeOK, Bystanders, ManifestState
<1> QED
  BY <1>1 DEF CommitEffect, Bystanders, TypeOK,
     DiskTypeOK, MemoryTypeOK, RecoveryTypeOK, HistoryTypeOK,
     disk, memory, recovery, history

\* RecordFact keeps the types.
LEMMA RecordFactTypes ==
    ASSUME TypeOK, NEW t \in Tx, NEW i \in Part, RecordFact(t, i)
    PROVE  TypeOK'
<1>1. JournalTypeOK'
  BY TransitionType, SetFactType DEF RecordFact, TypeOK, JournalTypeOK, Bystanders, ManifestState
<1> QED
  BY <1>1 DEF RecordFact, Bystanders, TypeOK,
     DiskTypeOK, MemoryTypeOK, RecoveryTypeOK, HistoryTypeOK,
     disk, memory, recovery, history

\* ParticipantFails keeps the types.
LEMMA ParticipantFailsTypes ==
    ASSUME TypeOK, NEW t \in Tx, NEW i \in Part, ParticipantFails(t, i)
    PROVE  TypeOK'
<1>1. JournalTypeOK'
  BY TransitionType, SetFactType DEF ParticipantFails, TypeOK, JournalTypeOK, Bystanders, ManifestState
<1>2. MemoryTypeOK'
  BY BecomeType, SetOpType DEF ParticipantFails, TypeOK, MemoryTypeOK, Bystanders, ToRollback, Phase, Terminal, OpState
<1>3. HistoryTypeOK'
  BY AppliedType DEF ParticipantFails, TypeOK, HistoryTypeOK, Bystanders, Fault
<1> QED
  BY <1>1, <1>2, <1>3 DEF ParticipantFails, Bystanders, TypeOK,
     DiskTypeOK, RecoveryTypeOK,
     disk, recovery

\* Finalize keeps the types.
LEMMA FinalizeTypes ==
    ASSUME TypeOK, NEW t \in Tx, Finalize(t)
    PROVE  TypeOK'
<1>1. JournalTypeOK'
  BY TransitionType, SetFactType DEF Finalize, TypeOK, JournalTypeOK, Bystanders, ManifestState
<1>2. MemoryTypeOK'
  BY BecomeType, SetOpType DEF Finalize, TypeOK, MemoryTypeOK, Bystanders, ToRollback, Phase, Terminal, OpState
<1>3. HistoryTypeOK'
  BY AppliedType DEF Finalize, TypeOK, HistoryTypeOK, Bystanders, Fault
<1> QED
  BY <1>1, <1>2, <1>3 DEF Finalize, Bystanders, TypeOK,
     DiskTypeOK, RecoveryTypeOK,
     disk, recovery

\* FinalizeFails keeps the types.
LEMMA FinalizeFailsTypes ==
    ASSUME TypeOK, NEW t \in Tx, FinalizeFails(t)
    PROVE  TypeOK'
<1>1. MemoryTypeOK'
  BY BecomeType, SetOpType DEF FinalizeFails, TypeOK, MemoryTypeOK, Bystanders, ToRollback, Phase, Terminal, OpState
<1>2. HistoryTypeOK'
  BY AppliedType DEF FinalizeFails, TypeOK, HistoryTypeOK, Bystanders, Fault
<1> QED
  BY <1>1, <1>2 DEF FinalizeFails, Bystanders, TypeOK,
     DiskTypeOK, JournalTypeOK, RecoveryTypeOK,
     disk, journal, recovery

\* CleanUp keeps the types.
LEMMA CleanUpTypes ==
    ASSUME TypeOK, NEW t \in Tx, NEW p \in Path, CleanUp(t, p)
    PROVE  TypeOK'
<1>1. DiskTypeOK'
  <2>1. stage' \in [Tx -> [Path -> Version]]
    BY SetStageType DEF CleanUp, TypeOK, DiskTypeOK, Version
  <2>2. backup' \in [Tx -> [Path -> Version]]
    BY SetBackupType DEF CleanUp, TypeOK, DiskTypeOK, Version
  <2> QED BY <2>1, <2>2 DEF CleanUp, TypeOK, DiskTypeOK
<1>2. MemoryTypeOK'
  BY BecomeType, SetOpType DEF CleanUp, TypeOK, MemoryTypeOK, Bystanders, ToRollback, Phase, Terminal, OpState
<1>3. HistoryTypeOK'
  BY AppliedType DEF CleanUp, TypeOK, HistoryTypeOK, Bystanders, Fault
<1> QED
  BY <1>1, <1>2, <1>3 DEF CleanUp, Bystanders, TypeOK,
     JournalTypeOK, RecoveryTypeOK,
     journal, recovery

\* Acknowledge keeps the types.
LEMMA AcknowledgeTypes ==
    ASSUME TypeOK, NEW t \in Tx, Acknowledge(t)
    PROVE  TypeOK'
<1>1. MemoryTypeOK'
  BY BecomeType, SetOpType DEF Acknowledge, TypeOK, MemoryTypeOK, Bystanders, ToRollback, Phase, Terminal, OpState
<1> QED
  BY <1>1 DEF Acknowledge, Bystanders, TypeOK,
     DiskTypeOK, JournalTypeOK, RecoveryTypeOK, HistoryTypeOK,
     disk, journal, recovery, history

\* CallerRollback keeps the types.
LEMMA CallerRollbackTypes ==
    ASSUME TypeOK, NEW t \in Tx, CallerRollback(t)
    PROVE  TypeOK'
<1>1. MemoryTypeOK'
  BY BecomeType, SetOpType DEF CallerRollback, TypeOK, MemoryTypeOK, Bystanders, ToRollback, Phase, Terminal, OpState
<1> QED
  BY <1>1 DEF CallerRollback, Bystanders, TypeOK,
     DiskTypeOK, JournalTypeOK, RecoveryTypeOK, HistoryTypeOK,
     disk, journal, recovery, history

\* StepFails keeps the types.
LEMMA StepFailsTypes ==
    ASSUME TypeOK, NEW t \in Tx, StepFails(t)
    PROVE  TypeOK'
<1>1. DiskTypeOK'
  <2>1. stage' = [stage EXCEPT ![t] = [p \in Path |->
                    IF p \in InState(t, {"inspected"}) THEN Absent ELSE @[p]]]
    BY DEF StepFails
  <2>2. stage[t] \in [Path -> Version] /\ Absent \in Version BY DEF TypeOK, DiskTypeOK, Version
  <2> QED BY <2>1, <2>2 DEF StepFails, TypeOK, DiskTypeOK
<1>2. MemoryTypeOK'
  BY BecomeType, SetOpType DEF StepFails, TypeOK, MemoryTypeOK, Bystanders, ToRollback, Phase, Terminal, OpState
<1>3. HistoryTypeOK'
  BY AppliedType DEF StepFails, TypeOK, HistoryTypeOK, Bystanders, Fault
<1> QED
  BY <1>1, <1>2, <1>3 DEF StepFails, Bystanders, TypeOK,
     JournalTypeOK, RecoveryTypeOK,
     journal, recovery

\* BeginRollback keeps the types.
LEMMA BeginRollbackTypes ==
    ASSUME TypeOK, NEW t \in Tx, BeginRollback(t)
    PROVE  TypeOK'
<1>1. JournalTypeOK'
  BY TransitionType, SetFactType DEF BeginRollback, TypeOK, JournalTypeOK, Bystanders, ManifestState
<1>2. MemoryTypeOK'
  BY BecomeType, SetOpType DEF BeginRollback, TypeOK, MemoryTypeOK, Bystanders, ToRollback, Phase, Terminal, OpState
<1> QED
  BY <1>1, <1>2 DEF BeginRollback, Bystanders, TypeOK,
     DiskTypeOK, RecoveryTypeOK, HistoryTypeOK,
     disk, recovery, history

\* Undo keeps the types.
LEMMA UndoTypes ==
    ASSUME TypeOK, NEW t \in Tx, NEW p \in Path, Undo(t, p)
    PROVE  TypeOK'
<1>1. MemoryTypeOK'
  BY SetOpType DEF Undo, TypeOK, MemoryTypeOK, Bystanders, OpState
<1> QED
  BY <1>1 DEF Undo, Bystanders, TypeOK,
     DiskTypeOK, JournalTypeOK, RecoveryTypeOK, HistoryTypeOK,
     disk, journal, recovery, history

\* UndoFile keeps the types.
LEMMA UndoFileTypes ==
    ASSUME TypeOK, NEW t \in Tx, NEW p \in Path, UndoFile(t, p)
    PROVE  TypeOK'
<1>1. DiskTypeOK'
  <2>1. backup[t][p] \in Version /\ Absent \in Version BY DEF TypeOK, DiskTypeOK, Version
  <2>2. target' \in [Path -> Version]
    BY <2>1, TargetType DEF UndoFile, TypeOK, DiskTypeOK
  <2>3. backup' \in [Tx -> [Path -> Version]]
    BY <2>1, SetBackupType DEF UndoFile, TypeOK, DiskTypeOK
  <2> QED BY <2>2, <2>3 DEF UndoFile, TypeOK, DiskTypeOK
<1>2. MemoryTypeOK'
  BY SetOpType DEF UndoFile, TypeOK, MemoryTypeOK, Bystanders, OpState
<1>3. HistoryTypeOK'
  BY AppliedType DEF UndoFile, TypeOK, HistoryTypeOK, Bystanders
<1> QED
  BY <1>1, <1>2, <1>3 DEF UndoFile, Bystanders, TypeOK,
     JournalTypeOK, RecoveryTypeOK,
     journal, recovery

\* FinalizeUndone keeps the types.
LEMMA FinalizeUndoneTypes ==
    ASSUME TypeOK, NEW t \in Tx, NEW p \in Path, FinalizeUndone(t, p)
    PROVE  TypeOK'
<1>1. DiskTypeOK'
  BY TargetType, SetStageType, SetBackupType DEF FinalizeUndone, TypeOK, DiskTypeOK, Version
<1>2. MemoryTypeOK'
  BY BecomeType, SetOpType DEF FinalizeUndone, TypeOK, MemoryTypeOK, Bystanders, ToRollback, Phase, Terminal, OpState
<1> QED
  BY <1>1, <1>2 DEF FinalizeUndone, Bystanders, TypeOK,
     JournalTypeOK, RecoveryTypeOK, HistoryTypeOK,
     journal, recovery, history

\* FinishRollback keeps the types.
LEMMA FinishRollbackTypes ==
    ASSUME TypeOK, NEW t \in Tx, FinishRollback(t)
    PROVE  TypeOK'
<1>1. DiskTypeOK'
  BY TargetType, SetStageType, SetBackupType DEF FinishRollback, TypeOK, DiskTypeOK, Version
<1>2. JournalTypeOK'
  BY TransitionType, SetFactType DEF FinishRollback, TypeOK, JournalTypeOK, Bystanders, ManifestState
<1>3. MemoryTypeOK'
  BY BecomeType, SetOpType DEF FinishRollback, TypeOK, MemoryTypeOK, Bystanders, ToRollback, Phase, Terminal, OpState
<1> QED
  BY <1>1, <1>2, <1>3 DEF FinishRollback, Bystanders, TypeOK,
     RecoveryTypeOK, HistoryTypeOK,
     recovery, history

\* RollbackFails keeps the types.
LEMMA RollbackFailsTypes ==
    ASSUME TypeOK, NEW t \in Tx, RollbackFails(t)
    PROVE  TypeOK'
<1>1. JournalTypeOK'
  BY TransitionType, SetFactType DEF RollbackFails, TypeOK, JournalTypeOK, Bystanders, ManifestState
<1>2. MemoryTypeOK'
  <2>1. op' = [op EXCEPT ![t] = [p \in Path |-> IF @[p] = "undoing" THEN "installed" ELSE @[p]]]
    BY DEF RollbackFails
  <2>2. op[t] \in [Path -> OpState] /\ "installed" \in OpState BY DEF TypeOK, MemoryTypeOK, OpState
  <2>3. op' \in [Tx -> [Path -> OpState]] BY <2>1, <2>2 DEF TypeOK, MemoryTypeOK
  <2> QED BY <2>3, BecomeType DEF RollbackFails, TypeOK, MemoryTypeOK, Bystanders, Phase, Terminal
<1>3. HistoryTypeOK'
  BY AppliedType DEF RollbackFails, TypeOK, HistoryTypeOK, Bystanders, Fault
<1> QED
  BY <1>1, <1>2, <1>3 DEF RollbackFails, Bystanders, TypeOK,
     DiskTypeOK, RecoveryTypeOK,
     disk, recovery

----------------------------------------------------------------------------
(* Recovery and the environment. *)

\* The manifest a run works on is that of a transaction.
LEMMA CurrentType ==
    ASSUME TypeOK, rpc \notin {"idle", "scan"} \/ rpos <= Len(log)
    PROVE  current \in Tx
BY DEF TypeOK, JournalTypeOK, RecoveryTypeOK, current

\* EnsureReady keeps the types.
LEMMA EnsureReadyTypes ==
    ASSUME TypeOK, NEW t \in Tx, EnsureReady(t)
    PROVE  TypeOK'
<1>1. MemoryTypeOK'
  BY BecomeType DEF EnsureReady, TypeOK, MemoryTypeOK,
     Elsewhere, Resume, Phase, Terminal, RecoveryTypeOK, memory
<1>2. RecoveryTypeOK'
  BY DEF EnsureReady, TypeOK, RecoveryTypeOK,
     JournalTypeOK, Step, Elsewhere, RunOver, RecoveryPhase, ManifestState, Targets, LockFree, journal, Version
<1> QED
  BY <1>1, <1>2 DEF EnsureReady, Elsewhere, TypeOK,
     DiskTypeOK, JournalTypeOK, HistoryTypeOK,
     disk, journal, history

\* UseWorkspace keeps the types.
LEMMA UseWorkspaceTypes ==
    ASSUME TypeOK, NEW s \in Server, UseWorkspace(s)
    PROVE  TypeOK'
<1>1. RecoveryTypeOK'
  BY DEF UseWorkspace, TypeOK, RecoveryTypeOK,
     JournalTypeOK, Step, Elsewhere, RunOver, RecoveryPhase, ManifestState, Targets, LockFree, journal, Version
<1> QED
  BY <1>1 DEF UseWorkspace, Elsewhere, TypeOK,
     DiskTypeOK, JournalTypeOK, MemoryTypeOK, HistoryTypeOK,
     disk, journal, memory, history

\* RunEnds keeps the types.
LEMMA RunEndsTypes ==
    ASSUME TypeOK, RunEnds
    PROVE  TypeOK'
<1>1. MemoryTypeOK'
  BY BecomeType DEF RunEnds, TypeOK, MemoryTypeOK,
     Elsewhere, Resume, Phase, Terminal, RecoveryTypeOK, memory
<1>2. RecoveryTypeOK'
  BY DEF RunEnds, TypeOK, RecoveryTypeOK,
     JournalTypeOK, Step, Elsewhere, RunOver, RecoveryPhase, ManifestState, Targets, LockFree, journal, Version
<1> QED
  BY <1>1, <1>2 DEF RunEnds, Elsewhere, TypeOK,
     DiskTypeOK, JournalTypeOK, HistoryTypeOK,
     disk, journal, history

\* Choose keeps the types.
LEMMA ChooseTypes ==
    ASSUME TypeOK, Choose
    PROVE  TypeOK'
<1>0. current \in Tx BY CurrentType DEF Choose
<1>1. RecoveryTypeOK'
  BY <1>0 DEF Choose, TypeOK, RecoveryTypeOK,
     JournalTypeOK, Step, Elsewhere, RunOver, RecoveryPhase, ManifestState, Targets, LockFree, journal, Version
<1> QED
  BY <1>1 DEF Choose, Elsewhere, TypeOK,
     DiskTypeOK, JournalTypeOK, MemoryTypeOK, HistoryTypeOK,
     disk, journal, memory, history

\* Reconcile keeps the types.
LEMMA ReconcileTypes ==
    ASSUME TypeOK, Reconcile
    PROVE  TypeOK'
<1>0. current \in Tx BY CurrentType DEF Reconcile
<1>1. JournalTypeOK'
  <2>1. manifest' \in [Tx -> ManifestState]
    BY <1>0, TransitionType DEF Reconcile, TypeOK, JournalTypeOK, ManifestState
  <2>2. facts' \in [Tx -> [Part -> {"pending", "committed", "failed"}]]
    <3>1. [i \in Part |-> IF i \in Present(current) THEN "committed" ELSE "failed"]
              \in [Part -> {"pending", "committed", "failed"}]
      OBVIOUS
    <3> QED BY <1>0, <3>1 DEF Reconcile, TypeOK, JournalTypeOK
  <2> QED BY <2>1, <2>2 DEF Reconcile, Elsewhere, TypeOK, JournalTypeOK
<1>2. RecoveryTypeOK'
  BY <1>0 DEF Reconcile, TypeOK, RecoveryTypeOK,
     JournalTypeOK, Step, Elsewhere, RunOver, RecoveryPhase, ManifestState, Targets, LockFree, journal, Version
<1>3. HistoryTypeOK'
  BY <1>0, AppliedType DEF Reconcile, TypeOK, HistoryTypeOK,
     Step, Elsewhere, Overwritten, history
<1> QED
  BY <1>1, <1>2, <1>3 DEF Reconcile, Elsewhere, TypeOK,
     DiskTypeOK, MemoryTypeOK,
     disk, memory

\* BeginRestore keeps the types.
LEMMA BeginRestoreTypes ==
    ASSUME TypeOK, BeginRestore
    PROVE  TypeOK'
<1>0. current \in Tx BY CurrentType DEF BeginRestore
<1>1. JournalTypeOK'
  BY <1>0, TransitionType DEF BeginRestore, TypeOK, JournalTypeOK,
     Step, Elsewhere, ManifestState
<1>2. RecoveryTypeOK'
  BY <1>0 DEF BeginRestore, TypeOK, RecoveryTypeOK,
     JournalTypeOK, Step, Elsewhere, RunOver, RecoveryPhase, ManifestState, Targets, LockFree, journal, Version
<1> QED
  BY <1>1, <1>2 DEF BeginRestore, Elsewhere, TypeOK,
     DiskTypeOK, MemoryTypeOK, HistoryTypeOK,
     disk, memory, history

\* RestoreTarget keeps the types.
LEMMA RestoreTargetTypes ==
    ASSUME TypeOK, NEW p \in Path, RestoreTarget(p)
    PROVE  TypeOK'
<1>0. current \in Tx /\ target[p] \in Version BY CurrentType DEF RestoreTarget, TypeOK, DiskTypeOK
<1>1. RecoveryTypeOK'
  BY <1>0 DEF RestoreTarget, TypeOK, RecoveryTypeOK,
     JournalTypeOK, Step, Elsewhere, RecoveryPhase
<1>2. HistoryTypeOK'
  BY <1>0, AppliedType DEF RestoreTarget, TypeOK, HistoryTypeOK, Elsewhere
<1> QED
  BY <1>1, <1>2 DEF RestoreTarget, Elsewhere, TypeOK,
     DiskTypeOK, JournalTypeOK, MemoryTypeOK,
     disk, journal, memory

\* RestoreFile keeps the types.
LEMMA RestoreFileTypes ==
    ASSUME TypeOK, NEW p \in Path, RestoreFile(p)
    PROVE  TypeOK'
<1>0. current \in Tx BY CurrentType DEF RestoreFile
<1>1. DiskTypeOK'
  <2>1. backup[current][p] \in Version /\ Absent \in Version BY <1>0 DEF TypeOK, DiskTypeOK, Version
  <2>2. target' \in [Path -> Version]
    BY <2>1, TargetType DEF RestoreFile, TypeOK, DiskTypeOK
  <2>3. backup' \in [Tx -> [Path -> Version]]
    BY <1>0, <2>1, SetBackupType DEF RestoreFile, TypeOK, DiskTypeOK
  <2> QED BY <2>2, <2>3 DEF RestoreFile, TypeOK, DiskTypeOK
<1>2. RecoveryTypeOK'
  BY <1>0 DEF RestoreFile, TypeOK, RecoveryTypeOK,
     JournalTypeOK, Step, Elsewhere, RecoveryPhase, Version
<1>3. HistoryTypeOK'
  BY <1>0, AppliedType DEF RestoreFile, TypeOK, HistoryTypeOK, Elsewhere
<1> QED
  BY <1>1, <1>2, <1>3 DEF RestoreFile, Elsewhere, TypeOK,
     JournalTypeOK, MemoryTypeOK,
     journal, memory

\* DropStage keeps the types.
LEMMA DropStageTypes ==
    ASSUME TypeOK, NEW p \in Path, DropStage(p)
    PROVE  TypeOK'
<1>0. current \in Tx BY CurrentType DEF DropStage
<1>1. DiskTypeOK'
  <2>1. stage' \in [Tx -> [Path -> Version]]
    BY <1>0, SetStageType DEF DropStage, RemoveStage, TypeOK, DiskTypeOK, Version
  <2> QED BY <2>1 DEF DropStage, TypeOK, DiskTypeOK
<1>2. RecoveryTypeOK'
  BY <1>0 DEF DropStage, TypeOK, RecoveryTypeOK,
     JournalTypeOK, Step, Elsewhere, RunOver, RecoveryPhase, ManifestState, Targets, LockFree, journal, Version
<1> QED
  BY <1>1, <1>2 DEF DropStage, Elsewhere, TypeOK,
     JournalTypeOK, MemoryTypeOK, HistoryTypeOK,
     journal, memory, history

\* DropBackup keeps the types.
LEMMA DropBackupTypes ==
    ASSUME TypeOK, NEW p \in Path, DropBackup(p)
    PROVE  TypeOK'
<1>0. current \in Tx BY CurrentType DEF DropBackup
<1>1. DiskTypeOK'
  <2>1. backup' \in [Tx -> [Path -> Version]]
    BY <1>0, SetBackupType DEF DropBackup, RemoveBackup, TypeOK, DiskTypeOK, Version
  <2> QED BY <2>1 DEF DropBackup, TypeOK, DiskTypeOK
<1>2. RecoveryTypeOK'
  BY <1>0 DEF DropBackup, TypeOK, RecoveryTypeOK,
     JournalTypeOK, Step, Elsewhere, RunOver, RecoveryPhase, ManifestState, Targets, LockFree, journal, Version
<1> QED
  BY <1>1, <1>2 DEF DropBackup, Elsewhere, TypeOK,
     JournalTypeOK, MemoryTypeOK, HistoryTypeOK,
     journal, memory, history

\* Verify keeps the types.
LEMMA VerifyTypes ==
    ASSUME TypeOK, Verify
    PROVE  TypeOK'
<1>1. RecoveryTypeOK'
  BY DEF Verify, TypeOK, RecoveryTypeOK,
     JournalTypeOK, Step, Elsewhere, RunOver, RecoveryPhase, ManifestState, Targets, LockFree, journal, Version
<1> QED
  BY <1>1 DEF Verify, Elsewhere, TypeOK,
     DiskTypeOK, JournalTypeOK, MemoryTypeOK, HistoryTypeOK,
     disk, journal, memory, history

\* RemoveDirectory keeps the types.
LEMMA RemoveDirectoryTypes ==
    ASSUME TypeOK, RemoveDirectory
    PROVE  TypeOK'
<1>0. current \in Tx BY CurrentType DEF RemoveDirectory
<1>1. DiskTypeOK'
  BY <1>0, TargetType, SetStageType, SetBackupType DEF RemoveDirectory, TypeOK, DiskTypeOK,
     Version, Step, Elsewhere, RemoveStage, RemoveBackup
<1>2. RecoveryTypeOK'
  BY <1>0 DEF RemoveDirectory, TypeOK, RecoveryTypeOK,
     JournalTypeOK, Step, Elsewhere, RunOver, RecoveryPhase, ManifestState, Targets, LockFree, journal, Version
<1> QED
  BY <1>1, <1>2 DEF RemoveDirectory, Elsewhere, TypeOK,
     JournalTypeOK, MemoryTypeOK, HistoryTypeOK,
     journal, memory, history

\* Persist keeps the types.
LEMMA PersistTypes ==
    ASSUME TypeOK, Persist
    PROVE  TypeOK'
<1>0. current \in Tx BY CurrentType DEF Persist
<1>1. JournalTypeOK'
  BY <1>0, TransitionType DEF Persist, TypeOK, JournalTypeOK,
     Step, Elsewhere, ManifestState
<1>2. RecoveryTypeOK'
  BY <1>0 DEF Persist, TypeOK, RecoveryTypeOK,
     JournalTypeOK, Step, Elsewhere, RunOver, RecoveryPhase, ManifestState, Targets, LockFree, journal, Version
<1> QED
  BY <1>1, <1>2 DEF Persist, Elsewhere, TypeOK,
     DiskTypeOK, MemoryTypeOK, HistoryTypeOK,
     disk, memory, history

\* Recheck keeps the types.
LEMMA RecheckTypes ==
    ASSUME TypeOK, NEW p \in Path, Recheck(p)
    PROVE  TypeOK'
<1>0. current \in Tx BY CurrentType DEF Recheck
<1>1. DiskTypeOK'
  <2>1. stage' \in [Tx -> [Path -> Version]]
    BY <1>0, SetStageType DEF Recheck, RemoveStage, TypeOK, DiskTypeOK, Version
  <2>2. backup' \in [Tx -> [Path -> Version]]
    BY <1>0, SetBackupType DEF Recheck, RemoveBackup, TypeOK, DiskTypeOK, Version
  <2> QED BY <2>1, <2>2 DEF Recheck, TypeOK, DiskTypeOK
<1>2. RecoveryTypeOK'
  BY <1>0 DEF Recheck, TypeOK, RecoveryTypeOK,
     JournalTypeOK, Step, Elsewhere, RunOver, RecoveryPhase, ManifestState, Targets, LockFree, journal, Version
<1> QED
  BY <1>1, <1>2 DEF Recheck, Elsewhere, TypeOK,
     JournalTypeOK, MemoryTypeOK, HistoryTypeOK,
     journal, memory, history

\* Rechecked keeps the types.
LEMMA RecheckedTypes ==
    ASSUME TypeOK, Rechecked
    PROVE  TypeOK'
<1>1. RecoveryTypeOK'
  BY DEF Rechecked, TypeOK, RecoveryTypeOK,
     JournalTypeOK, Step, Elsewhere, RunOver, RecoveryPhase, ManifestState, Targets, LockFree, journal, Version
<1> QED
  BY <1>1 DEF Rechecked, Elsewhere, TypeOK,
     DiskTypeOK, JournalTypeOK, MemoryTypeOK, HistoryTypeOK,
     disk, journal, memory, history

\* CleanCommitted keeps the types.
LEMMA CleanCommittedTypes ==
    ASSUME TypeOK, NEW p \in Path, CleanCommitted(p)
    PROVE  TypeOK'
<1>0. current \in Tx BY CurrentType DEF CleanCommitted
<1>1. DiskTypeOK'
  <2>1. stage' \in [Tx -> [Path -> Version]]
    BY <1>0, SetStageType DEF CleanCommitted, RemoveStage, TypeOK, DiskTypeOK, Version
  <2>2. backup' \in [Tx -> [Path -> Version]]
    BY <1>0, SetBackupType DEF CleanCommitted, RemoveBackup, TypeOK, DiskTypeOK, Version
  <2> QED BY <2>1, <2>2 DEF CleanCommitted, TypeOK, DiskTypeOK
<1>2. RecoveryTypeOK'
  BY <1>0 DEF CleanCommitted, TypeOK, RecoveryTypeOK,
     JournalTypeOK, Step, Elsewhere, RunOver, RecoveryPhase, ManifestState, Targets, LockFree, journal, Version
<1> QED
  BY <1>1, <1>2 DEF CleanCommitted, Elsewhere, TypeOK,
     JournalTypeOK, MemoryTypeOK, HistoryTypeOK,
     journal, memory, history

\* Cleaned keeps the types.
LEMMA CleanedTypes ==
    ASSUME TypeOK, Cleaned
    PROVE  TypeOK'
<1>1. RecoveryTypeOK'
  BY DEF Cleaned, TypeOK, RecoveryTypeOK,
     JournalTypeOK, Step, Elsewhere, RunOver, RecoveryPhase, ManifestState, Targets, LockFree, journal, Version
<1> QED
  BY <1>1 DEF Cleaned, Elsewhere, TypeOK,
     DiskTypeOK, JournalTypeOK, MemoryTypeOK, HistoryTypeOK,
     disk, journal, memory, history

\* RecordRecovery keeps the types.
LEMMA RecordRecoveryTypes ==
    ASSUME TypeOK, RecordRecovery
    PROVE  TypeOK'
<1>1. RecoveryTypeOK'
  BY DEF RecordRecovery, TypeOK, RecoveryTypeOK,
     JournalTypeOK, Step, Elsewhere, RunOver, RecoveryPhase, ManifestState, Targets, LockFree, journal, Version
<1> QED
  BY <1>1 DEF RecordRecovery, Elsewhere, TypeOK,
     DiskTypeOK, JournalTypeOK, MemoryTypeOK, HistoryTypeOK,
     disk, journal, memory, history

\* RecoveryFails keeps the types.
LEMMA RecoveryFailsTypes ==
    ASSUME TypeOK, RecoveryFails
    PROVE  TypeOK'
<1>0. current \in Tx BY CurrentType DEF RecoveryFails, Blocked
<1>1. JournalTypeOK'
  BY <1>0, TransitionType DEF RecoveryFails, TypeOK, JournalTypeOK,
     Step, Elsewhere, ManifestState
<1>2. MemoryTypeOK'
  BY <1>0, BecomeType DEF RecoveryFails, TypeOK, MemoryTypeOK,
     Elsewhere, Resume, Phase, Terminal, RecoveryTypeOK, memory
<1>3. RecoveryTypeOK'
  BY <1>0 DEF RecoveryFails, TypeOK, RecoveryTypeOK,
     JournalTypeOK, Step, Elsewhere, RunOver, RecoveryPhase, ManifestState, Targets, LockFree, journal, Version
<1>4. HistoryTypeOK'
  BY <1>0, AppliedType DEF RecoveryFails, TypeOK, HistoryTypeOK,
     Step, Elsewhere, Overwritten, history
<1> QED
  BY <1>1, <1>2, <1>3, <1>4 DEF RecoveryFails, Elsewhere, TypeOK,
     DiskTypeOK,
     disk

\* The end of a server keeps the types.
LEMMA DiesTypes ==
    ASSUME TypeOK, NEW s \in Server, Dies(s), crashes' \in 0..MaxCrash
    PROVE  TypeOK'
<1>1. MemoryTypeOK'
  <2> DEFINE Lost(t) == Home[t] = s /\ pc[t] \notin Terminal \union {"idle"}
  <2>1. pc' \in [Tx -> Phase]
    BY DEF Dies, TypeOK, MemoryTypeOK, Phase, Terminal
  <2>2. op' \in [Tx -> [Path -> OpState]]
    <3>1. op' = [t \in Tx |-> IF Lost(t) THEN [p \in Path |-> "planned"] ELSE op[t]]
      BY Zenon DEF Dies
    <3>2. [p \in Path |-> "planned"] \in [Path -> OpState] BY DEF OpState
    <3>3. \A t \in Tx : op[t] \in [Path -> OpState] BY DEF TypeOK, MemoryTypeOK
    <3> HIDE DEF Lost
    <3> QED BY <3>1, <3>2, <3>3
  <2>3. holder' \in SUBSET Tx BY DEF Dies, TypeOK, MemoryTypeOK
  <2> QED BY <2>1, <2>2, <2>3 DEF Dies, TypeOK, MemoryTypeOK
<1>2. RecoveryTypeOK'
  <2>1. CASE rby = s
    <3>1. rpc' = "idle" /\ rpos' = 1 /\ rfrom' = "none" /\ rseen' = Absent /\ todo' = {} /\ rby' = rby
      BY <2>1 DEF Dies, RunOver, Step
    <3> QED BY <3>1 DEF TypeOK, RecoveryTypeOK, RecoveryPhase, ManifestState, Version
  <2>2. CASE rby # s
    BY <2>2 DEF Dies, TypeOK, RecoveryTypeOK, journal
  <2> QED BY <2>1, <2>2
<1>3. HistoryTypeOK'
  BY AppliedType DEF Dies, TypeOK, HistoryTypeOK,
     Step, Elsewhere, Overwritten, history
<1> QED
  BY <1>1, <1>2, <1>3 DEF Dies, Elsewhere, TypeOK,
     DiskTypeOK, JournalTypeOK,
     disk, journal

\* What another program writes into a file in place is the version of all its names.
LEMMA InPlaceTypes ==
    ASSUME TypeOK, NEW p \in Path, NEW v \in Version, NEW e \in Version, WriteInPlace(p, v, e)
    PROVE  /\ target' \in [Path -> Version]
           /\ stage' \in [Tx -> [Path -> Version]] /\ backup' \in [Tx -> [Path -> Version]]
           /\ target' = [target EXCEPT ![p] = IF @ = v THEN e ELSE @]
           /\ stage' = [t \in Tx |-> [stage[t] EXCEPT ![p] = IF @ = v THEN e ELSE @]]
           /\ backup' = [t \in Tx |-> [backup[t] EXCEPT ![p] = IF @ = v THEN e ELSE @]]
<1>1. /\ target' = [target EXCEPT ![p] = IF @ = v THEN e ELSE @]
      /\ stage' = [t \in Tx |-> [stage[t] EXCEPT ![p] = IF @ = v THEN e ELSE @]]
      /\ backup' = [t \in Tx |-> [backup[t] EXCEPT ![p] = IF @ = v THEN e ELSE @]]
  BY Zenon DEF WriteInPlace
<1>2. target' \in [Path -> Version] BY <1>1 DEF TypeOK, DiskTypeOK
<1>3. stage' \in [Tx -> [Path -> Version]]
  <2>1. \A t \in Tx : [stage[t] EXCEPT ![p] = IF @ = v THEN e ELSE @] \in [Path -> Version]
    BY DEF TypeOK, DiskTypeOK
  <2> QED BY <1>1, <2>1
<1>4. backup' \in [Tx -> [Path -> Version]]
  <2>1. \A t \in Tx : [backup[t] EXCEPT ![p] = IF @ = v THEN e ELSE @] \in [Path -> Version]
    BY DEF TypeOK, DiskTypeOK
  <2> QED BY <1>1, <2>1
<1> QED BY <1>1, <1>2, <1>3, <1>4

\* What an editor may do to the files.
LEMMA Changes ==
    ASSUME TypeOK, NEW p \in Path, NEW e \in Ext, ExternalChange(p, e)
    PROVE  \/ target' = [target EXCEPT ![p] = e] /\ UNCHANGED <<stage, backup>>
           \/ target' = [target EXCEPT ![p] = Absent] /\ UNCHANGED <<stage, backup>>
           \/ \E v \in Version : v # Absent /\ WriteInPlace(p, v, e)
<1>1. target[p] \in Version /\ \A t \in Tx : backup[t][p] \in Version
  BY DEF TypeOK, DiskTypeOK
<1>2. ({target[p]} \union {backup[t][p] : t \in Tx}) \ {Absent} \subseteq {v \in Version : v # Absent}
  BY <1>1
<1>3. \/ target' = [target EXCEPT ![p] = e] /\ UNCHANGED <<stage, backup>>
      \/ target' = [target EXCEPT ![p] = Absent] /\ UNCHANGED <<stage, backup>>
      \/ \E v \in ({target[p]} \union {backup[t][p] : t \in Tx}) \ {Absent} : WriteInPlace(p, v, e)
  BY Zenon DEF ExternalChange
<1> QED BY ONLY <1>2, <1>3, Zenon

\* ExternalChange keeps the types.
LEMMA ExternalChangeTypes ==
    ASSUME TypeOK, NEW p \in Path, NEW e \in Ext, ExternalChange(p, e)
    PROVE  TypeOK'
<1>1. DiskTypeOK'
  <2>1. e \in Version /\ Absent \in Version BY DEF Version, Written
  <2>2. dir' \in BOOLEAN
    <3>1. dir' = dir \/ dir' = (dir \/ p \in InDir) BY DEF ExternalChange
    <3> QED BY <3>1 DEF TypeOK, DiskTypeOK
  <2>3. CASE UNCHANGED <<stage, backup>> /\ \E v \in {e, Absent} : target' = [target EXCEPT ![p] = v]
    BY <2>1, <2>2, <2>3, TargetType DEF TypeOK, DiskTypeOK
  <2>4. CASE \E v \in Version : WriteInPlace(p, v, e)
    BY <2>1, <2>2, <2>4, InPlaceTypes DEF DiskTypeOK
  <2> QED BY <2>3, <2>4, Changes
<1>2. HistoryTypeOK'
  BY AppliedType DEF ExternalChange, TypeOK, HistoryTypeOK,
     Step, Elsewhere, Overwritten, history
<1> QED
  BY <1>1, <1>2 DEF ExternalChange, Elsewhere, TypeOK,
     JournalTypeOK, MemoryTypeOK, RecoveryTypeOK,
     journal, memory, recovery

----------------------------------------------------------------------------
\* The initial states have the types.
LEMMA InitTypes == Init => TypeOK
<1> SUFFICES ASSUME Init PROVE TypeOK OBVIOUS
<1>1. DiskTypeOK BY DEF Init, DiskTypeOK, Version, Written
<1>2. JournalTypeOK BY DEF Init, JournalTypeOK, ManifestState, Version
<1>3. MemoryTypeOK BY DEF Init, MemoryTypeOK, Phase, OpState
<1>4. RecoveryTypeOK BY DEF Init, RecoveryTypeOK, RecoveryPhase, ManifestState, Version
<1>5. HistoryTypeOK BY DEF Init, HistoryTypeOK
<1> QED BY <1>1, <1>2, <1>3, <1>4, <1>5 DEF TypeOK

\* Every step keeps the types.
LEMMA NextTypes == TypeOK /\ [Next]_vars => TypeOK'
<1> SUFFICES ASSUME TypeOK, [Next]_vars PROVE TypeOK' OBVIOUS
<1>1. ASSUME NEW t \in Tx, Inspect(t) PROVE TypeOK' BY <1>1, InspectTypes
<1>2. ASSUME NEW t \in Tx, Acquire(t) PROVE TypeOK' BY <1>2, AcquireTypes
<1>3. ASSUME NEW t \in Tx, NEW p \in Path, StageFile(t, p) PROVE TypeOK' BY <1>3, StageFileTypes
<1>4. ASSUME NEW t \in Tx, NEW p \in Path, LinkBackup(t, p) PROVE TypeOK' BY <1>4, LinkBackupTypes
<1>5. ASSUME NEW t \in Tx, NEW p \in Path, LeakArtifact(t, p) PROVE TypeOK' BY <1>5, LeakArtifactTypes
<1>6. ASSUME NEW t \in Tx, NEW p \in Path, RecordStaged(t, p) PROVE TypeOK' BY <1>6, RecordStagedTypes
<1>7. ASSUME NEW t \in Tx, PrepareDone(t) PROVE TypeOK' BY <1>7, PrepareDoneTypes
<1>8. ASSUME NEW t \in Tx, BeginCommit(t) PROVE TypeOK' BY <1>8, BeginCommitTypes
<1>9. ASSUME NEW t \in Tx, MakeDirectory(t) PROVE TypeOK' BY <1>9, MakeDirectoryTypes
<1>10. ASSUME NEW t \in Tx, RecordDirectory(t) PROVE TypeOK' BY <1>10, RecordDirectoryTypes
<1>11. ASSUME NEW t \in Tx, NEW p \in Path, CheckTarget(t, p) PROVE TypeOK' BY <1>11, CheckTargetTypes
<1>12. ASSUME NEW t \in Tx, NEW p \in Path, InstallFile(t, p) PROVE TypeOK' BY <1>12, InstallFileTypes
<1>13. ASSUME NEW t \in Tx, NEW p \in Path, Readback(t, p) PROVE TypeOK' BY <1>13, ReadbackTypes
<1>14. ASSUME NEW t \in Tx, InstallDone(t) PROVE TypeOK' BY <1>14, InstallDoneTypes
<1>15. ASSUME NEW t \in Tx, NEW i \in Part, CommitEffect(t, i) PROVE TypeOK' BY <1>15, CommitEffectTypes
<1>16. ASSUME NEW t \in Tx, NEW i \in Part, RecordFact(t, i) PROVE TypeOK' BY <1>16, RecordFactTypes
<1>17. ASSUME NEW t \in Tx, NEW i \in Part, ParticipantFails(t, i) PROVE TypeOK' BY <1>17, ParticipantFailsTypes
<1>18. ASSUME NEW t \in Tx, Finalize(t) PROVE TypeOK' BY <1>18, FinalizeTypes
<1>19. ASSUME NEW t \in Tx, FinalizeFails(t) PROVE TypeOK' BY <1>19, FinalizeFailsTypes
<1>20. ASSUME NEW t \in Tx, NEW p \in Path, CleanUp(t, p) PROVE TypeOK' BY <1>20, CleanUpTypes
<1>21. ASSUME NEW t \in Tx, Acknowledge(t) PROVE TypeOK' BY <1>21, AcknowledgeTypes
<1>22. ASSUME NEW t \in Tx, CallerRollback(t) PROVE TypeOK' BY <1>22, CallerRollbackTypes
<1>23. ASSUME NEW t \in Tx, StepFails(t) PROVE TypeOK' BY <1>23, StepFailsTypes
<1>24. ASSUME NEW t \in Tx, BeginRollback(t) PROVE TypeOK' BY <1>24, BeginRollbackTypes
<1>25. ASSUME NEW t \in Tx, NEW p \in Path, Undo(t, p) PROVE TypeOK' BY <1>25, UndoTypes
<1>50. ASSUME NEW t \in Tx, NEW p \in Path, UndoFile(t, p) PROVE TypeOK' BY <1>50, UndoFileTypes
<1>26. ASSUME NEW t \in Tx, NEW p \in Path, FinalizeUndone(t, p) PROVE TypeOK' BY <1>26, FinalizeUndoneTypes
<1>27. ASSUME NEW t \in Tx, FinishRollback(t) PROVE TypeOK' BY <1>27, FinishRollbackTypes
<1>28. ASSUME NEW t \in Tx, RollbackFails(t) PROVE TypeOK' BY <1>28, RollbackFailsTypes
<1>29. ASSUME NEW t \in Tx, EnsureReady(t) PROVE TypeOK' BY <1>29, EnsureReadyTypes
<1>30. ASSUME NEW s \in Server, UseWorkspace(s) PROVE TypeOK' BY <1>30, UseWorkspaceTypes
<1>31. CASE RunEnds BY <1>31, RunEndsTypes
<1>32. CASE Choose BY <1>32, ChooseTypes
<1>33. CASE Reconcile BY <1>33, ReconcileTypes
<1>34. CASE BeginRestore BY <1>34, BeginRestoreTypes
<1>35. ASSUME NEW p \in Path, RestoreTarget(p) PROVE TypeOK' BY <1>35, RestoreTargetTypes
<1>51. ASSUME NEW p \in Path, RestoreFile(p) PROVE TypeOK' BY <1>51, RestoreFileTypes
<1>36. ASSUME NEW p \in Path, DropStage(p) PROVE TypeOK' BY <1>36, DropStageTypes
<1>37. ASSUME NEW p \in Path, DropBackup(p) PROVE TypeOK' BY <1>37, DropBackupTypes
<1>38. CASE Verify BY <1>38, VerifyTypes
<1>39. CASE RemoveDirectory BY <1>39, RemoveDirectoryTypes
<1>40. CASE Persist BY <1>40, PersistTypes
<1>41. ASSUME NEW p \in Path, Recheck(p) PROVE TypeOK' BY <1>41, RecheckTypes
<1>42. CASE Rechecked BY <1>42, RecheckedTypes
<1>43. ASSUME NEW p \in Path, CleanCommitted(p) PROVE TypeOK' BY <1>43, CleanCommittedTypes
<1>44. CASE Cleaned BY <1>44, CleanedTypes
<1>45. CASE RecordRecovery BY <1>45, RecordRecoveryTypes
<1>46. CASE RecoveryFails BY <1>46, RecoveryFailsTypes
<1>47. ASSUME NEW s \in Server, Crash(s) \/ Unhandled(s) PROVE TypeOK'
  <2>1. Dies(s) BY <1>47, Zenon DEF Crash, Unhandled
  <2>2. crashes' \in 0..MaxCrash BY <1>47 DEF Crash, Unhandled, TypeOK, HistoryTypeOK
  <2> QED BY <2>1, <2>2, DiesTypes
<1>48. ASSUME NEW p \in Path, NEW e \in Ext, ExternalChange(p, e) PROVE TypeOK' BY <1>48, ExternalChangeTypes
<1>49. CASE UNCHANGED vars
  BY <1>49 DEF vars, disk, journal, memory, recovery, history, TypeOK,
     DiskTypeOK, JournalTypeOK, MemoryTypeOK, RecoveryTypeOK, HistoryTypeOK
<1> QED
  BY <1>1, <1>2, <1>3, <1>4, <1>5, <1>6, <1>7, <1>8, <1>9, <1>10, <1>11,
     <1>12, <1>13, <1>14, <1>15, <1>16, <1>17, <1>18, <1>19, <1>20, <1>21,
     <1>22, <1>23, <1>24, <1>25, <1>26, <1>27, <1>28, <1>29, <1>30, <1>31,
     <1>32, <1>33, <1>34, <1>35, <1>36, <1>37, <1>38, <1>39, <1>40, <1>41,
     <1>42, <1>43, <1>44, <1>45, <1>46, <1>47, <1>48, <1>49, <1>50, <1>51
  DEF Next, EngineStep, CallerStep, Failure, RecoveryStep

(***************************************************************************)
(* Type correctness: Spec => []TypeOK for all constants.                   *)
(***************************************************************************)
THEOREM TypeCorrect == Spec => []TypeOK
<1>1. Init => TypeOK BY InitTypes
<1>2. TypeOK /\ [Next]_vars => TypeOK' BY NextTypes
<1> QED BY <1>1, <1>2, PTL DEF Spec

----------------------------------------------------------------------------
(* The inductive invariant.                                                *)


\* Work under the lock leaves the lock alone.
LEMMA WorkKeepsLock ==
    ASSUME TypeOK, LockInv, NEW t \in Tx, pc[t] \in Working,
           NEW phase \in Working, UNCHANGED pc \/ Become(t, phase),
           UNCHANGED <<holder, rpc>>
    PROVE  LockInv'
BY DEF TypeOK, MemoryTypeOK, LockInv, Become

\* Every step of every request, run, crash and editor keeps the lock's promise.
LEMMA LockInvNext ==
    ASSUME TypeOK, LockInv, [Next]_vars
    PROVE  LockInv'
<1> USE DEF TypeOK, MemoryTypeOK, LockInv
<1>1. ASSUME NEW t \in Tx, Inspect(t) PROVE LockInv'
  BY <1>1 DEF Inspect, recovery, Become, Working
<1>2. ASSUME NEW t \in Tx, Acquire(t) PROVE LockInv'
  <2>1. UNCHANGED rpc BY <1>2 DEF Acquire, recovery
  <2>2. CASE ~LockFree
    <3>1. UNCHANGED holder /\ Become(t, "refused") BY <1>2, <2>2 DEF Acquire
    <3> QED BY <1>2, <2>1, <3>1 DEF Acquire, Become, Working
  <2>3. CASE LockFree
    <3>1. holder = {} /\ rpc = "idle" /\ holder' = {t}
      BY <1>2, <2>3 DEF Acquire, LockFree
    <3>2. Become(t, "staging") \/ Become(t, "abandoned")
      BY <1>2, <2>3, Zenon DEF Acquire
    <3> QED BY <2>1, <3>1, <3>2 DEF Become, Working
  <2> QED BY <2>2, <2>3
<1>3. ASSUME NEW t \in Tx, NEW p \in Path, StageFile(t, p) PROVE LockInv'
  <2>1. pc[t] \in Working BY <1>3 DEF StageFile, StageNext, Staging, Working
  <2>2. UNCHANGED pc \/ Become(t, "rollback") BY <1>3, Zenon DEF StageFile, ToRollback, Become
  <2>3. UNCHANGED <<holder, rpc>> BY <1>3 DEF StageFile, Bystanders, recovery
  <2> QED BY <2>1, <2>2, <2>3, WorkKeepsLock DEF Working
<1>4. ASSUME NEW t \in Tx, NEW p \in Path, LinkBackup(t, p) PROVE LockInv'
  <2>1. pc[t] \in Working BY <1>4 DEF LinkBackup, Staging, Working
  <2>2. UNCHANGED pc \/ Become(t, "rollback") BY <1>4, Zenon DEF LinkBackup, ToRollback, Become
  <2>3. UNCHANGED <<holder, rpc>> BY <1>4 DEF LinkBackup, Bystanders, recovery
  <2> QED BY <2>1, <2>2, <2>3, WorkKeepsLock DEF Working
<1>5. ASSUME NEW t \in Tx, NEW p \in Path, LeakArtifact(t, p) PROVE LockInv'
  <2>1. pc[t] \in Working BY <1>5 DEF LeakArtifact, StageNext, Staging, Working
  <2>2. UNCHANGED pc \/ Become(t, "rollback") BY <1>5, Zenon DEF LeakArtifact, ToRollback, Become
  <2>3. UNCHANGED <<holder, rpc>> BY <1>5 DEF LeakArtifact, Bystanders, recovery
  <2> QED BY <2>1, <2>2, <2>3, WorkKeepsLock DEF Working
<1>6. ASSUME NEW t \in Tx, NEW p \in Path, RecordStaged(t, p) PROVE LockInv'
  BY <1>6 DEF RecordStaged, Bystanders, recovery, Working
<1>7. ASSUME NEW t \in Tx, PrepareDone(t) PROVE LockInv'
  BY <1>7 DEF PrepareDone, Bystanders, recovery, Become, Working
<1>8. ASSUME NEW t \in Tx, BeginCommit(t) PROVE LockInv'
  BY <1>8 DEF BeginCommit, Bystanders, recovery, Become, Working
<1>9. ASSUME NEW t \in Tx, MakeDirectory(t) PROVE LockInv'
  BY <1>9 DEF MakeDirectory, Bystanders, recovery, Become, ToRollback, Working
<1>10. ASSUME NEW t \in Tx, RecordDirectory(t) PROVE LockInv'
  BY <1>10 DEF RecordDirectory, Bystanders, recovery, Become, Working
<1>11. ASSUME NEW t \in Tx, NEW p \in Path, CheckTarget(t, p) PROVE LockInv'
  BY <1>11 DEF CheckTarget, Bystanders, recovery, Become, ToRollback, Working
<1>12. ASSUME NEW t \in Tx, NEW p \in Path, InstallFile(t, p) PROVE LockInv'
  BY <1>12 DEF InstallFile, Bystanders, recovery, Become, ToRollback, Working
<1>13. ASSUME NEW t \in Tx, NEW p \in Path, Readback(t, p) PROVE LockInv'
  BY <1>13 DEF Readback, Bystanders, recovery, Become, ToRollback, Working
<1>14. ASSUME NEW t \in Tx, InstallDone(t) PROVE LockInv'
  BY <1>14 DEF InstallDone, Bystanders, recovery, Become, Working
<1>15. ASSUME NEW t \in Tx, NEW i \in Part, CommitEffect(t, i) PROVE LockInv'
  BY <1>15 DEF CommitEffect, Bystanders, recovery, Working
<1>16. ASSUME NEW t \in Tx, NEW i \in Part, RecordFact(t, i) PROVE LockInv'
  BY <1>16 DEF RecordFact, Bystanders, recovery, Working
<1>17. ASSUME NEW t \in Tx, NEW i \in Part, ParticipantFails(t, i) PROVE LockInv'
  <2>1. pc[t] \in Working BY <1>17 DEF ParticipantFails, Turn, Working
  <2>2. UNCHANGED pc \/ Become(t, "rollback") BY <1>17, Zenon DEF ParticipantFails, ToRollback, Become
  <2>3. UNCHANGED <<holder, rpc>> BY <1>17 DEF ParticipantFails, Bystanders, recovery
  <2> QED BY <2>1, <2>2, <2>3, WorkKeepsLock DEF Working
<1>18. ASSUME NEW t \in Tx, Finalize(t) PROVE LockInv'
  BY <1>18 DEF Finalize, Bystanders, recovery, Become, Working
<1>19. ASSUME NEW t \in Tx, FinalizeFails(t) PROVE LockInv'
  BY <1>19 DEF FinalizeFails, Bystanders, recovery, Become, Working
<1>20. ASSUME NEW t \in Tx, NEW p \in Path, CleanUp(t, p) PROVE LockInv'
  BY <1>20 DEF CleanUp, Bystanders, recovery, Working
<1>21. ASSUME NEW t \in Tx, Acknowledge(t) PROVE LockInv'
  BY <1>21 DEF Acknowledge, recovery, Become, Working
<1>22. ASSUME NEW t \in Tx, CallerRollback(t) PROVE LockInv'
  BY <1>22 DEF CallerRollback, recovery, Become, ToRollback, Working
<1>23. ASSUME NEW t \in Tx, StepFails(t) PROVE LockInv'
  BY <1>23 DEF StepFails, Bystanders, recovery, Become, ToRollback, Working
<1>24. ASSUME NEW t \in Tx, BeginRollback(t) PROVE LockInv'
  BY <1>24 DEF BeginRollback, Bystanders, recovery, Become, Working
<1>25. ASSUME NEW t \in Tx, NEW p \in Path, Undo(t, p) PROVE LockInv'
  BY <1>25 DEF Undo, UndoNext, Bystanders, recovery, Working
<1>50. ASSUME NEW t \in Tx, NEW p \in Path, UndoFile(t, p) PROVE LockInv'
  BY <1>50 DEF UndoFile, UndoNext, Bystanders, recovery, Working
<1>26. ASSUME NEW t \in Tx, NEW p \in Path, FinalizeUndone(t, p) PROVE LockInv'
  BY <1>26 DEF FinalizeUndone, Bystanders, recovery, Working
<1>27. ASSUME NEW t \in Tx, FinishRollback(t) PROVE LockInv'
  BY <1>27 DEF FinishRollback, recovery, Become, Working
<1>28. ASSUME NEW t \in Tx, RollbackFails(t) PROVE LockInv'
  BY <1>28 DEF RollbackFails, Bystanders, recovery, Become, Working
<1>29. ASSUME NEW t \in Tx, EnsureReady(t) PROVE LockInv'
  BY <1>29 DEF EnsureReady, Step, Become, Working
<1>30. ASSUME NEW s \in Server, UseWorkspace(s) PROVE LockInv'
  BY <1>30 DEF UseWorkspace, memory, Step, LockFree, Working
<1>31. ASSUME RunEnds PROVE LockInv'
  BY <1>31 DEF RunEnds, Step, RunOver, Resume, Working
<1>32. ASSUME Choose PROVE LockInv'
  BY <1>32 DEF Choose, Elsewhere, memory, Step, Working
<1>33. ASSUME Reconcile PROVE LockInv'
  BY <1>33 DEF Reconcile, Elsewhere, memory, Step, Working
<1>34. ASSUME BeginRestore PROVE LockInv'
  BY <1>34 DEF BeginRestore, Elsewhere, memory, Step, Working
<1>35. ASSUME NEW p \in Path, RestoreTarget(p) PROVE LockInv'
  BY <1>35 DEF RestoreTarget, Elsewhere, memory, Step, Working
<1>51. ASSUME NEW p \in Path, RestoreFile(p) PROVE LockInv'
  BY <1>51 DEF RestoreFile, Elsewhere, memory, Step, Working
<1>36. ASSUME NEW p \in Path, DropStage(p) PROVE LockInv'
  BY <1>36 DEF DropStage, Elsewhere, memory, Step, Working
<1>37. ASSUME NEW p \in Path, DropBackup(p) PROVE LockInv'
  BY <1>37 DEF DropBackup, Elsewhere, memory, Step, Working
<1>38. ASSUME Verify PROVE LockInv'
  BY <1>38 DEF Verify, Elsewhere, memory, Step, Working
<1>39. ASSUME RemoveDirectory PROVE LockInv'
  BY <1>39 DEF RemoveDirectory, Elsewhere, memory, Step, Working
<1>40. ASSUME Persist PROVE LockInv'
  BY <1>40 DEF Persist, Elsewhere, memory, Step, Working
<1>41. ASSUME NEW p \in Path, Recheck(p) PROVE LockInv'
  BY <1>41 DEF Recheck, Elsewhere, memory, Working
<1>42. ASSUME Rechecked PROVE LockInv'
  BY <1>42 DEF Rechecked, Elsewhere, memory, Step, Working
<1>43. ASSUME NEW p \in Path, CleanCommitted(p) PROVE LockInv'
  BY <1>43 DEF CleanCommitted, Elsewhere, memory, Working
<1>44. ASSUME Cleaned PROVE LockInv'
  BY <1>44 DEF Cleaned, Elsewhere, memory, Step, Working
<1>45. ASSUME RecordRecovery PROVE LockInv'
  BY <1>45 DEF RecordRecovery, memory, Step, Working
<1>46. ASSUME RecoveryFails PROVE LockInv'
  BY <1>46 DEF RecoveryFails, Step, RunOver, Resume, Working
<1>47. ASSUME NEW s \in Server, Crash(s) \/ Unhandled(s) PROVE LockInv'
  BY <1>47 DEF Crash, Unhandled, Dies, Step, RunOver, Terminal, Working
<1>48. ASSUME NEW p \in Path, NEW e \in Ext, ExternalChange(p, e) PROVE LockInv'
  BY <1>48 DEF ExternalChange, memory, recovery, Working
<1>49. ASSUME UNCHANGED vars PROVE LockInv'
  BY <1>49 DEF vars, memory, recovery
<1> QED
  BY <1>1, <1>2, <1>3, <1>4, <1>5, <1>6, <1>7, <1>8, <1>9, <1>10, <1>11,
     <1>12, <1>13, <1>14, <1>15, <1>16, <1>17, <1>18, <1>19, <1>20, <1>21,
     <1>22, <1>23, <1>24, <1>25, <1>26, <1>27, <1>28, <1>29, <1>30, <1>31,
     <1>32, <1>33, <1>34, <1>35, <1>36, <1>37, <1>38, <1>39, <1>40, <1>41,
     <1>42, <1>43, <1>44, <1>45, <1>46, <1>47, <1>48, <1>49, <1>50, <1>51
  DEF Next, EngineStep, CallerStep, Failure, RecoveryStep

(***************************************************************************)
(* "Only one transaction or recovery operation may mutate a canonical      *)
(* workspace at a time": as long as the lock itself is exclusive, at most  *)
(* one request is between acquiring and releasing it, every such request   *)
(* is its holder, and no recovery run is under way meanwhile.              *)
(***************************************************************************)
THEOREM OneWorks == Spec => []LockInv
<1>1. Init => LockInv
  BY DEF Init, LockInv, Working
<1>2. TypeOK /\ LockInv /\ [Next]_vars => LockInv'
  BY LockInvNext
<1> QED
  BY <1>1, <1>2, TypeCorrect, PTL DEF Spec

----------------------------------------------------------------------------
(* The invariant, one transaction at a time.                               *)

\* One operation in OperationInv.
OpOK(t, p) ==
    /\ Kind[t][p] # "create" => before[t][p] # Absent
    /\ op[t][p] \in {"staged", "recorded"} /\ Kind[t][p] # "create" =>
          backup[t][p] = before[t][p] \/ target[p] # before[t][p]
    /\ op[t][p] \in {"recorded", "checked"} \union InPlace => p \in recorded[t]
    /\ op[t][p] \in {"checked"} \union InPlace /\ Kind[t][p] # "create" =>
          backup[t][p] \in {before[t][p]} \union Ext
    /\ op[t][p] \in InPlace => p \in applied[t]
    /\ p \in applied[t] \ Torn(t) => op[t][p] \in InPlace
    /\ op[t][p] = "undoing" =>
          pc[t] = "rolling" /\ target[p] \in {After(t, p), Absent} \union Ext
    /\ op[t][p] = "visible" /\ pc[t] # "installing" => p \in Torn(t)

\* One transaction in InstallInv, TornInv and AppliedInv, ...
InstallOK(t) ==
    /\ pc[t] \in {"prepared", "directories", "recordDirectory"} =>
          \A p \in Targets(t) : op[t][p] = "recorded"
    /\ pc[t] = "installing" =>
          /\ \A p, q \in InState(t, {"checked", "visible"}) : p = q
          /\ \A p \in InState(t, {"checked"}) : target[p] \in {before[t][p], Absent} \union Ext

TornOK(t) == Torn(t) # {} =>
    /\ manifest[t] \in {"committing", "rolling_back", "rolled_back", "recovery_required"}
    /\ pc[t] \in {"rollback", "rolling", "retained", "aborted", "dead"}

AppliedOK(t) ==
    /\ applied[t] \subseteq Targets(t)
    /\ pc[t] \in {"idle", "waiting", "ready", "inspected"} =>
          /\ applied[t] = {} /\ Torn(t) = {}
          /\ \A p \in Path : op[t][p] = "planned"
    /\ pc[t] = "inspected" =>
          \A p \in Targets(t) : Kind[t][p] # "create" => before[t][p] # Absent
    /\ pc[t] = "cleaning" => applied[t] = Targets(t)

\* ... and in what is promised.
EvidenceOK(t) == manifest[t] \in Undecided /\ t \notin decided =>
    \A p \in applied[t] \ Torn(t) :
        /\ p \in recorded[t]
        /\ Kind[t][p] # "create" => backup[t][p] \in {before[t][p]} \union Ext

WholeOK(t) ==
    /\ manifest[t] \in {"committed_pending_participants", "committed"} => applied[t] = Targets(t)
    /\ manifest[t] = "rolled_back" => applied[t] \subseteq Torn(t)
    /\ pc[t] = "done" => manifest[t] = "committed" /\ applied[t] = Targets(t)

TxOK(t) ==
    /\ manifest[t] \in ManifestAt(pc[t])
    /\ manifest[t] = "committed" => t \in decided
    /\ pc[t] \in Working \ {"cleaning"} => \A p \in Targets(t) : OpOK(t, p)
    /\ InstallOK(t) /\ TornOK(t) /\ AppliedOK(t) /\ EvidenceOK(t) /\ WholeOK(t)

LogOK ==
    /\ \A i \in 1..Len(log) : manifest[log[i]] # "none"
    /\ \A i, j \in 1..Len(log) : log[i] = log[j] => i = j
    /\ \A t \in Tx : manifest[t] # "none" => \E i \in 1..Len(log) : log[i] = t

AllOK == TypeOK /\ LockInv /\ LogOK /\ RunInv /\ FreshInv /\ \A t \in Tx : TxOK(t)

LEMMA Parts == IInv <=> AllOK
<1>1. ManifestInv <=> LogOK /\ \A t \in Tx : /\ manifest[t] \in ManifestAt(pc[t])
                                             /\ manifest[t] = "committed" => t \in decided
  BY DEF ManifestInv, LogOK
<1>2. OperationInv <=> \A t \in Tx : pc[t] \in Working \ {"cleaning"} => \A p \in Targets(t) : OpOK(t, p)
  BY DEF OperationInv, OpOK
<1>3. InstallInv <=> \A t \in Tx : InstallOK(t) BY DEF InstallInv, InstallOK
<1>4. TornInv <=> \A t \in Tx : TornOK(t) BY DEF TornInv, TornOK
<1>5. AppliedInv <=> \A t \in Tx : AppliedOK(t) BY DEF AppliedInv, AppliedOK
<1>6. EvidenceKept <=> \A t \in Tx : EvidenceOK(t) BY DEF EvidenceKept, EvidenceOK
<1>7. AllOrNothing /\ AcknowledgedIsDurable <=> \A t \in Tx : WholeOK(t)
  BY DEF AllOrNothing, AcknowledgedIsDurable, WholeOK
<1> QED BY <1>1, <1>2, <1>3, <1>4, <1>5, <1>6, <1>7 DEF IInv, AllOK, TxOK

----------------------------------------------------------------------------
(* What a step changes.                                                    *)

LEMMA SetOpIs ==
    ASSUME TypeOK, NEW t \in Tx, NEW p \in Path, NEW s, SetOp(t, p, s)
    PROVE  /\ op'[t][p] = s
           /\ \A q \in Path : q # p => op'[t][q] = op[t][q]
           /\ \A u \in Tx : u # t => op'[u] = op[u]
<1>1. op \in [Tx -> [Path -> OpState]] BY DEF TypeOK, MemoryTypeOK
<1> QED BY <1>1 DEF SetOp

LEMMA SetBackupIs ==
    ASSUME TypeOK, NEW t \in Tx, NEW p \in Path, NEW v, SetBackup(t, p, v)
    PROVE  /\ backup'[t][p] = v
           /\ \A q \in Path : q # p => backup'[t][q] = backup[t][q]
           /\ \A u \in Tx : u # t => backup'[u] = backup[u]
<1>1. backup \in [Tx -> [Path -> Version]] BY DEF TypeOK, DiskTypeOK
<1> QED BY <1>1 DEF SetBackup

LEMMA BecomeIs ==
    ASSUME TypeOK, NEW t \in Tx, NEW s, Become(t, s)
    PROVE  pc'[t] = s /\ \A u \in Tx : u # t => pc'[u] = pc[u]
<1>1. pc \in [Tx -> Phase] BY DEF TypeOK, MemoryTypeOK
<1> QED BY <1>1 DEF Become

LEMMA TransitionIs ==
    ASSUME TypeOK, NEW t \in Tx, NEW s, Transition(t, s)
    PROVE  manifest'[t] = s /\ \A u \in Tx : u # t => manifest'[u] = manifest[u]
<1>1. manifest \in [Tx -> ManifestState] BY DEF TypeOK, JournalTypeOK
<1> QED BY <1>1 DEF Transition

\* All that is said of a transaction stays as it is.
Same(u) ==
    /\ pc'[u] = pc[u] /\ op'[u] = op[u] /\ manifest'[u] = manifest[u]
    /\ recorded'[u] = recorded[u] /\ backup'[u] = backup[u] /\ before'[u] = before[u]
    /\ applied'[u] = applied[u] /\ (u \in decided' <=> u \in decided)
    /\ \A p \in Path : <<u, p>> \in torn' <=> <<u, p>> \in torn

\* What is said of a transaction that does nothing is still true.
LEMMA Others ==
    ASSUME NEW u \in Tx, TxOK(u), Same(u), UNCHANGED target \/ pc[u] \notin Working
    PROVE  TxOK(u)'
<1>1. Torn(u)' = Torn(u) BY DEF Same, Torn
<1>2. pc[u] \in Working \ {"cleaning"} => \A p \in Targets(u) : OpOK(u, p)'
  <2> SUFFICES ASSUME pc[u] \in Working \ {"cleaning"}, NEW p \in Targets(u) PROVE OpOK(u, p)' OBVIOUS
  <2>1. OpOK(u, p) BY DEF TxOK
  <2> QED BY <2>1, <1>1 DEF OpOK, Same
<1>3. InstallOK(u)'
  <2>1. InState(u, {"checked", "visible"})' = InState(u, {"checked", "visible"})
        /\ InState(u, {"checked"})' = InState(u, {"checked"}) BY DEF InState, Same
  <2>2. InstallOK(u) BY DEF TxOK
  <2> QED BY <2>1, <2>2 DEF InstallOK, Same, Working
<1>4. TornOK(u)' BY <1>1 DEF TxOK, TornOK, Same
<1>5. AppliedOK(u)' BY <1>1 DEF TxOK, AppliedOK, Same
<1>6. EvidenceOK(u)' /\ WholeOK(u)' BY <1>1 DEF TxOK, EvidenceOK, WholeOK, Same
<1>7. /\ manifest'[u] \in ManifestAt(pc'[u])
      /\ manifest'[u] = "committed" => u \in decided'
  BY DEF TxOK, Same
<1> QED BY <1>2, <1>3, <1>4, <1>5, <1>6, <1>7 DEF TxOK, Same

\* A file takes a version that was there before, or that of a transaction.
LEMMA FreshKept ==
    ASSUME FreshInv, TypeOK, spent \subseteq spent',
           \A p \in Path : target'[p] \in {target[p], Absent} \union Tx \union (Ext \intersect spent')
                                          \union {before[t][p] : t \in Tx} \union {backup[t][p] : t \in Tx},
           \A t \in Tx, p \in Path :
              /\ before'[t][p] \in {before[t][p], target[p], Absent}
              /\ Kind[t][p] = "create" => before'[t][p] = Absent
              /\ backup'[t][p] \in {backup[t][p], target[p], Absent} \union (Ext \intersect spent')
    PROVE  FreshInv'
<1>1. Tx \intersect Ext = {} /\ Absent \notin Ext BY TransactionAssumption DEF Written
<1>2. ASSUME NEW p \in Path PROVE target'[p] \in Ext => target'[p] \in spent'
  BY <1>1 DEF FreshInv
<1>3. ASSUME NEW t \in Tx, NEW p \in Path
      PROVE  /\ before'[t][p] \in Ext => before'[t][p] \in spent'
             /\ backup'[t][p] \in Ext => backup'[t][p] \in spent'
             /\ Kind[t][p] = "create" => before'[t][p] = Absent
  BY <1>1 DEF FreshInv
<1> QED BY <1>2, <1>3 DEF FreshInv

----------------------------------------------------------------------------
(* Work under the lock.                                                    *)

\* What every step between acquiring and releasing the lock has in common.
Works(t) ==
    /\ pc[t] \in Working
    /\ \A u \in Tx : u # t => Same(u)
    /\ UNCHANGED <<log, rpc, spent, before>>
    /\ manifest'[t] = "none" <=> manifest[t] = "none"

LEMMA WorkKeeps ==
    ASSUME AllOK, TypeOK', LockInv', NEW t \in Tx, Works(t), TxOK(t)', FreshInv'
    PROVE  AllOK'
<1>1. rpc = "idle" /\ rpc' = "idle" /\ \A u \in Tx : u # t => pc[u] \notin Working
  BY DEF AllOK, LockInv, Works
<1>2. \A u \in Tx : u # t => TxOK(u)' BY <1>1, Others DEF AllOK, Works
<1>3. \A u \in Tx : manifest'[u] = "none" <=> manifest[u] = "none" BY DEF Works, Same
<1>4. LogOK'
  <2>1. log' = log /\ log \in Seq(Tx) /\ LogOK BY DEF Works, AllOK, TypeOK, JournalTypeOK
  <2>2. \A i \in 1..Len(log) : log[i] \in Tx BY <2>1
  <2> QED BY <1>3, <2>1, <2>2 DEF LogOK
<1>5. RunInv' BY <1>1 DEF RunInv
<1> QED BY <1>2, <1>4, <1>5 DEF AllOK

\* An operation that is not touched.
LEMMA OpStays ==
    ASSUME NEW t \in Tx, NEW p \in Path, OpOK(t, p), target'[p] = target[p],
           op'[t][p] = op[t][p], before'[t][p] = before[t][p], backup'[t][p] = backup[t][p],
           p \in recorded'[t] <=> p \in recorded[t], p \in applied'[t] <=> p \in applied[t],
           <<t, p>> \in torn => <<t, p>> \in torn',
           op[t][p] = "visible" /\ pc'[t] # "installing" => pc[t] # "installing" \/ <<t, p>> \in torn',
           op[t][p] = "undoing" /\ pc[t] = "rolling" => pc'[t] = "rolling"
    PROVE  OpOK(t, p)'
<1>1. p \in Torn(t) <=> <<t, p>> \in torn BY DEF Torn
<1>2. p \in Torn(t)' <=> <<t, p>> \in torn' BY DEF Torn
<1> QED BY <1>1, <1>2 DEF OpOK

\* A transaction at work, before its commit point, from its operations.
LEMMA WorkTx ==
    ASSUME NEW t \in Tx, AppliedOK(t), pc'[t] \in Working \ {"cleaning"},
           \A p \in Targets(t) : OpOK(t, p)',
           manifest'[t] \in ManifestAt(pc'[t]), manifest'[t] \notin {"committed", "rolled_back"},
           manifest'[t] = "committed_pending_participants" => applied'[t] = Targets(t),
           applied'[t] \subseteq Targets(t), InstallOK(t)', TornOK(t)'
    PROVE  TxOK(t)'
<1>1. AppliedOK(t)' BY DEF AppliedOK, Working
<1>2. EvidenceOK(t)' BY DEF EvidenceOK, OpOK
<1>3. WholeOK(t)' BY DEF WholeOK, Working
<1> QED BY <1>1, <1>2, <1>3 DEF TxOK

\* A step that gives the transaction up: to be rolled back, kept or abandoned.
LEMMA GivesUp ==
    ASSUME AllOK, NEW t \in Tx, pc[t] \in Working \ {"cleaning"},
           pc'[t] \in {"rollback", "rolling", "retained", "abandoned"},
           UNCHANGED <<target, before, applied, recorded>>,
           \A p \in Targets(t) : op'[t][p] = IF op[t][p] = "undoing" THEN "installed" ELSE op[t][p],
           \A p \in Targets(t) : backup'[t][p] = backup[t][p] \/ op[t][p] \in {"planned", "inspected"},
           \A p \in Path : <<t, p>> \in torn => <<t, p>> \in torn',
           \A p \in Targets(t) : op[t][p] = "visible" /\ pc[t] = "installing" => <<t, p>> \in torn',
           (\A p \in Path : <<t, p>> \in torn' => <<t, p>> \in torn)
             \/ (manifest'[t] = "committing" /\ pc'[t] = "rollback"),
           manifest'[t] \in ManifestAt(pc'[t]),
           manifest'[t] \in {manifest[t], "rolling_back", "recovery_required"}
    PROVE  TxOK(t)'
<1>1. TxOK(t) BY DEF AllOK
<1>2. ASSUME NEW p \in Targets(t) PROVE OpOK(t, p)'
  <2>1. p \in Path /\ OpOK(t, p) BY <1>1, <1>2 DEF TxOK, Targets
  <2>2. CASE backup'[t][p] = backup[t][p] /\ op[t][p] # "undoing" BY <1>2, <2>1, <2>2, OpStays
  <2>3. CASE op[t][p] \in {"planned", "inspected"}
    <3>1. p \in Torn(t) <=> <<t, p>> \in torn BY <2>1 DEF Torn
    <3>2. p \in Torn(t)' <=> <<t, p>> \in torn' BY <2>1 DEF Torn
    <3>3. op'[t][p] = op[t][p] BY <1>2, <2>3
    <3> QED BY <2>1, <2>3, <3>1, <3>2, <3>3 DEF OpOK, InPlace
  <2>4. CASE backup'[t][p] = backup[t][p] /\ op[t][p] = "undoing"
    <3>1. op'[t][p] = "installed" BY <1>2, <2>4
    <3> QED BY <2>1, <2>4, <3>1 DEF OpOK, InPlace
  <2> QED BY <1>2, <2>2, <2>3, <2>4
<1>3. manifest'[t] \notin {"committed", "rolled_back"}
  BY DEF ManifestAt, Undecided
<1>4. manifest'[t] = "committed_pending_participants" => applied'[t] = Targets(t)
  BY <1>1 DEF TxOK, WholeOK
<1>5. InstallOK(t)' BY DEF InstallOK
<1>6. TornOK(t)'
  <2>1. CASE manifest'[t] = "committing" /\ pc'[t] = "rollback" BY <2>1 DEF TornOK
  <2>2. CASE \A p \in Path : <<t, p>> \in torn' => <<t, p>> \in torn
    <3>1. Torn(t)' # {} => Torn(t) # {} BY <2>2 DEF Torn
    <3>2. pc'[t] = "abandoned" => manifest'[t] \notin {"rolling_back", "recovery_required", "committing"} BY DEF ManifestAt
    <3>3. TornOK(t) BY <1>1 DEF TxOK
    <3>4. Torn(t)' # {} => manifest[t] \in {"committing", "rolling_back", "rolled_back", "recovery_required"}
      BY <3>1, <3>3 DEF TornOK
    <3>5. Torn(t)' # {} => manifest'[t] \in {"committing", "rolling_back", "rolled_back", "recovery_required"}
      BY <3>4
    <3> QED BY <3>2, <3>5, <1>3 DEF TornOK
  <2> QED BY <2>1, <2>2
<1>7. AppliedOK(t) /\ applied'[t] \subseteq Targets(t) BY <1>1 DEF TxOK, AppliedOK
<1> QED BY <1>2, <1>3, <1>4, <1>5, <1>6, <1>7, WorkTx DEF Working

\* A step that works on: the manifest, one operation, or only the position moves.
LEMMA WorksOn ==
    ASSUME AllOK, NEW t \in Tx, pc[t] \in Working \ {"cleaning"}, pc'[t] \in Working \ {"cleaning", "abandoned"},
           \A p \in Targets(t) : OpOK(t, p)',
           applied'[t] \subseteq Targets(t), torn' = torn, InstallOK(t)',
           manifest'[t] \in ManifestAt(pc'[t]),
           manifest'[t] = "committed_pending_participants" => applied'[t] = Targets(t),
           pc'[t] # pc[t] => pc[t] \in {"staging", "prepared", "directories", "recordDirectory", "installing"},
           pc'[t] = pc[t] => manifest'[t] = manifest[t]
    PROVE  TxOK(t)'
<1>1. TxOK(t) BY DEF AllOK
<1>2. manifest'[t] \notin {"committed", "rolled_back"} BY DEF ManifestAt, Undecided, Working
<1>3. TornOK(t)'
  <2>1. Torn(t)' = Torn(t) BY DEF Torn
  <2>2. TornOK(t) BY <1>1 DEF TxOK
  <2>3. CASE Torn(t) = {} BY <2>1, <2>3 DEF TornOK
  <2>4. CASE Torn(t) # {}
    <3>1. pc'[t] = pc[t] BY <2>2, <2>4 DEF TornOK
    <3> QED BY <3>1, <2>1, <2>2 DEF TornOK
  <2> QED BY <2>3, <2>4
<1>4. AppliedOK(t) BY <1>1 DEF TxOK
<1> QED BY <1>2, <1>3, <1>4, WorkTx

\* What Bystanders says of the parts that are looked at here.
LEMMA BystandersAre ==
    ASSUME Bystanders
    PROVE  UNCHANGED <<log, before, rpc, spent>>
BY DEF Bystanders, recovery

\* No version comes from nowhere.
LEMMA WorkFresh ==
    ASSUME AllOK, NEW t \in Tx, UNCHANGED <<spent, before>>,
           \A p \in Path : target'[p] \in {target[p], Absent} \union Tx \union {backup[u][p] : u \in Tx},
           \A u \in Tx, p \in Path : backup'[u][p] \in {backup[u][p], target[p], Absent}
    PROVE  FreshInv'
<1>1. TypeOK /\ FreshInv BY DEF AllOK
<1>2. \A u \in Tx, p \in Path : Kind[u][p] = "create" => before'[u][p] = Absent BY <1>1 DEF FreshInv
<1>3. \A u \in Tx, p \in Path : before'[u][p] = before[u][p] OBVIOUS
<1> QED BY <1>1, <1>2, <1>3, FreshKept

\* The steps that give up keep the invariant.
LEMMA GivingUpKeeps ==
    ASSUME AllOK, TypeOK', LockInv', NEW t \in Tx, Works(t), NEW s, Become(t, s),
           pc[t] # "cleaning", s \in {"rollback", "rolling", "retained", "abandoned"},
           UNCHANGED <<target, applied, recorded>>,
           \/ op' = op /\ pc[t] # "rolling"
           \/ op' = [op EXCEPT ![t] = [p \in Path |-> IF op[t][p] = "undoing" THEN "installed" ELSE op[t][p]]],
           backup' = backup
             \/ (\E p \in Path : SetBackup(t, p, target[p]) /\ op[t][p] \in {"planned", "inspected"}),
           torn' = torn \/ \E p \in Path : torn' = torn \union {<<t, p>>},
           \A p \in Targets(t) : op[t][p] = "visible" /\ pc[t] = "installing" => <<t, p>> \in torn',
           torn' = torn \/ (manifest'[t] = "committing" /\ s = "rollback"),
           manifest'[t] \in ManifestAt(s),
           manifest'[t] \in {manifest[t], "rolling_back", "recovery_required"}
    PROVE  AllOK'
<1>1. pc'[t] = s BY BecomeIs DEF AllOK
<1>2. \A u \in Tx, p \in Path : /\ backup'[u][p] \in {backup[u][p], target[p]}
                                /\ backup'[u][p] = backup[u][p]
                                   \/ (u = t /\ op[t][p] \in {"planned", "inspected"})
  <2> SUFFICES ASSUME NEW u \in Tx, NEW p \in Path
               PROVE  /\ backup'[u][p] \in {backup[u][p], target[p]}
                      /\ backup'[u][p] = backup[u][p]
                         \/ (u = t /\ op[t][p] \in {"planned", "inspected"})
    OBVIOUS
  <2>1. CASE backup' = backup BY <2>1
  <2>2. ASSUME NEW q \in Path, SetBackup(t, q, target[q]), op[t][q] \in {"planned", "inspected"}
        PROVE  /\ backup'[u][p] \in {backup[u][p], target[p]}
               /\ backup'[u][p] = backup[u][p]
                  \/ (u = t /\ op[t][p] \in {"planned", "inspected"})
    <3>0. TypeOK BY DEF AllOK
    <3>1. /\ backup'[t][q] = target[q]
          /\ \A r \in Path : r # q => backup'[t][r] = backup[t][r]
          /\ \A r \in Tx : r # t => backup'[r] = backup[r]
      BY <2>2, <3>0, SetBackupIs
    <3>2. CASE u # t BY <3>1, <3>2
    <3>3. CASE u = t /\ p # q BY <3>1, <3>3
    <3>4. CASE u = t /\ p = q BY <3>1, <3>4, <2>2
    <3> QED BY <3>2, <3>3, <3>4
  <2> QED BY <2>1, <2>2
<1>3. FreshInv' BY <1>2, WorkFresh DEF Works
<1>4. \A p \in Path : <<t, p>> \in torn => <<t, p>> \in torn' OBVIOUS
<1>5. ASSUME NEW p \in Targets(t)
      PROVE  op'[t][p] = IF op[t][p] = "undoing" THEN "installed" ELSE op[t][p]
  <2>1. p \in Path /\ op \in [Tx -> [Path -> OpState]] BY <1>5 DEF Targets, AllOK, TypeOK, MemoryTypeOK
  <2>2. CASE op' = op /\ pc[t] # "rolling"
    <3>1. OpOK(t, p) BY <1>5 DEF AllOK, TxOK, Works
    <3> QED BY <2>2, <3>1 DEF OpOK
  <2>3. CASE op' = [op EXCEPT ![t] = [q \in Path |-> IF op[t][q] = "undoing" THEN "installed" ELSE op[t][q]]]
    BY <2>1, <2>3
  <2> QED BY <2>2, <2>3
<1>6. \A p \in Targets(t) : backup'[t][p] = backup[t][p] \/ op[t][p] \in {"planned", "inspected"}
  BY <1>2 DEF Targets
<1>7. TxOK(t)' BY <1>1, <1>4, <1>5, <1>6, GivesUp DEF Works
<1> QED BY <1>3, <1>7, WorkKeeps

\* A step moves one transaction.
LEMMA Alone ==
    ASSUME AllOK, NEW t \in Tx, pc[t] \in Working, UNCHANGED <<log, rpc, spent, before>>,
           UNCHANGED pc \/ \E s : Become(t, s),
           \/ UNCHANGED op \/ \E p \in Path : \E s : SetOp(t, p, s)
           \/ \E states : op' = [op EXCEPT ![t] = states],
           UNCHANGED manifest \/ \E s \in ManifestState \ {"none"} : Transition(t, s) /\ manifest[t] # "none",
           UNCHANGED backup \/ \E p \in Path : \E v : SetBackup(t, p, v),
           UNCHANGED decided \/ decided' = decided \union {t},
           UNCHANGED torn \/ \E p \in Path : torn' = torn \union {<<t, p>>},
           \A u \in Tx : u # t => recorded'[u] = recorded[u] /\ applied'[u] = applied[u]
    PROVE  Works(t)
<1> SUFFICES ASSUME NEW u \in Tx, u # t PROVE Same(u)
  <2>1. manifest'[t] = "none" <=> manifest[t] = "none" BY TransitionIs DEF AllOK
  <2> QED BY <2>1 DEF Works
<1>1. pc'[u] = pc[u] BY BecomeIs DEF AllOK
<1>2. op'[u] = op[u] BY SetOpIs DEF AllOK, TypeOK, MemoryTypeOK
<1>3. manifest'[u] = manifest[u] BY TransitionIs DEF AllOK
<1>4. backup'[u] = backup[u] BY SetBackupIs DEF AllOK
<1>5. (u \in decided' <=> u \in decided) /\ \A p \in Path : <<u, p>> \in torn' <=> <<u, p>> \in torn OBVIOUS
<1> QED BY <1>1, <1>2, <1>3, <1>4, <1>5 DEF Same

LEMMA StageFileKeeps ==
    ASSUME AllOK, TypeOK', LockInv', NEW t \in Tx, NEW p \in Path, StageFile(t, p)
    PROVE  AllOK'
<1>1. /\ pc[t] = "staging" /\ p \in Targets(t) /\ op[t][p] = "planned"
      /\ UNCHANGED <<target, backup, manifest, recorded, applied, torn, decided>>
      /\ UNCHANGED <<log, before, rpc, spent>>
  BY BystandersAre DEF StageFile, StageNext, Staging, First, InState
<1>2. TxOK(t) /\ manifest[t] = "preparing" BY <1>1 DEF AllOK, TxOK, ManifestAt
<1>3. \/ pc' = pc /\ \E s \in {"staged", "inspected"} : SetOp(t, p, s) /\ (s = "staged" => Kind[t][p] = "create")
      \/ Become(t, "rollback") /\ UNCHANGED op
  <2>1. CASE Inspectable(t, p) /\ CurrentMatches(t, p)
    <3>1. pc' = pc /\ SetOp(t, p, IF Kind[t][p] = "create" THEN "staged" ELSE "inspected")
      BY <1>1, <2>1 DEF StageFile
    <3> QED BY <3>1
  <2>2. CASE ~(Inspectable(t, p) /\ CurrentMatches(t, p))
    BY <2>2 DEF StageFile, ToRollback
  <2> QED BY <2>1, <2>2
<1>4. Works(t)
  <2>1. UNCHANGED pc \/ \E s : Become(t, s) BY <1>3
  <2>2. UNCHANGED op \/ \E q \in Path : \E s : SetOp(t, q, s) BY <1>3
  <2> QED BY <1>1, <2>1, <2>2, Alone DEF Working
<1>5. CASE Become(t, "rollback") /\ UNCHANGED op
  BY <1>1, <1>2, <1>4, <1>5, GivingUpKeeps DEF ManifestAt, Undecided
<1>6. ASSUME NEW s \in {"staged", "inspected"}, pc' = pc, SetOp(t, p, s), s = "staged" => Kind[t][p] = "create"
      PROVE  AllOK'
  <2>1. FreshInv' BY <1>1, WorkFresh
  <2>2. op'[t][p] = s /\ \A q \in Path : q # p => op'[t][q] = op[t][q] BY <1>6, SetOpIs DEF AllOK
  <2>3. ASSUME NEW q \in Targets(t) PROVE OpOK(t, q)'
    <3>1. q \in Path /\ OpOK(t, q) BY <1>1, <1>2, <2>3 DEF TxOK, Targets, Working
    <3>2. CASE q # p BY <1>1, <1>6, <2>2, <3>1, <3>2, OpStays
    <3>3. CASE q = p
      <4>1. Torn(t)' = Torn(t) BY <1>1 DEF Torn
      <4> QED BY <1>1, <1>6, <2>2, <3>1, <3>3, <4>1 DEF OpOK, InPlace
    <3> QED BY <3>2, <3>3
  <2>4. InstallOK(t)' BY <1>1, <1>6 DEF InstallOK
  <2>5. TxOK(t)' BY <1>1, <1>2, <1>6, <2>3, <2>4, WorksOn DEF TxOK, AppliedOK, ManifestAt, Working
  <2> QED BY <1>4, <2>1, <2>5, WorkKeeps
<1> QED BY <1>3, <1>5, <1>6

LEMMA LinkBackupKeeps ==
    ASSUME AllOK, TypeOK', LockInv', NEW t \in Tx, NEW p \in Path, LinkBackup(t, p)
    PROVE  AllOK'
<1>1. /\ pc[t] = "staging" /\ p \in Targets(t) /\ op[t][p] = "inspected"
      /\ UNCHANGED <<target, manifest, recorded, applied, torn, decided>>
      /\ UNCHANGED <<log, before, rpc, spent>>
  BY BystandersAre DEF LinkBackup, Staging
<1>2. TxOK(t) /\ manifest[t] = "preparing" BY <1>1 DEF AllOK, TxOK, ManifestAt
<1>3. \/ pc' = pc /\ SetBackup(t, p, target[p]) /\ SetOp(t, p, "staged")
      \/ Become(t, "rollback") /\ backup' = backup /\ op' = op
  BY Zenon DEF LinkBackup, ToRollback
<1>4. Works(t)
  <2>1. UNCHANGED pc \/ \E s : Become(t, s) BY <1>3
  <2>2. UNCHANGED op \/ \E q \in Path : \E s : SetOp(t, q, s) BY <1>3
  <2>3. UNCHANGED backup \/ \E q \in Path : \E v : SetBackup(t, q, v) BY <1>3
  <2> QED BY <1>1, <2>1, <2>2, <2>3, Alone DEF Working
<1>5. CASE Become(t, "rollback") /\ backup' = backup /\ op' = op
  BY <1>1, <1>2, <1>4, <1>5, GivingUpKeeps DEF ManifestAt, Undecided
<1>6. CASE pc' = pc /\ SetBackup(t, p, target[p]) /\ SetOp(t, p, "staged")
  <2>1. /\ backup'[t][p] = target[p] /\ \A q \in Path : q # p => backup'[t][q] = backup[t][q]
        /\ \A u \in Tx : u # t => backup'[u] = backup[u]
    BY <1>6, SetBackupIs DEF AllOK
  <2>2. op'[t][p] = "staged" /\ \A q \in Path : q # p => op'[t][q] = op[t][q] BY <1>6, SetOpIs DEF AllOK
  <2>3. FreshInv' BY <1>1, <2>1, WorkFresh
  <2>4. ASSUME NEW q \in Targets(t) PROVE OpOK(t, q)'
    <3>1. q \in Path /\ OpOK(t, q) BY <1>1, <1>2, <2>4 DEF TxOK, Targets, Working
    <3>2. CASE q # p BY <1>1, <1>6, <2>1, <2>2, <3>1, <3>2, OpStays
    <3>3. CASE q = p
      <4>1. Torn(t)' = Torn(t) BY <1>1 DEF Torn
      <4> QED BY <1>1, <1>6, <2>1, <2>2, <3>1, <3>3, <4>1 DEF OpOK, InPlace
    <3> QED BY <3>2, <3>3
  <2>5. InstallOK(t)' BY <1>1, <1>6 DEF InstallOK
  <2>6. TxOK(t)' BY <1>1, <1>2, <1>6, <2>4, <2>5, WorksOn DEF TxOK, AppliedOK, ManifestAt, Working
  <2> QED BY <1>4, <2>3, <2>6, WorkKeeps
<1> QED BY <1>3, <1>5, <1>6

LEMMA LeakArtifactKeeps ==
    ASSUME AllOK, TypeOK', LockInv', NEW t \in Tx, NEW p \in Path, LeakArtifact(t, p)
    PROVE  AllOK'
<1>1. /\ pc[t] = "staging"
      /\ UNCHANGED <<target, op, manifest, recorded, applied, torn, decided>>
      /\ UNCHANGED <<log, before, rpc, spent>>
      /\ Become(t, "rollback")
  BY BystandersAre DEF LeakArtifact, StageNext, Staging, ToRollback
<1>2. manifest[t] = "preparing" BY <1>1 DEF AllOK, TxOK, ManifestAt
<1>3. backup' = backup \/ (SetBackup(t, p, target[p]) /\ op[t][p] = "inspected") BY DEF LeakArtifact
<1>4. Works(t) BY <1>1, <1>3, Alone DEF Working
<1> QED BY <1>1, <1>2, <1>3, <1>4, GivingUpKeeps DEF ManifestAt, Undecided

LEMMA RecordStagedKeeps ==
    ASSUME AllOK, TypeOK', LockInv', NEW t \in Tx, NEW p \in Path, RecordStaged(t, p)
    PROVE  AllOK'
<1>1. /\ pc[t] = "staging" /\ p \in Targets(t) /\ op[t][p] = "staged"
      /\ UNCHANGED <<target, backup, manifest, pc, applied, torn, decided>>
      /\ UNCHANGED <<log, before, rpc, spent>>
      /\ SetOp(t, p, "recorded") /\ recorded' = [recorded EXCEPT ![t] = @ \union {p}]
  BY BystandersAre DEF RecordStaged, Staging, disk
<1>2. TxOK(t) /\ manifest[t] = "preparing" BY <1>1 DEF AllOK, TxOK, ManifestAt
<1>3. recorded'[t] = recorded[t] \union {p} /\ \A u \in Tx : u # t => recorded'[u] = recorded[u]
  BY <1>1 DEF AllOK, TypeOK, JournalTypeOK
<1>4. Works(t) BY <1>1, <1>3, Alone DEF Working
<1>5. FreshInv' BY <1>1, WorkFresh
<1>6. op'[t][p] = "recorded" /\ \A q \in Path : q # p => op'[t][q] = op[t][q] BY <1>1, SetOpIs DEF AllOK
<1>7. ASSUME NEW q \in Targets(t) PROVE OpOK(t, q)'
  <2>1. q \in Path /\ OpOK(t, q) BY <1>1, <1>2, <1>7 DEF TxOK, Targets, Working
  <2>2. CASE q # p BY <1>1, <1>3, <1>6, <2>1, <2>2, OpStays
  <2>3. CASE q = p
    <3>1. Torn(t)' = Torn(t) BY <1>1 DEF Torn
    <3> QED BY <1>1, <1>3, <1>6, <2>1, <2>3, <3>1 DEF OpOK, InPlace
  <2> QED BY <2>2, <2>3
<1>8. InstallOK(t)' BY <1>1 DEF InstallOK
<1>9. TxOK(t)' BY <1>1, <1>2, <1>7, <1>8, WorksOn DEF TxOK, AppliedOK, ManifestAt, Working
<1> QED BY <1>4, <1>5, <1>9, WorkKeeps

\* A step that only moves on: the position, and with it the manifest.
LEMMA MovingKeeps ==
    ASSUME AllOK, TypeOK', LockInv', NEW t \in Tx, Works(t), NEW s, Become(t, s),
           UNCHANGED <<target, backup, op, recorded, applied, torn, decided>>,
           pc[t] \in {"staging", "prepared", "directories", "recordDirectory", "installing"},
           s \in {"prepared", "directories", "recordDirectory", "installing", "participants"},
           IF pc[t] = "installing"
             THEN s = "participants" /\ \A p \in Targets(t) : op[t][p] = "installed"
             ELSE s # "participants" /\ \A p \in Targets(t) : op[t][p] = "recorded",
           manifest'[t] \in ManifestAt(s),
           s = pc[t] => manifest'[t] = manifest[t]
    PROVE  AllOK'
<1>1. pc'[t] = s /\ TxOK(t) BY BecomeIs DEF AllOK
<1>2. FreshInv' BY WorkFresh DEF Works
<1>3. \A q \in Targets(t) : OpOK(t, q) BY <1>1 DEF TxOK, Working
<1>4. ASSUME NEW q \in Targets(t) PROVE OpOK(t, q)'
  <2>1. q \in Path /\ OpOK(t, q) /\ op[t][q] # "visible" BY <1>3, <1>4 DEF Targets
  <2> QED BY <1>1, <2>1, OpStays DEF Works
<1>5. InstallOK(t)'
  <2>1. s # "participants" => \A q \in Targets(t) : op'[t][q] = "recorded" OBVIOUS
  <2> QED BY <1>1, <2>1 DEF InstallOK, InState
<1>6. applied'[t] \subseteq Targets(t) BY <1>1 DEF TxOK, AppliedOK
<1>7. manifest'[t] = "committed_pending_participants" => applied'[t] = Targets(t)
  <2>1. manifest'[t] = "committed_pending_participants" => s = "participants" BY DEF ManifestAt
  <2>2. pc[t] = "installing" => Targets(t) \subseteq applied[t] BY <1>3 DEF OpOK, InPlace
  <2> QED BY <1>6, <2>1, <2>2
<1>8. TxOK(t)' BY <1>1, <1>4, <1>5, <1>6, <1>7, WorksOn DEF Working
<1> QED BY <1>2, <1>8, WorkKeeps

LEMMA PrepareDoneKeeps ==
    ASSUME AllOK, TypeOK', LockInv', NEW t \in Tx, PrepareDone(t)
    PROVE  AllOK'
<1>1. /\ pc[t] = "staging" /\ InState(t, {"recorded"}) = Targets(t)
      /\ Transition(t, "prepared") /\ Become(t, "prepared")
      /\ UNCHANGED <<target, backup, op, recorded, applied, torn, decided>>
      /\ UNCHANGED <<log, before, rpc, spent>>
  BY BystandersAre DEF PrepareDone, disk
<1>2. manifest[t] = "preparing" BY <1>1 DEF AllOK, TxOK, ManifestAt
<1>3. Works(t) BY <1>1, <1>2, Alone DEF Working, ManifestState
<1>4. manifest'[t] \in ManifestAt("prepared") BY <1>1, TransitionIs DEF AllOK, ManifestAt
<1>5. \A p \in Targets(t) : op[t][p] = "recorded" BY <1>1 DEF InState
<1> QED BY <1>1, <1>3, <1>4, <1>5, MovingKeeps

LEMMA BeginCommitKeeps ==
    ASSUME AllOK, TypeOK', LockInv', NEW t \in Tx, BeginCommit(t)
    PROVE  AllOK'
<1>1. /\ pc[t] = "prepared"
      /\ Transition(t, "committing") /\ Become(t, "directories")
      /\ UNCHANGED <<target, backup, op, recorded, applied, torn, decided>>
      /\ UNCHANGED <<log, before, rpc, spent>>
  BY BystandersAre DEF BeginCommit, disk
<1>2. manifest[t] = "prepared" /\ InstallOK(t) BY <1>1 DEF AllOK, TxOK, ManifestAt
<1>3. Works(t) BY <1>1, <1>2, Alone DEF Working, ManifestState
<1>4. manifest'[t] \in ManifestAt("directories") BY <1>1, TransitionIs DEF AllOK, ManifestAt
<1>5. \A p \in Targets(t) : op[t][p] = "recorded" BY <1>1, <1>2 DEF InstallOK
<1> QED BY <1>1, <1>3, <1>4, <1>5, MovingKeeps

LEMMA MakeDirectoryKeeps ==
    ASSUME AllOK, TypeOK', LockInv', NEW t \in Tx,
           MakeDirectory(t) \/ RecordDirectory(t)
    PROVE  AllOK'
<1>1. /\ pc[t] \in {"directories", "recordDirectory"}
      /\ UNCHANGED <<target, backup, op, manifest, recorded, applied, torn, decided>>
      /\ UNCHANGED <<log, before, rpc, spent>>
  BY BystandersAre DEF MakeDirectory, RecordDirectory, disk
<1>2. \E s \in {"recordDirectory", "installing", "rollback"} :
        Become(t, s) /\ (s = "recordDirectory" => pc[t] = "directories")
  <2>1. CASE RecordDirectory(t) BY <2>1 DEF RecordDirectory
  <2>2. CASE MakeDirectory(t) /\ ~need[t] BY <2>2 DEF MakeDirectory
  <2>3. CASE MakeDirectory(t) /\ need[t] /\ dir BY <2>3 DEF MakeDirectory, ToRollback
  <2>4. CASE MakeDirectory(t) /\ need[t] /\ ~dir BY <2>4 DEF MakeDirectory
  <2> QED BY <2>1, <2>2, <2>3, <2>4
<1>3. PICK s \in {"recordDirectory", "installing", "rollback"} :
        Become(t, s) /\ (s = "recordDirectory" => pc[t] = "directories")
  BY <1>2
<1>4. manifest[t] = "committing" /\ InstallOK(t) BY <1>1 DEF AllOK, TxOK, ManifestAt
<1>5. Works(t)
  <2>1. \E x : Become(t, x) BY <1>3
  <2> QED BY <1>1, <2>1, Alone DEF Working
<1>6. CASE s = "rollback"
  BY <1>1, <1>3, <1>4, <1>5, <1>6, GivingUpKeeps DEF ManifestAt, Undecided
<1>7. CASE s # "rollback"
  <2>1. \A p \in Targets(t) : op[t][p] = "recorded" BY <1>1, <1>4 DEF InstallOK
  <2>2. manifest'[t] \in ManifestAt(s) BY <1>1, <1>4, <1>7 DEF ManifestAt
  <2> QED BY <1>1, <1>3, <1>5, <1>7, <2>1, <2>2, MovingKeeps
<1> QED BY <1>6, <1>7

LEMMA InstallDoneKeeps ==
    ASSUME AllOK, TypeOK', LockInv', NEW t \in Tx, InstallDone(t)
    PROVE  AllOK'
<1>1. /\ pc[t] = "installing" /\ InState(t, {"installed"}) = Targets(t)
      /\ Transition(t, "committed_pending_participants") /\ Become(t, "participants")
      /\ UNCHANGED <<target, backup, op, recorded, applied, torn, decided>>
      /\ UNCHANGED <<log, before, rpc, spent>>
  BY BystandersAre DEF InstallDone, AllInstalled, disk
<1>2. manifest[t] = "committing" BY <1>1 DEF AllOK, TxOK, ManifestAt
<1>3. Works(t) BY <1>1, <1>2, Alone DEF Working, ManifestState
<1>4. manifest'[t] \in ManifestAt("participants") BY <1>1, TransitionIs DEF AllOK, ManifestAt
<1>5. \A p \in Targets(t) : op[t][p] = "installed" BY <1>1 DEF InState
<1> QED BY <1>1, <1>3, <1>4, <1>5, MovingKeeps

LEMMA CheckTargetKeeps ==
    ASSUME AllOK, TypeOK', LockInv', NEW t \in Tx, NEW p \in Path, CheckTarget(t, p)
    PROVE  AllOK'
<1>1. /\ pc[t] = "installing" /\ p \in Targets(t) /\ op[t][p] = "recorded"
      /\ InState(t, {"checked", "visible"}) = {}
      /\ UNCHANGED <<target, backup, manifest, recorded, applied, torn, decided>>
      /\ UNCHANGED <<log, before, rpc, spent>>
  BY BystandersAre DEF CheckTarget, disk, First, InState
<1>2. TxOK(t) /\ manifest[t] = "committing" BY <1>1 DEF AllOK, TxOK, ManifestAt
<1>3. \/ pc' = pc /\ SetOp(t, p, "checked") /\ target[p] = before[t][p]
      \/ Become(t, "rollback") /\ UNCHANGED op
  BY Zenon DEF CheckTarget, ToRollback, CurrentMatches
<1>4. Works(t)
  <2>1. UNCHANGED pc \/ \E s : Become(t, s) BY <1>3
  <2>2. UNCHANGED op \/ \E q \in Path : \E s : SetOp(t, q, s) BY <1>3
  <2> QED BY <1>1, <2>1, <2>2, Alone DEF Working
<1>5. CASE Become(t, "rollback") /\ UNCHANGED op
  <2>1. \A q \in Targets(t) : op[t][q] # "visible" BY <1>1 DEF InState
  <2> QED BY <1>1, <1>2, <1>4, <1>5, <2>1, GivingUpKeeps DEF ManifestAt, Undecided
<1>6. CASE pc' = pc /\ SetOp(t, p, "checked") /\ target[p] = before[t][p]
  <2>1. FreshInv' BY <1>1, WorkFresh
  <2>2. op'[t][p] = "checked" /\ \A q \in Path : q # p => op'[t][q] = op[t][q] BY <1>6, SetOpIs DEF AllOK
  <2>3. ASSUME NEW q \in Targets(t) PROVE OpOK(t, q)'
    <3>1. q \in Path /\ OpOK(t, q) BY <1>1, <1>2, <2>3 DEF TxOK, Targets, Working
    <3>2. CASE q # p BY <1>1, <1>6, <2>2, <3>1, <3>2, OpStays
    <3>3. CASE q = p
      <4>1. Torn(t)' = Torn(t) BY <1>1 DEF Torn
      <4> QED BY <1>1, <1>6, <2>2, <3>1, <3>3, <4>1 DEF OpOK, InPlace
    <3> QED BY <3>2, <3>3
  <2>4. InstallOK(t)'
    <3>1. \A q \in Targets(t) : q # p => op'[t][q] \notin {"checked", "visible"}
      BY <1>1, <2>2 DEF InState, Targets
    <3> QED BY <1>1, <1>6, <2>2, <3>1 DEF InstallOK, InState
  <2>5. TxOK(t)' BY <1>1, <1>2, <1>6, <2>3, <2>4, WorksOn DEF TxOK, AppliedOK, ManifestAt, Working
  <2> QED BY <1>4, <2>1, <2>5, WorkKeeps
<1> QED BY <1>3, <1>5, <1>6

LEMMA InstallFileKeeps ==
    ASSUME AllOK, TypeOK', LockInv', NEW t \in Tx, NEW p \in Path, InstallFile(t, p)
    PROVE  AllOK'
<1>1. /\ pc[t] = "installing" /\ p \in Targets(t) /\ op[t][p] = "checked"
      /\ UNCHANGED <<backup, manifest, recorded, torn, decided>>
      /\ UNCHANGED <<log, before, rpc, spent>>
  BY BystandersAre DEF InstallFile
<1>2. TxOK(t) /\ manifest[t] = "committing" BY <1>1 DEF AllOK, TxOK, ManifestAt
<1>3. \/ /\ pc' = pc /\ target' = [target EXCEPT ![p] = After(t, p)]
         /\ \E s \in {"visible", "installed"} : SetOp(t, p, s)
         /\ applied' = [applied EXCEPT ![t] = @ \union {p}]
      \/ Become(t, "rollback") /\ UNCHANGED <<target, op, applied>>
  <2>1. CASE \/ Kind[t][p] = "create" /\ target[p] # Absent
             \/ Kind[t][p] = "delete" /\ target[p] = Absent
    BY <2>1 DEF InstallFile, ToRollback
  <2>2. CASE ~ \/ Kind[t][p] = "create" /\ target[p] # Absent
               \/ Kind[t][p] = "delete" /\ target[p] = Absent
    <3>1. SetOp(t, p, IF Kind[t][p] = "delete" THEN "installed" ELSE "visible")
      BY <2>2 DEF InstallFile
    <3>2. \E s \in {"visible", "installed"} : SetOp(t, p, s) BY <3>1
    <3> QED BY <2>2, <3>2 DEF InstallFile
  <2> QED BY <2>1, <2>2
<1>4. \A q \in Targets(t) : op[t][q] \in {"checked", "visible"} => q = p
  BY <1>1, <1>2 DEF TxOK, InstallOK, InState
<1>5. CASE Become(t, "rollback") /\ UNCHANGED <<target, op, applied>>
  <2>1. \E s : Become(t, s) BY <1>5
  <2>2. Works(t) BY <1>1, <1>5, <2>1, Alone DEF Working
  <2>3. \A q \in Targets(t) : op[t][q] # "visible" BY <1>1, <1>4
  <2> QED BY <1>1, <1>2, <1>5, <2>2, <2>3, GivingUpKeeps DEF ManifestAt, Undecided
<1>6. ASSUME pc' = pc, target' = [target EXCEPT ![p] = After(t, p)],
             NEW s \in {"visible", "installed"}, SetOp(t, p, s),
             applied' = [applied EXCEPT ![t] = @ \union {p}]
      PROVE  AllOK'
  <2>1. applied'[t] = applied[t] \union {p} /\ \A u \in Tx : u # t => applied'[u] = applied[u]
    BY <1>6 DEF AllOK, TypeOK, HistoryTypeOK
  <2>2. target'[p] = After(t, p) /\ \A q \in Path : q # p => target'[q] = target[q]
    BY <1>6 DEF AllOK, TypeOK, DiskTypeOK
  <2>3. op'[t][p] = s /\ \A q \in Path : q # p => op'[t][q] = op[t][q] BY <1>6, SetOpIs DEF AllOK
  <2>4. Works(t)
    <3>1. \E q \in Path : \E x : SetOp(t, q, x) BY <1>6
    <3> QED BY <1>1, <1>6, <2>1, <3>1, Alone DEF Working
  <2>5. FreshInv' BY <1>1, <2>2, WorkFresh DEF After
  <2>6. ASSUME NEW q \in Targets(t) PROVE OpOK(t, q)'
    <3>1. q \in Path /\ OpOK(t, q) BY <1>1, <1>2, <2>6 DEF TxOK, Targets, Working
    <3>2. CASE q # p BY <1>1, <1>6, <2>1, <2>2, <2>3, <3>1, <3>2, OpStays
    <3>3. CASE q = p BY <1>1, <1>6, <2>1, <2>3, <3>1, <3>3 DEF OpOK, InPlace
    <3> QED BY <3>2, <3>3
  <2>7. InstallOK(t)'
    <3>1. \A q \in Targets(t) : q # p => op'[t][q] \notin {"checked", "visible"}
      BY <1>4, <2>3 DEF Targets
    <3> QED BY <1>1, <1>6, <2>3, <3>1 DEF InstallOK, InState
  <2>8. applied'[t] \subseteq Targets(t) BY <1>1, <1>2, <2>1 DEF TxOK, AppliedOK
  <2>9. TxOK(t)' BY <1>1, <1>2, <1>6, <2>6, <2>7, <2>8, WorksOn DEF ManifestAt, Working
  <2> QED BY <2>4, <2>5, <2>9, WorkKeeps
<1> QED BY <1>3, <1>5, <1>6

LEMMA ReadbackKeeps ==
    ASSUME AllOK, TypeOK', LockInv', NEW t \in Tx, NEW p \in Path, Readback(t, p)
    PROVE  AllOK'
<1>1. /\ pc[t] = "installing" /\ p \in Targets(t) /\ op[t][p] = "visible"
      /\ UNCHANGED <<target, backup, manifest, recorded, applied, decided>>
      /\ UNCHANGED <<log, before, rpc, spent>>
  BY BystandersAre DEF Readback, disk
<1>2. TxOK(t) /\ manifest[t] = "committing" BY <1>1 DEF AllOK, TxOK, ManifestAt
<1>3. \/ pc' = pc /\ SetOp(t, p, "installed") /\ UNCHANGED torn
      \/ Become(t, "rollback") /\ UNCHANGED op /\ torn' = torn \union {<<t, p>>}
  BY DEF Readback, ToRollback
<1>4. \A q \in Targets(t) : op[t][q] \in {"checked", "visible"} => q = p
  BY <1>1, <1>2 DEF TxOK, InstallOK, InState
<1>5. Works(t)
  <2>1. UNCHANGED pc \/ \E s : Become(t, s) BY <1>3
  <2>2. UNCHANGED op \/ \E q \in Path : \E s : SetOp(t, q, s) BY <1>3
  <2>3. UNCHANGED torn \/ \E q \in Path : torn' = torn \union {<<t, q>>} BY <1>3
  <2> QED BY <1>1, <2>1, <2>2, <2>3, Alone DEF Working
<1>6. CASE Become(t, "rollback") /\ UNCHANGED op /\ torn' = torn \union {<<t, p>>}
  <2>1. \A q \in Targets(t) : op[t][q] = "visible" => <<t, q>> \in torn' BY <1>4, <1>6
  <2>2. \E q \in Path : torn' = torn \union {<<t, q>>} BY <1>6
  <2>3. backup' = backup BY <1>1
  <2> QED BY <1>1, <1>2, <1>5, <1>6, <2>1, <2>2, <2>3, GivingUpKeeps DEF ManifestAt, Undecided
<1>7. CASE pc' = pc /\ SetOp(t, p, "installed") /\ UNCHANGED torn
  <2>1. FreshInv' BY <1>1, WorkFresh
  <2>2. op'[t][p] = "installed" /\ \A q \in Path : q # p => op'[t][q] = op[t][q]
    <3>1. TypeOK /\ t \in Tx /\ p \in Path /\ SetOp(t, p, "installed") BY <1>7 DEF AllOK
    <3> QED BY ONLY <3>1, SetOpIs
  <2>3. ASSUME NEW q \in Targets(t) PROVE OpOK(t, q)'
    <3>1. q \in Path /\ OpOK(t, q) BY <1>1, <1>2, <2>3 DEF TxOK, Targets, Working
    <3>2. CASE q # p BY <1>1, <1>7, <2>2, <3>1, <3>2, OpStays
    <3>3. CASE q = p BY <1>1, <1>7, <2>2, <3>1, <3>3 DEF OpOK, InPlace
    <3> QED BY <3>2, <3>3
  <2>4. InstallOK(t)'
    <3>1. \A q \in Targets(t) : op'[t][q] \notin {"checked", "visible"}
      BY <1>4, <2>2 DEF Targets
    <3> QED BY <1>1, <1>7, <3>1 DEF InstallOK, InState
  <2>5. TxOK(t)' BY <1>1, <1>2, <1>7, <2>3, <2>4, WorksOn DEF TxOK, AppliedOK, ManifestAt, Working
  <2> QED BY <1>5, <2>1, <2>5, WorkKeeps
<1> QED BY <1>3, <1>6, <1>7

\* Nothing that is looked at here changes.
LEMMA NothingMoves ==
    ASSUME AllOK, TypeOK', LockInv',
           UNCHANGED <<target, backup, manifest, recorded, applied, torn, decided>>,
           UNCHANGED <<log, before, rpc, spent, pc, op>>, NEW t \in Tx, pc[t] \in Working
    PROVE  AllOK'
<1>1. \A u \in Tx : Same(u) BY DEF Same
<1>2. Works(t) BY <1>1 DEF Works
<1>3. TxOK(t)' BY <1>1, Others DEF AllOK
<1>4. FreshInv' BY WorkFresh
<1> QED BY <1>2, <1>3, <1>4, WorkKeeps

LEMMA ParticipantsKeep ==
    ASSUME AllOK, TypeOK', LockInv', NEW t \in Tx, NEW i \in Part,
           CommitEffect(t, i) \/ RecordFact(t, i) \/ ParticipantFails(t, i)
    PROVE  AllOK'
<1>1. /\ pc[t] = "participants"
      /\ UNCHANGED <<target, backup, op, manifest, recorded, applied, torn, decided>>
      /\ UNCHANGED <<log, before, rpc, spent>>
      /\ UNCHANGED pc \/ Become(t, "rollback")
  BY BystandersAre DEF CommitEffect, RecordFact, ParticipantFails, Turn, disk, ToRollback
<1>2. manifest[t] = "committed_pending_participants" BY <1>1 DEF AllOK, TxOK, ManifestAt
<1>3. Works(t)
  <2>1. UNCHANGED pc \/ \E s : Become(t, s) BY <1>1
  <2> QED BY <1>1, <2>1, Alone DEF Working
<1>4. CASE Become(t, "rollback")
  BY <1>1, <1>2, <1>3, <1>4, GivingUpKeeps DEF ManifestAt, Undecided
<1>5. CASE UNCHANGED pc
  BY <1>1, <1>5, NothingMoves DEF Working
<1> QED BY <1>1, <1>4, <1>5

LEMMA FinalizeKeeps ==
    ASSUME AllOK, TypeOK', LockInv', NEW t \in Tx, Finalize(t)
    PROVE  AllOK'
<1>1. /\ pc[t] = "participants" /\ decided' = decided \union {t}
      /\ Transition(t, "committed") /\ Become(t, "cleaning")
      /\ UNCHANGED <<target, backup, op, recorded, applied, torn>>
      /\ UNCHANGED <<log, before, rpc, spent>>
  BY BystandersAre DEF Finalize, disk
<1>2. TxOK(t) /\ manifest[t] = "committed_pending_participants" BY <1>1 DEF AllOK, TxOK, ManifestAt
<1>3. Works(t) BY <1>1, <1>2, Alone DEF Working, ManifestState
<1>4. manifest'[t] = "committed" /\ pc'[t] = "cleaning" BY <1>1, BecomeIs, TransitionIs DEF AllOK
<1>5. Torn(t)' = {}
  <2>1. Torn(t)' = Torn(t) BY <1>1 DEF Torn
  <2> QED BY <1>2, <2>1 DEF TxOK, TornOK
<1>6. applied'[t] = Targets(t) BY <1>1, <1>2 DEF TxOK, WholeOK
<1>7. TxOK(t)'
  <2>1. InstallOK(t)' BY <1>4 DEF InstallOK
  <2>2. TornOK(t)' BY <1>5 DEF TornOK
  <2>3. AppliedOK(t)' BY <1>4, <1>6 DEF AppliedOK
  <2>4. EvidenceOK(t)' BY <1>4 DEF EvidenceOK, Undecided
  <2>5. WholeOK(t)' BY <1>4, <1>6 DEF WholeOK
  <2> QED BY <1>1, <1>4, <2>1, <2>2, <2>3, <2>4, <2>5 DEF TxOK, ManifestAt
<1>8. FreshInv' BY <1>1, WorkFresh
<1> QED BY <1>3, <1>7, <1>8, WorkKeeps

LEMMA CleanUpKeeps ==
    ASSUME AllOK, TypeOK', LockInv', NEW t \in Tx, NEW p \in Path, CleanUp(t, p)
    PROVE  AllOK'
<1>1. /\ pc[t] = "cleaning"
      /\ UNCHANGED <<target, pc, manifest, recorded, applied, torn, decided>>
      /\ UNCHANGED <<log, before, rpc, spent>>
      /\ SetOp(t, p, "finalized")
      /\ backup' = backup \/ SetBackup(t, p, Absent)
  BY BystandersAre DEF CleanUp
<1>2. TxOK(t) /\ manifest[t] = "committed" BY <1>1 DEF AllOK, TxOK, ManifestAt
<1>3. Works(t)
  <2>1. \E q \in Path : \E s : SetOp(t, q, s) BY <1>1
  <2>2. UNCHANGED backup \/ \E q \in Path : \E v : SetBackup(t, q, v) BY <1>1
  <2> QED BY <1>1, <2>1, <2>2, Alone DEF Working
<1>4. TxOK(t)'
  <2>1. InstallOK(t)' BY <1>1 DEF InstallOK
  <2>2. Torn(t)' = Torn(t) BY <1>1 DEF Torn
  <2>3. TornOK(t)' BY <1>1, <1>2, <2>2 DEF TxOK, TornOK
  <2>4. AppliedOK(t)' BY <1>1, <1>2 DEF TxOK, AppliedOK
  <2>5. EvidenceOK(t)' BY <1>1, <1>2 DEF EvidenceOK, Undecided
  <2>6. WholeOK(t)' BY <1>1, <1>2 DEF TxOK, WholeOK
  <2> QED BY <1>1, <1>2, <2>1, <2>3, <2>4, <2>5, <2>6 DEF TxOK, ManifestAt
<1>5. FreshInv'
  <2>1. ASSUME NEW u \in Tx, NEW q \in Path PROVE backup'[u][q] \in {backup[u][q], Absent}
    <3>1. CASE backup' = backup BY <3>1
    <3>2. CASE SetBackup(t, p, Absent)
      <4>1. /\ backup'[t][p] = Absent /\ \A x \in Path : x # p => backup'[t][x] = backup[t][x]
            /\ \A x \in Tx : x # t => backup'[x] = backup[x]
        BY <3>2, SetBackupIs DEF AllOK
      <4> QED BY <4>1
    <3> QED BY <1>1, <3>1, <3>2
  <2> QED BY <1>1, <2>1, WorkFresh
<1> QED BY <1>3, <1>4, <1>5, WorkKeeps

LEMMA AcknowledgeKeeps ==
    ASSUME AllOK, TypeOK', LockInv', NEW t \in Tx, Acknowledge(t)
    PROVE  AllOK'
<1>1. /\ pc[t] = "cleaning" /\ Become(t, "done")
      /\ UNCHANGED <<target, backup, op, manifest, recorded, applied, torn, decided>>
      /\ UNCHANGED <<log, before, rpc, spent>>
  BY DEF Acknowledge, disk, journal, recovery, history
<1>2. TxOK(t) /\ manifest[t] = "committed" BY <1>1 DEF AllOK, TxOK, ManifestAt
<1>3. Works(t) BY <1>1, Alone DEF Working
<1>4. pc'[t] = "done" BY <1>1, BecomeIs DEF AllOK
<1>5. TxOK(t)'
  <2>1. InstallOK(t)' BY <1>4 DEF InstallOK
  <2>2. Torn(t)' = Torn(t) BY <1>1 DEF Torn
  <2>3. TornOK(t)' BY <1>1, <1>2, <2>2 DEF TxOK, TornOK
  <2>4. AppliedOK(t)' BY <1>1, <1>2, <1>4 DEF TxOK, AppliedOK
  <2>5. EvidenceOK(t)' BY <1>1, <1>2 DEF EvidenceOK, Undecided
  <2>6. WholeOK(t)' BY <1>1, <1>2 DEF TxOK, WholeOK
  <2> QED BY <1>1, <1>2, <1>4, <2>1, <2>3, <2>4, <2>5, <2>6 DEF TxOK, ManifestAt, Working
<1>6. FreshInv' BY <1>1, WorkFresh
<1> QED BY <1>3, <1>5, <1>6, WorkKeeps

\* A caller or a failing call gives up and leaves the manifest alone.
LEMMA RefusalsKeep ==
    ASSUME AllOK, TypeOK', LockInv', NEW t \in Tx,
           CallerRollback(t) \/ StepFails(t) \/ FinalizeFails(t)
    PROVE  AllOK'
<1>1. /\ pc[t] \in {"prepared", "participants", "retained", "staging",
                     "directories", "recordDirectory", "installing"}
      /\ UNCHANGED <<target, backup, op, manifest, recorded, applied, torn, decided>>
      /\ UNCHANGED <<log, before, rpc, spent>>
  BY BystandersAre DEF CallerRollback, StepFails, FinalizeFails, disk, journal, recovery, history
<1>2. \E s \in {"rollback", "abandoned"} : Become(t, s) /\ (s = "abandoned" => pc[t] = "participants")
  BY DEF CallerRollback, StepFails, FinalizeFails, ToRollback
<1>3. PICK s \in {"rollback", "abandoned"} : Become(t, s) /\ (s = "abandoned" => pc[t] = "participants")
  BY <1>2
<1>4. manifest[t] \in ManifestAt(pc[t]) BY DEF AllOK, TxOK
<1>5. manifest[t] \in ManifestAt(s) BY <1>1, <1>3, <1>4 DEF ManifestAt, Undecided
<1>6. pc[t] = "installing" => \A p \in Targets(t) : op[t][p] # "visible"
  BY DEF CallerRollback, StepFails, FinalizeFails, InState
<1>7. Works(t)
  <2>1. \E x : Become(t, x) BY <1>3
  <2> QED BY <1>1, <2>1, Alone DEF Working
<1>8. Become(t, s) BY <1>3
<1>9. pc[t] # "cleaning" BY <1>1
<1> QED BY <1>1, <1>5, <1>6, <1>7, <1>8, <1>9, GivingUpKeeps

LEMMA RollbackStepsKeep ==
    ASSUME AllOK, TypeOK', LockInv', NEW t \in Tx, BeginRollback(t) \/ RollbackFails(t)
    PROVE  AllOK'
<1>1. /\ pc[t] \in {"rollback", "rolling"}
      /\ UNCHANGED <<target, backup, recorded, applied, torn, decided>>
      /\ UNCHANGED <<log, before, rpc, spent>>
      /\ \/ op' = op /\ pc[t] # "rolling"
         \/ op' = [op EXCEPT ![t] = [p \in Path |-> IF op[t][p] = "undoing" THEN "installed" ELSE op[t][p]]]
  BY BystandersAre DEF BeginRollback, RollbackFails, disk
<1>2. \/ Become(t, "rolling") /\ Transition(t, "rolling_back")
      \/ Become(t, "retained") /\ (Transition(t, "recovery_required") \/ UNCHANGED manifest)
  BY DEF BeginRollback, RollbackFails
<1>3. manifest[t] \in Undecided BY <1>1 DEF AllOK, TxOK, ManifestAt, Undecided
<1>4. Works(t)
  <2>1. \E x : Become(t, x) BY <1>2
  <2>2. manifest[t] # "none" BY <1>3 DEF Undecided
  <2>3. UNCHANGED manifest \/ \E s \in ManifestState \ {"none"} : Transition(t, s) /\ manifest[t] # "none"
    BY <1>2, <2>2 DEF ManifestState
  <2>4. UNCHANGED op \/ \E states : op' = [op EXCEPT ![t] = states] BY <1>1
  <2> QED BY <1>1, <2>1, <2>3, <2>4, Alone DEF Working
<1>5. \E s \in {"rolling", "retained"} : /\ Become(t, s) /\ manifest'[t] \in ManifestAt(s)
                                          /\ manifest'[t] \in {manifest[t], "rolling_back", "recovery_required"}
  <2>1. CASE Become(t, "rolling") /\ Transition(t, "rolling_back")
    <3>1. manifest'[t] = "rolling_back" BY <2>1, TransitionIs DEF AllOK
    <3> QED BY <2>1, <3>1 DEF ManifestAt
  <2>2. CASE Become(t, "retained") /\ (Transition(t, "recovery_required") \/ UNCHANGED manifest)
    <3>1. manifest'[t] \in {manifest[t], "recovery_required"} BY <2>2, TransitionIs DEF AllOK
    <3>2. manifest'[t] \in ManifestAt("retained") BY <1>3, <3>1 DEF ManifestAt, Undecided
    <3> QED BY <2>2, <3>1, <3>2
  <2> QED BY <1>2, <2>1, <2>2
<1>6. PICK s \in {"rolling", "retained"} : /\ Become(t, s) /\ manifest'[t] \in ManifestAt(s)
                                          /\ manifest'[t] \in {manifest[t], "rolling_back", "recovery_required"}
  BY <1>5
<1>7. pc[t] # "cleaning" BY <1>1
<1> QED BY <1>1, <1>4, <1>6, <1>7, GivingUpKeeps

\* An operation that leaves a rollback: undone, or its artifacts removed.
LEMMA LeavingKeeps ==
    ASSUME AllOK, TypeOK', LockInv', NEW t \in Tx, NEW p \in Targets(t), pc[t] = "rolling",
           NEW s \in {"undone", "finalized"}, SetOp(t, p, s),
           UNCHANGED <<pc, manifest, recorded, torn, decided, log, before, rpc, spent>>,
           \A q \in Path : q # p => target'[q] = target[q] /\ (q \in applied'[t] <=> q \in applied[t]),
           target'[p] \in {target[p], backup[t][p], Absent},
           UNCHANGED backup \/ SetBackup(t, p, Absent),
           \A u \in Tx : u # t => applied'[u] = applied[u],
           applied'[t] \subseteq applied[t], p \notin applied'[t] \ Torn(t)
    PROVE  AllOK'
<1>1. TxOK(t) /\ manifest[t] = "rolling_back" /\ p \in Path BY DEF AllOK, TxOK, ManifestAt, Targets
<1>2. /\ backup'[t][p] \in {backup[t][p], Absent}
      /\ \A q \in Path : q # p => backup'[t][q] = backup[t][q]
      /\ \A u \in Tx : u # t => backup'[u] = backup[u]
  BY <1>1, SetBackupIs DEF AllOK
<1>3. op'[t][p] = s /\ \A q \in Path : q # p => op'[t][q] = op[t][q]
  <2>1. TypeOK /\ t \in Tx /\ p \in Path /\ SetOp(t, p, s) BY <1>1 DEF AllOK
  <2> QED BY ONLY <2>1, SetOpIs
<1>4. Works(t)
  <2>1. \E q \in Path : \E x : SetOp(t, q, x) BY <1>1
  <2>2. UNCHANGED backup \/ \E q \in Path : \E v : SetBackup(t, q, v) BY <1>1
  <2> QED BY <2>1, <2>2, Alone DEF Working
<1>5. FreshInv'
  <2>1. \A q \in Path : target'[q] \in {target[q], backup[t][q], Absent} OBVIOUS
  <2>2. ASSUME NEW u \in Tx, NEW q \in Path PROVE backup'[u][q] \in {backup[u][q], Absent}
    BY <1>2
  <2> QED BY <2>1, <2>2, WorkFresh
<1>6. ASSUME NEW q \in Targets(t) PROVE OpOK(t, q)'
  <2>1. q \in Path /\ OpOK(t, q) BY <1>1, <1>6 DEF TxOK, Targets, Working
  <2>2. CASE q # p BY <1>2, <1>3, <2>1, <2>2, OpStays
  <2>3. CASE q = p
    <3>1. Torn(t)' = Torn(t) BY DEF Torn
    <3>2. before'[t][p] = before[t][p] OBVIOUS
    <3>3. p \notin applied'[t] \ Torn(t)' BY <3>1
    <3> QED BY <1>3, <2>1, <2>3, <3>2, <3>3 DEF OpOK, InPlace
  <2> QED BY <2>2, <2>3
<1>7. InstallOK(t)' BY DEF InstallOK
<1>8. applied'[t] \subseteq Targets(t) BY <1>1 DEF TxOK, AppliedOK
<1>9. TxOK(t)' BY <1>1, <1>6, <1>7, <1>8, WorksOn DEF ManifestAt, Working
<1> QED BY <1>4, <1>5, <1>9, WorkKeeps

LEMMA UndoKeeps ==
    ASSUME AllOK, TypeOK', LockInv', NEW t \in Tx, NEW p \in Path, Undo(t, p)
    PROVE  AllOK'
<1>1. /\ pc[t] = "rolling" /\ p \in Targets(t) /\ op[t][p] # "undoing"
      /\ UNCHANGED <<target, backup, applied, pc, manifest, recorded, torn, decided, log, before, rpc, spent>>
  BY BystandersAre DEF Undo, UndoNext, Last, Pending, InState, disk
<1>2. TxOK(t) /\ OpOK(t, p) BY <1>1 DEF AllOK, TxOK, Working
<1>3. CASE op[t][p] # "installed"
  <2>1. SetOp(t, p, "undone") BY <1>3 DEF Undo
  <2>2. p \notin applied'[t] \ Torn(t) BY <1>1, <1>2, <1>3 DEF OpOK, InPlace
  <2> QED BY <1>1, <1>3, <2>1, <2>2, LeavingKeeps
<1>4. CASE op[t][p] = "installed"
  <2>1. target[p] = After(t, p) /\ SetOp(t, p, "undoing") BY <1>4 DEF Undo
  <2>2. op'[t][p] = "undoing" /\ \A q \in Path : q # p => op'[t][q] = op[t][q]
    BY <2>1, SetOpIs DEF AllOK
  <2>3. Works(t)
    <3>1. \E q \in Path : \E x : SetOp(t, q, x) BY <2>1
    <3> QED BY <1>1, <3>1, Alone DEF Working
  <2>4. FreshInv' BY <1>1, WorkFresh
  <2>5. ASSUME NEW q \in Targets(t) PROVE OpOK(t, q)'
    <3>1. q \in Path /\ OpOK(t, q) BY <1>1, <1>2, <2>5 DEF TxOK, Targets, Working
    <3>2. CASE q # p BY <1>1, <2>2, <3>1, <3>2, OpStays
    <3>3. CASE q = p BY <1>1, <1>4, <2>1, <2>2, <3>1, <3>3 DEF OpOK, InPlace, After
    <3> QED BY <3>2, <3>3
  <2>6. InstallOK(t)' BY <1>1 DEF InstallOK
  <2>7. TxOK(t)' BY <1>1, <1>2, <2>5, <2>6, WorksOn DEF TxOK, AppliedOK, ManifestAt, Working
  <2> QED BY <2>3, <2>4, <2>7, WorkKeeps
<1> QED BY <1>3, <1>4

LEMMA UndoFileKeeps ==
    ASSUME AllOK, TypeOK', LockInv', NEW t \in Tx, NEW p \in Path, UndoFile(t, p)
    PROVE  AllOK'
<1>1. /\ pc[t] = "rolling" /\ p \in Targets(t) /\ SetOp(t, p, "undone")
      /\ UNCHANGED <<pc, manifest, recorded, torn, decided, log, before, rpc, spent>>
      /\ target' = [target EXCEPT ![p] = IF Kind[t][p] = "create" THEN Absent ELSE backup[t][p]]
      /\ UNCHANGED backup \/ SetBackup(t, p, Absent)
      /\ applied' = [applied EXCEPT ![t] = @ \ {p}]
  BY BystandersAre DEF UndoFile, UndoNext, Last, Pending, InState
<1>2. target'[p] \in {backup[t][p], Absent} /\ \A q \in Path : q # p => target'[q] = target[q]
  BY <1>1 DEF AllOK, TypeOK, DiskTypeOK
<1>3. applied'[t] = applied[t] \ {p} /\ \A u \in Tx : u # t => applied'[u] = applied[u]
  BY <1>1 DEF AllOK, TypeOK, HistoryTypeOK
<1> QED BY <1>1, <1>2, <1>3, LeavingKeeps

LEMMA FinalizeUndoneKeeps ==
    ASSUME AllOK, TypeOK', LockInv', NEW t \in Tx, NEW p \in Path, FinalizeUndone(t, p)
    PROVE  AllOK'
<1>1. /\ pc[t] = "rolling" /\ p \in Targets(t) /\ SetOp(t, p, "finalized") /\ op[t][p] = "undone"
      /\ UNCHANGED <<pc, manifest, recorded, torn, decided, log, before, rpc, spent>>
      /\ UNCHANGED <<target, applied>> /\ SetBackup(t, p, Absent)
  BY BystandersAre DEF FinalizeUndone, InState
<1>2. OpOK(t, p) BY <1>1 DEF AllOK, TxOK, Working
<1>3. p \notin applied'[t] \ Torn(t) BY <1>1, <1>2 DEF OpOK, InPlace
<1> QED BY <1>1, <1>3, LeavingKeeps

LEMMA FinishRollbackKeeps ==
    ASSUME AllOK, TypeOK', LockInv', NEW t \in Tx, FinishRollback(t)
    PROVE  AllOK'
<1>1. /\ pc[t] = "rolling" /\ Prepared(t) = InState(t, {"finalized"})
      /\ Transition(t, "rolled_back") /\ Become(t, "aborted")
      /\ UNCHANGED <<target, backup, op, recorded, applied, torn, decided>>
      /\ UNCHANGED <<log, before, rpc, spent>>
  BY DEF FinishRollback, AllUndone, recovery, history
<1>2. TxOK(t) /\ manifest[t] = "rolling_back" BY <1>1 DEF AllOK, TxOK, ManifestAt
<1>3. Works(t) BY <1>1, <1>2, Alone DEF Working, ManifestState
<1>4. manifest'[t] = "rolled_back" /\ pc'[t] = "aborted" BY <1>1, BecomeIs, TransitionIs DEF AllOK
<1>5. applied'[t] \subseteq Torn(t)'
  <2> SUFFICES ASSUME NEW p \in applied[t], p \notin Torn(t) PROVE FALSE
    BY <1>1 DEF Torn
  <2>1. p \in Targets(t) BY <1>2 DEF TxOK, AppliedOK
  <2>2. op[t][p] \in InPlace BY <1>1, <1>2, <2>1 DEF TxOK, OpOK, Working
  <2>3. p \in Prepared(t) BY <2>1, <2>2 DEF Prepared, InState, OpState, InPlace
  <2> QED BY <1>1, <2>2, <2>3 DEF InState, InPlace
<1>6. TxOK(t)'
  <2>1. InstallOK(t)' BY <1>4 DEF InstallOK
  <2>2. TornOK(t)' BY <1>4 DEF TornOK
  <2>3. AppliedOK(t)' BY <1>1, <1>2, <1>4 DEF TxOK, AppliedOK
  <2>4. EvidenceOK(t)' BY <1>4 DEF EvidenceOK, Undecided
  <2>5. WholeOK(t)' BY <1>4, <1>5 DEF WholeOK
  <2>6. manifest'[t] \in ManifestAt(pc'[t]) BY <1>4 DEF ManifestAt, ManifestState
  <2> QED BY <1>4, <2>1, <2>2, <2>3, <2>4, <2>5, <2>6 DEF TxOK, Working
<1>7. FreshInv' BY <1>1, WorkFresh
<1> QED BY <1>3, <1>6, <1>7, WorkKeeps

----------------------------------------------------------------------------
(* Requests that do not hold the lock.                                     *)

\* A run past its scan works on a transaction of the log, alone.
LEMMA RunWorksOn ==
    ASSUME AllOK, rpc \notin {"idle", "scan"}
    PROVE  /\ current \in Tx /\ rpos \in 1..Len(log)
           /\ manifest[current] \in RunAt(rpc) /\ manifest[current] # "none"
           /\ TxOK(current)
           /\ pc[current] \in {"done", "aborted", "dead"}
           /\ \A u \in Tx : pc[u] \notin Working
<1>1. current \in Tx BY CurrentType DEF AllOK
<1>2. rpos \in 1..Len(log) BY DEF AllOK, TypeOK, RecoveryTypeOK
<1>3. manifest[current] \in RunAt(rpc) BY DEF AllOK, RunInv
<1>4. manifest[current] # "none" BY <1>2 DEF AllOK, LogOK, current
<1>5. \A u \in Tx : pc[u] \notin Working BY DEF AllOK, LockInv
<1>6. TxOK(current) BY <1>1 DEF AllOK
<1>7. pc[current] \in Phase BY <1>1 DEF AllOK, TypeOK, MemoryTypeOK
<1>8. manifest[current] \in ManifestAt(pc[current]) BY <1>6 DEF TxOK
<1>9. pc[current] \notin {"idle", "waiting", "ready", "inspected", "refused"}
  BY <1>4, <1>8 DEF ManifestAt
<1> QED BY <1>1, <1>2, <1>3, <1>4, <1>5, <1>6, <1>7, <1>9 DEF Phase, Terminal, Working

\* A request without a manifest changes nothing a run or another one relies on.
LEMMA QuietKeeps ==
    ASSUME AllOK, TypeOK', LockInv', NEW t \in Tx, manifest[t] = "none",
           \A u \in Tx : u # t => Same(u),
           UNCHANGED <<target, log, manifest, spent, applied, torn>>,
           UNCHANGED recovery \/ rpc' = "idle" \/ (rpc' = "scan" /\ rpos' = 1),
           TxOK(t)', FreshInv'
    PROVE  AllOK'
<1>1. \A u \in Tx : TxOK(u)' BY Others DEF AllOK
<1>2. LogOK' BY DEF LogOK, AllOK
<1>3. RunInv'
  <2>1. CASE rpc' = "idle" BY <2>1 DEF RunInv
  <2>2. CASE rpc' = "scan" /\ rpos' = 1
    <3>1. Len(log) \in Nat BY DEF AllOK, TypeOK, JournalTypeOK
    <3> QED BY <2>2, <3>1 DEF RunInv
  <2>3. CASE UNCHANGED recovery
    <3>1. UNCHANGED <<rpc, rpos, rfrom, rseen, todo, current>> BY <2>3 DEF recovery, current
    <3>2. rpc \notin {"idle", "scan"} => /\ pc'[current] = pc[current]
                                        /\ backup'[current] = backup[current]
                                        /\ before'[current] = before[current]
      BY RunWorksOn DEF Same
    <3>3. rpc \notin {"idle", "scan"} => Torn(current)' = Torn(current) BY <3>1 DEF Torn
    <3>4. UNCHANGED <<manifest, log, applied>> OBVIOUS
    <3>5. RunInv BY DEF AllOK
    <3> QED BY <3>1, <3>2, <3>3, <3>4, <3>5 DEF RunInv, RestoringOK
  <2> QED BY <2>1, <2>2, <2>3
<1> QED BY <1>1, <1>2, <1>3 DEF AllOK

\* A request that waits, is let through or is refused has done nothing.
LEMMA QuietTx ==
    ASSUME NEW t \in Tx, TxOK(t), manifest[t] = "none", pc[t] \in {"idle", "waiting", "ready", "inspected"},
           UNCHANGED <<manifest, op, applied, torn>>,
           pc'[t] \in {"waiting", "ready", "inspected", "refused"},
           pc'[t] = "inspected" => \A p \in Targets(t) : Kind[t][p] # "create" => before'[t][p] # Absent
    PROVE  TxOK(t)'
<1>1. Torn(t)' = {} /\ Torn(t) = {} BY DEF TxOK, AppliedOK, Torn
<1>2. AppliedOK(t) BY DEF TxOK
<1>3. AppliedOK(t)'
  <2>1. applied'[t] \subseteq Targets(t) BY <1>2 DEF AppliedOK
  <2>2. applied'[t] = {} /\ \A p \in Path : op'[t][p] = "planned" BY <1>2 DEF AppliedOK
  <2> QED BY <1>1, <2>1, <2>2 DEF AppliedOK
<1>4. InstallOK(t)' BY DEF InstallOK
<1>5. TornOK(t)' BY <1>1 DEF TornOK
<1>6. EvidenceOK(t)' BY DEF EvidenceOK, Undecided
<1>7. WholeOK(t)' BY DEF WholeOK
<1>8. manifest'[t] \in ManifestAt(pc'[t]) BY DEF ManifestAt
<1> QED BY <1>3, <1>4, <1>5, <1>6, <1>7, <1>8 DEF TxOK, Working

LEMMA EnsureReadyKeeps ==
    ASSUME AllOK, TypeOK', LockInv', NEW t \in Tx, EnsureReady(t)
    PROVE  AllOK'
<1>1. pc[t] = "idle" /\ UNCHANGED <<target, backup, before, recorded, log, manifest, spent, applied, torn, decided, op>>
      /\ UNCHANGED <<rfrom, rseen, todo>>
  BY DEF EnsureReady, disk, journal, history
<1>2. TxOK(t) /\ manifest[t] = "none" BY <1>1 DEF AllOK, TxOK, ManifestAt
<1>3. /\ \E s \in {"waiting", "ready", "refused"} : Become(t, s)
      /\ UNCHANGED <<rpc, rby, rpos>> \/ (rpc' = "scan" /\ rpos' = 1)
  <2>1. CASE Home[t] \in frozen BY <2>1 DEF EnsureReady
  <2>2. CASE Home[t] \notin frozen /\ rpc # "idle"
    <3>1. Become(t, IF rby = Home[t] THEN "waiting" ELSE "ready") /\ UNCHANGED <<rpc, rby, rpos>>
      BY <2>2 DEF EnsureReady
    <3>2. CASE rby = Home[t] BY <3>1, <3>2
    <3>3. CASE rby # Home[t] BY <3>1, <3>3
    <3> QED BY <3>2, <3>3
  <2>3. CASE Home[t] \notin frozen /\ rpc = "idle" /\ holder # {} BY <2>3 DEF EnsureReady
  <2>4. CASE Home[t] \notin frozen /\ rpc = "idle" /\ holder = {} BY <2>4 DEF EnsureReady, Step
  <2> QED BY <2>1, <2>2, <2>3, <2>4
<1>4. PICK s \in {"waiting", "ready", "refused"} : Become(t, s) BY <1>3
<1>5. pc'[t] = s /\ \A u \in Tx : u # t => pc'[u] = pc[u] BY <1>4, BecomeIs DEF AllOK
<1>6. TxOK(t)' BY <1>1, <1>2, <1>5, QuietTx
<1>7. \A u \in Tx : u # t => Same(u) BY <1>1, <1>5 DEF Same
<1>8. FreshInv' BY <1>1 DEF AllOK, FreshInv
<1>9. UNCHANGED recovery \/ (rpc' = "scan" /\ rpos' = 1) BY <1>1, <1>3 DEF recovery
<1> QED BY <1>1, <1>2, <1>6, <1>7, <1>8, <1>9, QuietKeeps

LEMMA InspectKeeps ==
    ASSUME AllOK, TypeOK', LockInv', NEW t \in Tx, Inspect(t)
    PROVE  AllOK'
<1>1. /\ pc[t] = "ready"
      /\ UNCHANGED <<target, backup, recorded, log, manifest, spent, applied, torn, decided, op>>
      /\ UNCHANGED recovery
  BY DEF Inspect, disk, history
<1>2. TxOK(t) /\ manifest[t] = "none" BY <1>1 DEF AllOK, TxOK, ManifestAt
<1>3. CASE \A p \in Targets(t) : Inspectable(t, p)
  <2>1. /\ before' = [before EXCEPT ![t] = [p \in Path |-> IF p \in Targets(t) THEN target[p] ELSE Absent]]
        /\ Become(t, "inspected")
    BY <1>3 DEF Inspect
  <2>2. pc'[t] = "inspected" /\ \A u \in Tx : u # t => pc'[u] = pc[u] BY <2>1, BecomeIs DEF AllOK
  <2>3. /\ \A u \in Tx : u # t => before'[u] = before[u]
        /\ \A p \in Path : before'[t][p] = IF p \in Targets(t) THEN target[p] ELSE Absent
    BY <2>1 DEF AllOK, TypeOK, JournalTypeOK
  <2>4. \A p \in Targets(t) : Kind[t][p] # "create" => before'[t][p] # Absent
    BY <1>3, <2>3 DEF Inspectable, Targets
  <2>5. TxOK(t)' BY <1>1, <1>2, <2>2, <2>4, QuietTx
  <2>6. \A u \in Tx : u # t => Same(u) BY <1>1, <2>2, <2>3 DEF Same
  <2>7. FreshInv'
    <3>1. ASSUME NEW u \in Tx, NEW p \in Path
          PROVE  /\ before'[u][p] \in {before[u][p], target[p], Absent}
                 /\ Kind[u][p] = "create" => before'[u][p] = Absent
      <4>1. CASE u # t BY <2>3, <4>1 DEF AllOK, FreshInv
      <4>2. CASE u = t
        <5>1. p \in Targets(t) /\ Kind[t][p] = "create" => target[p] = Absent BY <1>3 DEF Inspectable
        <5> QED BY <2>3, <4>2, <5>1
      <4> QED BY <4>1, <4>2
    <3> QED BY <1>1, <3>1, FreshKept DEF AllOK
  <2> QED BY <1>1, <1>2, <2>5, <2>6, <2>7, QuietKeeps
<1>4. CASE ~\A p \in Targets(t) : Inspectable(t, p)
  <2>1. Become(t, "refused") /\ UNCHANGED before BY <1>4 DEF Inspect
  <2>2. pc'[t] = "refused" /\ \A u \in Tx : u # t => pc'[u] = pc[u] BY <2>1, BecomeIs DEF AllOK
  <2>3. TxOK(t)' BY <1>1, <1>2, <2>2, QuietTx
  <2>4. \A u \in Tx : u # t => Same(u) BY <1>1, <2>1, <2>2 DEF Same
  <2>5. FreshInv' BY <1>1, <2>1 DEF AllOK, FreshInv
  <2> QED BY <1>1, <1>2, <2>3, <2>4, <2>5, QuietKeeps
<1> QED BY <1>3, <1>4

LEMMA UseWorkspaceKeeps ==
    ASSUME AllOK, TypeOK', LockInv', NEW s \in Server, UseWorkspace(s)
    PROVE  AllOK'
<1>1. /\ rpc' = "scan" /\ rpos' = 1
      /\ UNCHANGED <<target, backup, before, recorded, log, manifest, spent, applied, torn, decided, op, pc>>
  BY DEF UseWorkspace, disk, journal, memory, history, Step
<1>2. \A u \in Tx : Same(u) BY <1>1 DEF Same
<1>3. \A u \in Tx : TxOK(u)' BY <1>1, <1>2, Others DEF AllOK
<1>4. LogOK' BY <1>1 DEF LogOK, AllOK
<1>5. FreshInv' BY <1>1 DEF AllOK, FreshInv
<1>6. Len(log) \in Nat BY DEF AllOK, TypeOK, JournalTypeOK
<1>7. RunInv' BY <1>1, <1>6 DEF RunInv
<1> QED BY <1>3, <1>4, <1>5, <1>7 DEF AllOK

LEMMA AcquireKeeps ==
    ASSUME AllOK, TypeOK', LockInv', NEW t \in Tx, Acquire(t)
    PROVE  AllOK'
<1>1. /\ pc[t] = "inspected"
      /\ UNCHANGED <<target, backup, before, recorded, spent, applied, torn, decided, op>>
      /\ UNCHANGED recovery
  BY DEF Acquire, disk
<1>2. TxOK(t) /\ AppliedOK(t) /\ manifest[t] = "none" BY <1>1 DEF AllOK, TxOK, ManifestAt
<1>3. FreshInv' BY <1>1 DEF AllOK, FreshInv
<1>4. CASE ~LockFree
  <2>1. Become(t, "refused") /\ UNCHANGED <<manifest, log>> BY <1>4 DEF Acquire
  <2>2. pc'[t] = "refused" /\ \A u \in Tx : u # t => pc'[u] = pc[u] BY <2>1, BecomeIs DEF AllOK
  <2>3. TxOK(t)' BY <1>1, <1>2, <2>1, <2>2, QuietTx
  <2>4. \A u \in Tx : u # t => Same(u) BY <1>1, <2>1, <2>2 DEF Same
  <2> QED BY <1>1, <1>2, <1>3, <2>1, <2>3, <2>4, QuietKeeps
<1>5. CASE LockFree
  <2>1. \/ Transition(t, "preparing") /\ log' = Append(log, t) /\ Become(t, "staging")
        \/ Become(t, "abandoned") /\ UNCHANGED <<manifest, log>>
    BY <1>5 DEF Acquire
  <2>2. /\ pc'[t] \in {"staging", "abandoned"} /\ \A u \in Tx : u # t => pc'[u] = pc[u]
        /\ \A u \in Tx : u # t => manifest'[u] = manifest[u]
        /\ manifest'[t] = IF pc'[t] = "staging" THEN "preparing" ELSE "none"
    BY <1>2, <2>1, BecomeIs, TransitionIs DEF AllOK
  <2>3. Torn(t) = {} /\ Torn(t)' = {} BY <1>1, <1>2 DEF AppliedOK, Torn
  <2>4. applied[t] = {} /\ \A p \in Path : op[t][p] = "planned" BY <1>1, <1>2 DEF AppliedOK
  <2>5. ASSUME NEW p \in Targets(t) PROVE OpOK(t, p)'
    <3>1. p \in Path /\ (Kind[t][p] # "create" => before[t][p] # Absent)
      BY <1>1, <1>2, <2>5 DEF AppliedOK, Targets
    <3> QED BY <1>1, <2>4, <3>1 DEF OpOK, InPlace
  <2>6. TxOK(t)'
    <3>1. InstallOK(t)' BY <2>2 DEF InstallOK
    <3>2. TornOK(t)' BY <2>3 DEF TornOK
    <3>3. manifest'[t] \in ManifestAt(pc'[t]) BY <2>2 DEF ManifestAt
    <3>4. applied'[t] \subseteq Targets(t) BY <1>1, <2>4
    <3> QED BY <1>2, <2>2, <2>5, <3>1, <3>2, <3>3, <3>4, WorkTx DEF Working
  <2>7. ASSUME NEW u \in Tx, u # t PROVE TxOK(u)'
    <3>1. Same(u) BY <1>1, <2>2, <2>7 DEF Same
    <3> QED BY <1>1, <2>7, <3>1, Others DEF AllOK
  <2>8. rpc' = "idle" BY <1>1, <1>5 DEF LockFree, recovery
  <2>9. RunInv' BY <2>8 DEF RunInv
  <2>10. LogOK'
    <3>0. log \in Seq(Tx) /\ LogOK BY DEF AllOK, TypeOK, JournalTypeOK
    <3>1. CASE UNCHANGED <<manifest, log>> BY <3>0, <3>1 DEF LogOK
    <3>2. CASE Transition(t, "preparing") /\ log' = Append(log, t)
      <4>1. manifest'[t] = "preparing" /\ \A u \in Tx : u # t => manifest'[u] = manifest[u]
        BY <3>2, TransitionIs DEF AllOK
      <4>2. Len(log') = Len(log) + 1 /\ log'[Len(log) + 1] = t /\ Len(log) \in Nat
            /\ \A i \in 1..Len(log) : log'[i] = log[i] /\ log[i] \in Tx
        BY <3>0, <3>2
      <4>3. \A i \in 1..Len(log) : log[i] # t BY <1>2, <3>0 DEF LogOK
      <4>4. \A i \in 1..Len(log') : i \in 1..Len(log) \/ i = Len(log) + 1 BY <4>2
      <4>5. \A i \in 1..Len(log') : manifest'[log'[i]] # "none"
        BY <3>0, <4>1, <4>2, <4>3, <4>4 DEF LogOK
      <4>6. \A i, j \in 1..Len(log') : log'[i] = log'[j] => i = j
        BY <3>0, <4>2, <4>3, <4>4 DEF LogOK
      <4>7. ASSUME NEW u \in Tx, manifest'[u] # "none" PROVE \E i \in 1..Len(log') : log'[i] = u
        <5>1. CASE u = t
          <6>1. Len(log) + 1 \in 1..Len(log') BY <4>2
          <6> QED BY <4>2, <5>1, <6>1
        <5>2. CASE u # t
          <6>1. PICK i \in 1..Len(log) : log[i] = u BY <3>0, <4>1, <4>7, <5>2 DEF LogOK
          <6>2. i \in 1..Len(log') BY <4>2
          <6> QED BY <4>2, <6>1, <6>2
        <5> QED BY <5>1, <5>2
      <4> QED BY <4>5, <4>6, <4>7 DEF LogOK
    <3> QED BY <2>1, <3>1, <3>2
  <2> QED BY <1>3, <2>6, <2>7, <2>9, <2>10 DEF AllOK
<1> QED BY <1>4, <1>5

----------------------------------------------------------------------------
(* The recovery run.                                                       *)

\* What RunInv says of the transaction a run works on.
RunOK ==
    /\ manifest[current] \in RunAt(rpc)
    /\ rpc \in {"restore", "restoring"} => applied[current] \subseteq todo
    /\ rpc = "restoring" => \A p \in todo : Last(todo, p) => RestoringOK(p)
    /\ rpc \in {"dropStage", "dropBackup"} =>
          /\ applied[current] \subseteq todo
          /\ \A p \in todo : Last(todo, p) => p \notin applied[current]
    /\ rpc \in {"remove", "persist"} => applied[current] \subseteq Torn(current)
    /\ pc[current] = "done" => rfrom = "committed"

\* A step of a run touches the transaction it works on and no other.
LEMMA RunKeeps ==
    ASSUME AllOK, TypeOK', LockInv', rpc # "idle", rpos <= Len(log),
           \A u \in Tx : u # current => Same(u),
           UNCHANGED <<log, rpos, spent>>,
           manifest'[current] # "none", TxOK(current)', FreshInv',
           rpc' \notin {"idle", "scan"}, RunOK'
    PROVE  AllOK'
<1>0. /\ log \in Seq(Tx) /\ LogOK /\ rpos \in 1..Len(log) /\ current \in Tx /\ current' = current
      /\ \A u \in Tx : pc[u] \notin Working
  BY DEF AllOK, TypeOK, JournalTypeOK, RecoveryTypeOK, LockInv, current
<1>1. \A u \in Tx : TxOK(u)' BY <1>0, Others DEF AllOK
<1>2. \A i \in 1..Len(log) : i # rpos => log[i] # current BY <1>0 DEF LogOK, current
<1>3. \A i \in 1..Len(log) : log[i] \in Tx BY <1>0
<1>4. \A u \in Tx : u # current => manifest'[u] = manifest[u] BY DEF Same
<1>5. LogOK'
  <2>1. \A u \in Tx : manifest'[u] # "none" => manifest[u] # "none"
    BY <1>0, <1>4 DEF LogOK, current
  <2>2. \A i \in 1..Len(log) : manifest'[log[i]] # "none" BY <1>0, <1>3, <1>4 DEF LogOK
  <2> QED BY <1>0, <2>1, <2>2 DEF LogOK
<1>6. \A i \in 1..Len(log) : i < rpos => manifest'[log[i]] \in {"committed", "rolled_back"}
  BY <1>0, <1>2, <1>3, <1>4 DEF AllOK, RunInv
<1>7. RunInv' BY <1>0, <1>6 DEF RunInv, RunOK
<1> QED BY <1>1, <1>5, <1>7 DEF AllOK

\* What a run that has chosen its manifest knows of it.
LEMMA RunFacts ==
    ASSUME AllOK, rpc \notin {"idle", "scan"}
    PROVE  /\ RunOK
           /\ rpos <= Len(log) /\ current \in Tx /\ manifest[current] # "none"
           /\ applied[current] \subseteq Targets(current)
           /\ manifest[current] \in {"committed_pending_participants", "committed"} =>
                 applied[current] = Targets(current) /\ Torn(current) = {}
           /\ pc[current] \in {"done", "aborted", "dead"}
           /\ pc[current] = "done" => manifest[current] = "committed"
<1>1. TxOK(current) /\ current \in Tx /\ rpos \in 1..Len(log) /\ manifest[current] # "none"
      /\ pc[current] \in {"done", "aborted", "dead"}
  BY RunWorksOn
<1>2. RunOK BY DEF AllOK, RunInv, RunOK
<1>3. Len(log) \in Nat BY DEF AllOK, TypeOK, JournalTypeOK
<1> QED BY <1>1, <1>2, <1>3 DEF TxOK, AppliedOK, WholeOK, TornOK

\* The transaction a run works on, from what changes of it.
LEMMA RunTx ==
    ASSUME AllOK, rpc # "idle", NEW c \in Tx, TxOK(c), pc[c] \in {"done", "aborted", "dead"},
           pc'[c] = pc[c], recorded'[c] = recorded[c], before'[c] = before[c],
           \A p \in Path : <<c, p>> \in torn' <=> <<c, p>> \in torn,
           c \in decided => c \in decided',
           manifest'[c] \in ManifestState \ {"none"},
           pc[c] = "done" => manifest'[c] = "committed",
           manifest'[c] = "committed" => c \in decided' /\ applied'[c] = Targets(c),
           manifest'[c] = "committed_pending_participants" => manifest[c] = "committed_pending_participants",
           manifest'[c] \in {"committed_pending_participants", "committed"} =>
              Torn(c) = {} /\ applied'[c] = applied[c],
           manifest'[c] = "rolled_back" => applied'[c] \subseteq Torn(c),
           applied'[c] \subseteq applied[c],
           Torn(c) # {} => manifest'[c] \in {"committing", "rolling_back", "rolled_back", "recovery_required"},
           manifest'[c] \in Undecided => manifest[c] \in Undecided \union {"committed", "rolled_back"},
           \A p \in Path : p \in applied'[c] => backup'[c][p] = backup[c][p] \/ manifest'[c] \notin Undecided
    PROVE  TxOK(c)'
<1>1. Torn(c)' = Torn(c) BY DEF Torn
<1>2. InstallOK(c)' BY DEF InstallOK
<1>3. TornOK(c)' BY <1>1 DEF TornOK, TxOK
<1>4. applied[c] \subseteq Targets(c) BY DEF TxOK, AppliedOK
<1>5. AppliedOK(c)' BY <1>4 DEF AppliedOK
<1>6. EvidenceOK(c)'
  <2> SUFFICES ASSUME manifest'[c] \in Undecided, c \notin decided', NEW p \in applied'[c], p \notin Torn(c)
               PROVE  p \in recorded'[c] /\ (Kind[c][p] # "create" => backup'[c][p] \in {before'[c][p]} \union Ext)
    BY <1>1 DEF EvidenceOK
  <2>1. c \notin decided /\ p \in applied[c] /\ p \in Path BY <1>4 DEF Targets
  <2>2. manifest[c] # "committed" BY <2>1 DEF TxOK
  <2>3. manifest[c] # "rolled_back" BY <2>1 DEF TxOK, WholeOK
  <2>4. manifest[c] \in Undecided BY <2>2, <2>3
  <2>5. EvidenceOK(c) BY DEF TxOK
  <2> QED BY <2>1, <2>4, <2>5 DEF EvidenceOK
<1>7. WholeOK(c)' BY <1>1 DEF WholeOK, TxOK
<1>8. manifest'[c] \in ManifestAt(pc'[c]) BY DEF ManifestAt
<1> QED BY <1>2, <1>3, <1>5, <1>6, <1>7, <1>8 DEF TxOK, Working

\* What the steps of a run leave alone in the other transactions.
LEMMA ElsewhereIs ==
    ASSUME Elsewhere
    PROVE  UNCHANGED <<before, recorded, log, pc, op, holder, rpos, spent, torn>> /\ current' = current
BY DEF Elsewhere, memory, current

\* The other transactions, when a run moves its own.
LEMMA RunOthers ==
    ASSUME AllOK, Elsewhere, current \in Tx,
           UNCHANGED manifest \/ \E s : Transition(current, s),
           UNCHANGED backup \/ \E p \in Path : \E v : SetBackup(current, p, v),
           UNCHANGED applied \/ \E p \in Path : applied' = [applied EXCEPT ![current] = @ \ {p}],
           UNCHANGED decided \/ decided' = decided \union {current}
    PROVE  \A u \in Tx : u # current => Same(u)
<1> DEFINE c == current
<1>1. c \in Tx /\ applied \in [Tx -> SUBSET Path] BY DEF AllOK, TypeOK, HistoryTypeOK
<1> SUFFICES ASSUME NEW u \in Tx, u # c PROVE Same(u) OBVIOUS
<1>2. manifest'[u] = manifest[u]
  <2>1. manifest \in [Tx -> ManifestState] BY DEF AllOK, TypeOK, JournalTypeOK
  <2> QED BY <2>1 DEF Transition
<1>3. backup'[u] = backup[u]
  <2>1. backup \in [Tx -> [Path -> Version]] BY DEF AllOK, TypeOK, DiskTypeOK
  <2> QED BY <2>1 DEF SetBackup
<1>4. applied'[u] = applied[u] BY <1>1
<1> QED BY <1>2, <1>3, <1>4, ElsewhereIs DEF Same

\* A step of a run, from what it changes of its transaction.
LEMMA RunStep ==
    ASSUME AllOK, TypeOK', LockInv', Elsewhere, rpc \notin {"idle", "scan"}, rpc' \notin {"idle", "scan"},
           NEW c \in Tx, c = current,
           UNCHANGED manifest \/ \E s : Transition(c, s),
           UNCHANGED backup \/ (\E p \in Path : /\ SetBackup(c, p, Absent)
                                                /\ p \notin applied'[c] \/ manifest'[c] \notin Undecided),
           UNCHANGED applied \/ \E p \in Path : applied' = [applied EXCEPT ![c] = @ \ {p}],
           UNCHANGED decided \/ decided' = decided \union {c},
           \A p \in Path : target'[p] \in {target[p], backup[c][p], Absent},
           pc[c] = "done" => manifest'[c] = "committed",
           manifest'[c] \in ManifestState \ {"none"},
           manifest'[c] \in Undecided => manifest[c] \in Undecided,
           manifest'[c] = "committed_pending_participants" => manifest[c] = "committed_pending_participants",
           manifest'[c] = "committed" =>
              /\ c \in decided' /\ applied' = applied
              /\ manifest[c] \in {"committed_pending_participants", "committed"},
           manifest'[c] = "committed_pending_participants" => applied' = applied,
           manifest'[c] = "rolled_back" => applied'[c] \subseteq Torn(c),
           manifest'[c] = manifest[c] \/ manifest'[c] \in {"rolling_back", "rolled_back", "recovery_required", "committed"},
           RunOK'
    PROVE  AllOK'
<1>1. /\ rpos <= Len(log) /\ manifest[c] # "none" /\ applied[c] \subseteq Targets(c)
      /\ manifest[c] \in {"committed_pending_participants", "committed"} => applied[c] = Targets(c) /\ Torn(c) = {}
      /\ pc[c] \in {"done", "aborted", "dead"}
      /\ pc[c] = "done" => manifest[c] = "committed"
  BY RunFacts
<1>2. TxOK(c) BY DEF AllOK
<1>3. \A u \in Tx : u # c => Same(u)
  <2>1. UNCHANGED backup \/ \E p \in Path : \E v : SetBackup(current, p, v) OBVIOUS
  <2> QED BY <2>1, RunOthers
<1>4. UNCHANGED <<before, recorded, log, pc, op, rpos, spent, torn>> /\ current' = current BY ElsewhereIs
<1>5. applied'[c] \subseteq applied[c]
  <2>1. applied \in [Tx -> SUBSET Path] BY DEF AllOK, TypeOK, HistoryTypeOK
  <2> QED BY <2>1
<1>6. \A u \in Tx, p \in Path : /\ backup'[u][p] \in {backup[u][p], Absent}
                                /\ p \in applied'[c] => backup'[c][p] = backup[c][p] \/ manifest'[c] \notin Undecided
  <2> SUFFICES ASSUME NEW u \in Tx, NEW p \in Path
               PROVE  /\ backup'[u][p] \in {backup[u][p], Absent}
                      /\ p \in applied'[c] => backup'[c][p] = backup[c][p] \/ manifest'[c] \notin Undecided
    OBVIOUS
  <2>1. CASE UNCHANGED backup BY <2>1
  <2>2. ASSUME NEW q \in Path, SetBackup(c, q, Absent), q \notin applied'[c] \/ manifest'[c] \notin Undecided
        PROVE  /\ backup'[u][p] \in {backup[u][p], Absent}
               /\ p \in applied'[c] => backup'[c][p] = backup[c][p] \/ manifest'[c] \notin Undecided
    <3>1. /\ backup'[c][q] = Absent /\ \A r \in Path : r # q => backup'[c][r] = backup[c][r]
          /\ \A x \in Tx : x # c => backup'[x] = backup[x]
      <4>1. TypeOK /\ c \in Tx /\ q \in Path /\ SetBackup(c, q, Absent) BY <2>2 DEF AllOK
      <4> QED BY ONLY <4>1, SetBackupIs
    <3>2. p \in applied'[c] => backup'[c][p] = backup[c][p] \/ manifest'[c] \notin Undecided
      BY <2>2, <3>1
    <3>3. backup'[u][p] \in {backup[u][p], Absent}
      <4>1. CASE u # c BY <3>1, <4>1
      <4>2. CASE u = c BY <3>1, <4>2
      <4> QED BY <4>1, <4>2
    <3> QED BY <3>2, <3>3
  <2> QED BY <2>1, <2>2
<1>7. FreshInv' BY <1>4, <1>6, WorkFresh
<1>8. TxOK(c)'
  <2>1. Torn(c) # {} => manifest[c] \in {"committing", "rolling_back", "rolled_back", "recovery_required"}
    BY <1>2 DEF TxOK, TornOK
  <2>2. Torn(c) # {} => manifest'[c] \in {"committing", "rolling_back", "rolled_back", "recovery_required"}
    <3>1. Torn(c) # {} => manifest'[c] # "committed" BY <1>1
    <3> QED BY <2>1, <3>1
  <2>3. \A p \in Path : <<c, p>> \in torn' <=> <<c, p>> \in torn BY <1>4
  <2>4. manifest'[c] \in {"committed_pending_participants", "committed"} => Torn(c) = {} /\ applied'[c] = applied[c]
    BY <1>1
  <2>5. manifest'[c] = "committed" => c \in decided' /\ applied'[c] = Targets(c) BY <1>1
  <2>6. c \in decided => c \in decided' OBVIOUS
  <2>7. pc'[c] = pc[c] /\ recorded'[c] = recorded[c] /\ before'[c] = before[c] BY <1>4
  <2>8. \A p \in Path : p \in applied'[c] => backup'[c][p] = backup[c][p] \/ manifest'[c] \notin Undecided
    BY <1>6
  <2>9. rpc # "idle" OBVIOUS
  <2>10. manifest'[c] \in Undecided => manifest[c] \in Undecided \union {"committed", "rolled_back"} OBVIOUS
  <2> QED BY <1>1, <1>2, <1>5, <2>2, <2>3, <2>4, <2>5, <2>6, <2>7, <2>8, <2>9, <2>10, RunTx
<1> QED BY <1>1, <1>3, <1>4, <1>7, <1>8, RunKeeps

\* A step that removes artifacts or only moves the run on.
LEMMA RunStill ==
    ASSUME AllOK, TypeOK', LockInv', Elsewhere, rpc \notin {"idle", "scan"}, rpc' \notin {"idle", "scan"},
           NEW c \in Tx, c = current,
           UNCHANGED <<target, manifest, applied, decided>>,
           UNCHANGED backup \/ (\E p \in Path : /\ SetBackup(c, p, Absent)
                                                /\ p \notin applied[c] \/ manifest[c] \notin Undecided),
           RunOK'
    PROVE  AllOK'
<1>1. TxOK(c) /\ manifest[c] \in ManifestState BY DEF AllOK, TypeOK, JournalTypeOK
<1>2. manifest[c] # "none" /\ (pc[c] = "done" => manifest[c] = "committed") BY RunFacts
<1>3. manifest[c] = "committed" => c \in decided BY <1>1 DEF TxOK
<1>4. manifest[c] = "rolled_back" => applied[c] \subseteq Torn(c) BY <1>1 DEF TxOK, WholeOK
<1> QED BY <1>1, <1>2, <1>3, <1>4, RunStep

\* The highest operation is one.
LEMMA LastIsOne ==
    ASSUME NEW S \in SUBSET Path, NEW p \in S, NEW q \in S, Last(S, p), Last(S, q)
    PROVE  p = q
<1>1. Path \subseteq Nat BY TransactionAssumption
<1> QED BY <1>1 DEF Last

LEMMA ChooseKeeps ==
    ASSUME AllOK, TypeOK', LockInv', Choose
    PROVE  AllOK'
<1>1. /\ rpc = "scan" /\ rpos <= Len(log) /\ rfrom' = manifest[current]
      /\ Elsewhere /\ UNCHANGED <<target, backup, manifest, applied, decided>>
  BY DEF Choose, disk
<1>2. UNCHANGED <<before, recorded, log, pc, op, rpos, spent, torn>> /\ current' = current
  BY <1>1, ElsewhereIs
<1>3. \A u \in Tx : Same(u) BY <1>1, <1>2 DEF Same
<1>4. current \in Tx BY <1>1, CurrentType DEF AllOK
<1>5. TxOK(current) BY <1>4 DEF AllOK
<1>6. TxOK(current)'
  <2>1. \A u \in Tx : TxOK(u)' BY <1>1, <1>3, Others DEF AllOK
  <2> QED BY <1>2, <1>4, <2>1
<1>7. FreshInv' BY <1>1, <1>2 DEF AllOK, FreshInv
<1>8. manifest[current] # "none"
  <2>1. rpos \in 1..Len(log) BY <1>1 DEF AllOK, TypeOK, JournalTypeOK, RecoveryTypeOK
  <2> QED BY <2>1 DEF AllOK, LogOK, current
<1>9. rpc' = CASE manifest[current] = "committed_pending_participants" -> "reconcile"
               [] manifest[current] = "committed" -> "cleanup"
               [] manifest[current] = "rolled_back" -> "recheck"
               [] OTHER -> "decided"
  <2>1. CASE manifest[current] = "committed_pending_participants" BY <2>1 DEF Choose, Step
  <2>2. CASE manifest[current] = "committed" BY <2>2 DEF Choose, Step
  <2>3. CASE manifest[current] = "rolled_back" BY <2>3 DEF Choose, Step
  <2>4. CASE manifest[current] \notin {"committed_pending_participants", "committed", "rolled_back"}
    BY <2>4 DEF Choose, Step
  <2> QED BY <2>1, <2>2, <2>3, <2>4
<1>10. RunOK'
  <2>1. manifest[current] \in ManifestState BY <1>4 DEF AllOK, TypeOK, JournalTypeOK
  <2>2. manifest[current] \in RunAt(rpc')
    BY <1>8, <1>9, <2>1 DEF RunAt, ManifestState, Undecided
  <2>3. rpc' \notin {"restore", "restoring", "dropStage", "dropBackup", "remove", "persist"} BY <1>9
  <2>4. pc[current] = "done" => rfrom' = "committed" BY <1>1, <1>5 DEF TxOK, WholeOK
  <2> QED BY <1>1, <1>2, <2>2, <2>3, <2>4 DEF RunOK
<1>11. rpc' \notin {"idle", "scan"} BY <1>9
<1> QED BY <1>1, <1>2, <1>3, <1>6, <1>7, <1>8, <1>10, <1>11, RunKeeps

LEMMA ReconcileKeeps ==
    ASSUME AllOK, TypeOK', LockInv', Reconcile
    PROVE  AllOK'
<1>1. /\ rpc = "reconcile" /\ Elsewhere /\ UNCHANGED <<target, backup, rfrom, applied>>
  BY DEF Reconcile, disk
<1>2. PICK c \in Tx : c = current BY <1>1, RunFacts
<1>3. /\ manifest[c] = "committed_pending_participants" /\ pc[c] # "done"
      /\ applied[c] = Targets(c)
  BY <1>1, <1>2, RunFacts DEF RunOK, RunAt
<1>4. current' = c /\ UNCHANGED pc BY <1>1, <1>2, ElsewhereIs
<1>5. CASE Present(current) = Part
  <2>1. Transition(c, "committed") /\ decided' = decided \union {c} /\ rpc' = "cleanup"
    BY <1>2, <1>5 DEF Reconcile, Step
  <2>2. manifest'[c] = "committed" BY <2>1, TransitionIs DEF AllOK
  <2>3. RunOK' BY <1>3, <1>4, <2>1, <2>2 DEF RunOK, RunAt
  <2>4. rpc \notin {"idle", "scan"} /\ rpc' \notin {"idle", "scan"} BY <1>1, <2>1
  <2>5. \E s : Transition(c, s) BY <2>1
  <2>6. manifest'[c] \in ManifestState \ {"none"} /\ manifest'[c] \notin Undecided
    BY <2>2 DEF ManifestState, Undecided
  <2> QED BY <1>1, <1>2, <1>3, <2>1, <2>2, <2>3, <2>4, <2>5, <2>6, RunStep
<1>6. CASE Present(current) # Part
  <2>1. UNCHANGED <<manifest, todo, decided>> /\ rpc' = "decided" BY <1>6 DEF Reconcile, Step
  <2>2. RunOK' BY <1>3, <1>4, <2>1 DEF RunOK, RunAt, Undecided
  <2> QED BY <1>1, <1>2, <2>1, <2>2, RunStill
<1> QED BY <1>5, <1>6

LEMMA BeginRestoreKeeps ==
    ASSUME AllOK, TypeOK', LockInv', BeginRestore
    PROVE  AllOK'
<1>1. /\ rpc = "decided" /\ Elsewhere /\ UNCHANGED <<target, backup, rfrom, applied, decided>>
      /\ Transition(current, "rolling_back") /\ rpc' = "restore" /\ todo' = Targets(current)
  BY DEF BeginRestore, disk, Step
<1>2. PICK c \in Tx : c = current BY <1>1, RunFacts
<1>3. manifest[c] \in Undecided /\ pc[c] # "done" /\ applied[c] \subseteq Targets(c)
  BY <1>1, <1>2, RunFacts DEF RunOK, RunAt, Undecided
<1>4. current' = c /\ UNCHANGED pc BY <1>1, <1>2, ElsewhereIs
<1>5. manifest'[c] = "rolling_back" BY <1>1, <1>2, TransitionIs DEF AllOK
<1>6. RunOK' BY <1>1, <1>2, <1>3, <1>4, <1>5 DEF RunOK, RunAt
<1>7. \E s : Transition(c, s) BY <1>1, <1>2
<1>8. manifest'[c] \in ManifestState \ {"none"} BY <1>5 DEF ManifestState
<1> QED BY <1>1, <1>2, <1>3, <1>5, <1>6, <1>7, <1>8, RunStep

LEMMA RestoreTargetKeeps ==
    ASSUME AllOK, TypeOK', LockInv', NEW p \in Path, RestoreTarget(p)
    PROVE  AllOK'
<1>1. /\ rpc = "restore" /\ Last(todo, p) /\ Restorable(current, p) /\ Elsewhere
      /\ UNCHANGED <<target, backup, manifest, rfrom, todo, decided>>
  BY DEF RestoreTarget, disk
<1>2. PICK c \in Tx : c = current BY <1>1, RunFacts
<1>3. manifest[c] = "rolling_back" /\ pc[c] # "done" /\ applied[c] \subseteq todo
  BY <1>1, <1>2, RunFacts DEF RunOK, RunAt
<1>4. current' = c /\ UNCHANGED <<pc, before>> BY <1>1, <1>2, ElsewhereIs
<1>5. todo \in SUBSET Path BY DEF AllOK, TypeOK, RecoveryTypeOK
<1>6. \A q \in todo : Last(todo, q) => q = p BY <1>1, <1>5, LastIsOne DEF Last
<1>7. CASE Restored(c, p)
  <2>1. applied' = [applied EXCEPT ![c] = @ \ {p}] /\ rpc' = "dropStage"
    BY <1>2, <1>7 DEF RestoreTarget, Step
  <2>2. applied'[c] = applied[c] \ {p} BY <2>1 DEF AllOK, TypeOK, HistoryTypeOK
  <2>3. RunOK'
    <3>1. \A q \in todo' : Last(todo', q) => q \notin applied'[c] BY <1>1, <1>6, <2>2
    <3> QED BY <1>1, <1>3, <1>4, <2>1, <2>2, <3>1 DEF RunOK, RunAt
  <2>4. \E q \in Path : applied' = [applied EXCEPT ![c] = @ \ {q}] BY <2>1
  <2>5. manifest'[c] = "rolling_back" /\ manifest'[c] \in ManifestState \ {"none"}
    BY <1>1, <1>3 DEF ManifestState
  <2> QED BY <1>1, <1>2, <1>3, <2>1, <2>3, <2>4, <2>5, RunStep
<1>8. CASE ~Restored(c, p)
  <2>1. rpc' = "restoring" /\ rseen' = target[p] /\ UNCHANGED applied
    BY <1>2, <1>8 DEF RestoreTarget, Step
  <2>2. RestoringOK(p)'
    <3>1. target[p] \in {c, Absent} BY <1>1, <1>2, <1>8 DEF Restorable, Restored, After
    <3>2. Kind[c][p] # "create" => backup[c][p] = before[c][p]
      BY <1>1, <1>2, <1>8 DEF Restorable, Restored
    <3> QED BY <1>1, <1>2, <1>4, <2>1, <3>1, <3>2 DEF RestoringOK
  <2>3. \A q \in todo' : Last(todo, q)' => RestoringOK(q)' BY <1>1, <1>6, <2>2 DEF Last
  <2>4. RunOK' BY <1>1, <1>3, <1>4, <2>1, <2>3 DEF RunOK, RunAt
  <2> QED BY <1>1, <1>2, <2>1, <2>4, RunStill
<1> QED BY <1>7, <1>8

LEMMA RestoreFileKeeps ==
    ASSUME AllOK, TypeOK', LockInv', NEW p \in Path, RestoreFile(p)
    PROVE  AllOK'
<1>1. /\ rpc = "restoring" /\ Last(todo, p) /\ Elsewhere /\ UNCHANGED <<manifest, rfrom, todo, decided>>
      /\ target' = [target EXCEPT ![p] =
            IF Kind[current][p] = "create" THEN Absent ELSE backup[current][p]]
      /\ applied' = [applied EXCEPT ![current] = @ \ {p}] /\ rpc' = "dropStage"
      /\ SetBackup(current, p, Absent) \/ UNCHANGED backup
  BY DEF RestoreFile, Step
<1>2. PICK c \in Tx : c = current BY <1>1, RunFacts
<1>3. manifest[c] = "rolling_back" /\ pc[c] # "done" /\ applied[c] \subseteq todo
  BY <1>1, <1>2, RunFacts DEF RunOK, RunAt
<1>4. current' = c /\ UNCHANGED pc BY <1>1, <1>2, ElsewhereIs
<1>5. applied'[c] = applied[c] \ {p} BY <1>1, <1>2 DEF AllOK, TypeOK, HistoryTypeOK
<1>6. \A q \in Path : target'[q] \in {target[q], backup[c][q], Absent}
  BY <1>1, <1>2 DEF AllOK, TypeOK, DiskTypeOK
<1>7. RunOK'
  <2>1. todo \in SUBSET Path BY DEF AllOK, TypeOK, RecoveryTypeOK
  <2>2. \A q \in todo : Last(todo, q) => q = p BY <1>1, <2>1, LastIsOne DEF Last
  <2>3. \A q \in todo' : Last(todo', q) => q \notin applied'[c] BY <1>1, <1>5, <2>2
  <2> QED BY <1>1, <1>3, <1>4, <1>5, <2>3 DEF RunOK, RunAt
<1>8. UNCHANGED backup \/ (\E q \in Path : SetBackup(c, q, Absent) /\ (q \notin applied'[c] \/ manifest'[c] \notin Undecided))
  BY <1>1, <1>2, <1>5
<1>9. \E q \in Path : applied' = [applied EXCEPT ![c] = @ \ {q}] BY <1>1, <1>2
<1>10. manifest'[c] = "rolling_back" /\ manifest'[c] \in ManifestState \ {"none"}
  BY <1>1, <1>3 DEF ManifestState
<1> QED BY <1>1, <1>2, <1>3, <1>6, <1>7, <1>8, <1>9, <1>10, RunStep

LEMMA DropStageKeeps ==
    ASSUME AllOK, TypeOK', LockInv', NEW p \in Path, DropStage(p)
    PROVE  AllOK'
<1>1. /\ rpc = "dropStage" /\ Elsewhere /\ UNCHANGED <<target, backup, manifest, rfrom, todo, applied, decided>>
      /\ rpc' = "dropBackup"
  BY DEF DropStage, Step
<1>2. PICK c \in Tx : c = current BY <1>1, RunFacts
<1>3. current' = current /\ UNCHANGED pc BY <1>1, <1>2, ElsewhereIs
<1>4. RunOK BY <1>1, RunFacts
<1>5. RunOK' BY <1>1, <1>3, <1>4 DEF RunOK, RunAt, Last
<1> QED BY <1>1, <1>2, <1>5, RunStill

\* Removing the artifacts of an operation.
LEMMA RemoveBackupIs ==
    ASSUME NEW t \in Tx, NEW p \in Path, RemoveBackup(t, p)
    PROVE  UNCHANGED backup \/ SetBackup(t, p, Absent)
BY DEF RemoveBackup

LEMMA DropBackupKeeps ==
    ASSUME AllOK, TypeOK', LockInv', NEW p \in Path, DropBackup(p)
    PROVE  AllOK'
<1>1. /\ rpc = "dropBackup" /\ Last(todo, p) /\ Elsewhere
      /\ UNCHANGED <<target, manifest, rfrom, applied, decided>>
      /\ rpc' = "restore" /\ todo' = todo \ {p} /\ RemoveBackup(current, p)
  BY DEF DropBackup, Step
<1>2. PICK c \in Tx : c = current BY <1>1, RunFacts
<1>3. current' = c /\ UNCHANGED pc BY <1>1, <1>2, ElsewhereIs
<1>4. RunOK BY <1>1, RunFacts
<1>5. p \notin applied[c] /\ applied[c] \subseteq todo BY <1>1, <1>2, <1>4 DEF RunOK, Last
<1>6. RunOK' BY <1>1, <1>2, <1>3, <1>4, <1>5 DEF RunOK, RunAt
<1>7. UNCHANGED backup \/ SetBackup(c, p, Absent) BY <1>1, <1>2, RemoveBackupIs
<1>8. UNCHANGED backup \/ (\E q \in Path : SetBackup(c, q, Absent) /\ (q \notin applied[c] \/ manifest[c] \notin Undecided))
  BY <1>5, <1>7
<1> QED BY <1>1, <1>2, <1>6, <1>8, RunStill

LEMMA RecheckKeeps ==
    ASSUME AllOK, TypeOK', LockInv', NEW p \in Path, Recheck(p) \/ CleanCommitted(p)
    PROVE  AllOK'
<1>1. /\ rpc \in {"recheck", "cleanup"} /\ Elsewhere
      /\ UNCHANGED <<target, manifest, rpc, rfrom, applied, decided>>
      /\ RemoveBackup(current, p)
  BY DEF Recheck, CleanCommitted
<1>2. PICK c \in Tx : c = current BY <1>1, RunFacts
<1>3. current' = c /\ UNCHANGED pc BY <1>1, <1>2, ElsewhereIs
<1>4. RunOK BY <1>1, RunFacts
<1>5. manifest[c] \in {"rolled_back", "committed"} BY <1>1, <1>2, <1>4 DEF RunOK, RunAt
<1>6. RunOK' BY <1>1, <1>2, <1>3, <1>4 DEF RunOK, RunAt
<1>7. UNCHANGED backup \/ SetBackup(c, p, Absent) BY <1>1, <1>2, RemoveBackupIs
<1>8. manifest[c] \notin Undecided BY <1>5 DEF Undecided
<1>9. UNCHANGED backup \/ (\E q \in Path : SetBackup(c, q, Absent) /\ (q \notin applied[c] \/ manifest[c] \notin Undecided))
  BY <1>7, <1>8
<1> QED BY <1>1, <1>2, <1>6, <1>9, RunStill

\* The steps between the loops: verified, rechecked, cleaned, directories gone.
LEMMA BetweenLoopsKeeps ==
    ASSUME AllOK, TypeOK', LockInv', Verify \/ Rechecked \/ Cleaned \/ RemoveDirectory
    PROVE  AllOK'
<1>1. /\ rpc \in {"restore", "recheck", "cleanup", "remove"} /\ Elsewhere
      /\ UNCHANGED <<target, backup, manifest, rfrom, todo, applied, decided>>
  BY DEF Verify, Rechecked, Cleaned, RemoveDirectory, disk
<1>2. PICK c \in Tx : c = current BY <1>1, RunFacts
<1>3. current' = c /\ UNCHANGED <<pc, torn>> BY <1>1, <1>2, ElsewhereIs
<1>4. RunOK /\ WholeOK(c) BY <1>1, <1>2, RunFacts DEF AllOK, TxOK
<1>5. \/ rpc = "restore" /\ todo = {} /\ rpc' = "remove"
      \/ rpc = "recheck" /\ rpc' = "remove"
      \/ rpc = "cleanup" /\ rpc' = "record"
      \/ rpc = "remove" /\ rpc' = IF manifest[c] = "rolled_back" THEN "record" ELSE "persist"
  BY <1>2 DEF Verify, Rechecked, Cleaned, RemoveDirectory, Step
<1>6. Torn(c)' = Torn(c) BY <1>3 DEF Torn
<1>7. manifest[c] \in RunAt(rpc) /\ (pc[c] = "done" => rfrom = "committed")
      /\ (rpc = "remove" => applied[c] \subseteq Torn(c))
      /\ (rpc = "restore" => applied[c] \subseteq todo)
  BY <1>2, <1>4 DEF RunOK
<1>8. rpc' \in {"remove", "record", "persist"} /\ rpc' \notin {"idle", "scan"}
  BY <1>5
<1>9. manifest[c] \in RunAt(rpc')
  <2>1. CASE rpc = "restore" BY <1>5, <1>7, <2>1 DEF RunAt
  <2>2. CASE rpc = "recheck" BY <1>5, <1>7, <2>2 DEF RunAt
  <2>3. CASE rpc = "cleanup" BY <1>5, <1>7, <2>3 DEF RunAt
  <2>4. CASE rpc = "remove" BY <1>5, <1>7, <2>4 DEF RunAt
  <2> QED BY <1>1, <2>1, <2>2, <2>3, <2>4
<1>10. rpc' \in {"remove", "persist"} => applied[c] \subseteq Torn(c)
  <2>1. CASE rpc = "restore" BY <1>5, <1>7, <2>1
  <2>2. CASE rpc = "recheck"
    <3>1. manifest[c] = "rolled_back" BY <1>7, <2>2 DEF RunAt
    <3> QED BY <1>4, <3>1 DEF WholeOK
  <2>3. CASE rpc = "cleanup" BY <1>5, <2>3
  <2>4. CASE rpc = "remove" BY <1>7, <2>4
  <2> QED BY <1>1, <2>1, <2>2, <2>3, <2>4
<1>11. RunOK'
  <2>1. applied'[c] \subseteq Torn(c)' <=> applied[c] \subseteq Torn(c) BY <1>1, <1>6
  <2>2. rpc' \in {"remove", "persist"} => applied'[current'] \subseteq Torn(current)'
    BY <1>2, <1>3, <1>10, <2>1 DEF Torn
  <2>3. rpc' \notin {"restore", "restoring", "dropStage", "dropBackup"} BY <1>8
  <2>4. pc'[current'] = "done" => rfrom' = "committed" BY <1>1, <1>3, <1>7
  <2>5. manifest'[current'] \in RunAt(rpc)' BY <1>1, <1>3, <1>9 DEF RunAt
  <2> QED BY <2>2, <2>3, <2>4, <2>5 DEF RunOK
<1> QED BY <1>1, <1>2, <1>8, <1>11, RunStill

LEMMA PersistKeeps ==
    ASSUME AllOK, TypeOK', LockInv', Persist
    PROVE  AllOK'
<1>1. /\ rpc = "persist" /\ Elsewhere /\ UNCHANGED <<target, backup, rfrom, todo, applied, decided>>
      /\ Transition(current, "rolled_back") /\ rpc' = "record"
  BY DEF Persist, disk, Step
<1>2. PICK c \in Tx : c = current BY <1>1, RunFacts
<1>3. manifest[c] = "rolling_back" /\ pc[c] # "done" /\ applied[c] \subseteq Torn(c)
  BY <1>1, <1>2, RunFacts DEF RunOK, RunAt
<1>4. current' = c /\ UNCHANGED <<pc, torn>> BY <1>1, <1>2, ElsewhereIs
<1>5. manifest'[c] = "rolled_back" BY <1>1, <1>2, TransitionIs DEF AllOK
<1>6. RunOK' BY <1>1, <1>3, <1>4, <1>5 DEF RunOK, RunAt
<1>7. \E s : Transition(c, s) BY <1>1, <1>2
<1>8. manifest'[c] \in ManifestState \ {"none"} /\ manifest'[c] \notin Undecided
  BY <1>5 DEF ManifestState, Undecided
<1>9. applied'[c] \subseteq Torn(c) BY <1>1, <1>3
<1> QED BY <1>1, <1>2, <1>3, <1>5, <1>6, <1>7, <1>8, <1>9, RunStep

LEMMA RecordRecoveryKeeps ==
    ASSUME AllOK, TypeOK', LockInv', RecordRecovery
    PROVE  AllOK'
<1>1. /\ rpc = "record" /\ rpc' = "scan" /\ rpos' = rpos + 1
      /\ UNCHANGED <<target, backup, before, recorded, log, manifest, spent, applied, torn, decided, op, pc>>
  BY DEF RecordRecovery, disk, journal, memory, history, Step
<1>2. \A u \in Tx : Same(u) BY <1>1 DEF Same
<1>3. \A u \in Tx : TxOK(u)' BY <1>1, <1>2, Others DEF AllOK
<1>4. LogOK' BY <1>1 DEF LogOK, AllOK
<1>5. FreshInv' BY <1>1 DEF AllOK, FreshInv
<1>6. RunInv'
  <2>1. manifest[log[rpos]] \in {"committed", "rolled_back"}
    BY <1>1, RunFacts DEF RunOK, RunAt, current
  <2>2. rpos \in Nat /\ Len(log) \in Nat BY DEF AllOK, TypeOK, RecoveryTypeOK, JournalTypeOK
  <2>3. \A i \in 1..Len(log) : i < rpos => manifest[log[i]] \in {"committed", "rolled_back"}
    BY <1>1 DEF AllOK, RunInv
  <2>4. \A i \in 1..Len(log) : i < rpos + 1 => manifest[log[i]] \in {"committed", "rolled_back"}
    BY <2>1, <2>2, <2>3
  <2> QED BY <1>1, <2>4 DEF RunInv
<1> QED BY <1>3, <1>4, <1>5, <1>6 DEF AllOK

\* The requests that waited for a run go on, or fail.
LEMMA ResumeKeeps ==
    ASSUME AllOK, NEW s \in {"ready", "refused"}, Resume(s),
           UNCHANGED <<target, backup, before, recorded, op, applied, torn, decided>>,
           NEW u \in Tx, manifest'[u] = manifest[u]
    PROVE  TxOK(u)'
<1>1. TxOK(u) BY DEF AllOK
<1>2. CASE pc'[u] = pc[u]
  <2>1. Same(u) BY <1>2 DEF Same
  <2> QED BY <1>1, <2>1, Others
<1>3. CASE pc'[u] # pc[u]
  <2>1. pc[u] = "waiting" /\ pc'[u] = s BY <1>3 DEF Resume
  <2>2. manifest[u] = "none" BY <1>1, <2>1 DEF TxOK, ManifestAt
  <2>3. AppliedOK(u) BY <1>1 DEF TxOK
  <2>4. Torn(u)' = {} /\ applied'[u] = {} /\ \A p \in Path : op'[u][p] = "planned"
    BY <2>1, <2>3 DEF AppliedOK, Torn
  <2>5. InstallOK(u)' /\ TornOK(u)' /\ AppliedOK(u)' BY <2>1, <2>4 DEF InstallOK, TornOK, AppliedOK
  <2>6. EvidenceOK(u)' /\ WholeOK(u)' BY <2>1, <2>2 DEF EvidenceOK, WholeOK, Undecided
  <2>7. manifest'[u] \in ManifestAt(pc'[u]) BY <2>1, <2>2 DEF ManifestAt
  <2> QED BY <2>1, <2>2, <2>5, <2>6, <2>7 DEF TxOK, Working
<1> QED BY <1>2, <1>3

LEMMA RunEndsKeeps ==
    ASSUME AllOK, TypeOK', LockInv', RunEnds
    PROVE  AllOK'
<1>1. /\ rpc' = "idle" /\ Resume("ready")
      /\ UNCHANGED <<target, backup, before, recorded, log, manifest, spent, applied, torn, decided, op>>
  BY DEF RunEnds, disk, journal, history, RunOver, Step
<1>2. \A u \in Tx : TxOK(u)' BY <1>1, ResumeKeeps
<1>3. LogOK' BY <1>1 DEF LogOK, AllOK
<1>4. FreshInv' BY <1>1 DEF AllOK, FreshInv
<1>5. RunInv' BY <1>1 DEF RunInv
<1> QED BY <1>2, <1>3, <1>4, <1>5 DEF AllOK

LEMMA RecoveryFailsKeeps ==
    ASSUME AllOK, TypeOK', LockInv', RecoveryFails
    PROVE  AllOK'
<1>1. /\ rpc' = "idle" /\ Resume("refused") /\ rpc \notin {"idle", "scan"}
      /\ UNCHANGED <<target, backup, before, recorded, log, spent, applied, torn, decided, op>>
      /\ (rfrom # "committed" /\ Transition(current, "recovery_required")) \/ UNCHANGED manifest
  BY DEF RecoveryFails, Blocked, disk, RunOver, Step, Overwritten
<1>2. PICK c \in Tx : c = current BY <1>1, RunFacts
<1>3. manifest[c] # "none" /\ RunOK /\ pc[c] \in {"done", "aborted", "dead"} BY <1>1, <1>2, RunFacts
<1>4. \A u \in Tx : u # c => manifest'[u] = manifest[u] BY <1>1, <1>2, TransitionIs DEF AllOK
<1>5. manifest'[c] = manifest[c] \/ (manifest'[c] = "recovery_required" /\ rfrom # "committed")
  BY <1>1, <1>2, TransitionIs DEF AllOK
<1>6. TxOK(c)'
  <2>1. CASE manifest'[c] = manifest[c] BY <1>1, <2>1, ResumeKeeps
  <2>2. CASE manifest'[c] = "recovery_required" /\ rfrom # "committed"
    <3>1. TxOK(c) BY DEF AllOK
    <3>2. pc'[c] = pc[c] BY <1>1, <1>3 DEF Resume
    <3>3. pc[c] # "done" BY <1>2, <1>3, <2>2 DEF RunOK
    <3>4. manifest[c] \in ManifestState BY DEF AllOK, TypeOK, JournalTypeOK
    <3>5. manifest[c] \in Undecided \union {"committed", "rolled_back"}
      BY <1>3, <3>4 DEF ManifestState, Undecided
    <3>6. manifest'[c] \in ManifestState \ {"none"} BY <2>2 DEF ManifestState
    <3> QED BY <1>1, <1>3, <2>2, <3>1, <3>2, <3>3, <3>5, <3>6, RunTx
  <2> QED BY <1>5, <2>1, <2>2
<1>7. \A u \in Tx : TxOK(u)' BY <1>1, <1>4, <1>6, ResumeKeeps
<1>8. \A u \in Tx : manifest'[u] = "none" <=> manifest[u] = "none" BY <1>3, <1>4, <1>5
<1>9. LogOK'
  <2>1. log \in Seq(Tx) /\ LogOK BY DEF AllOK, TypeOK, JournalTypeOK
  <2>2. \A i \in 1..Len(log) : log[i] \in Tx BY <2>1
  <2> QED BY <1>1, <1>8, <2>1, <2>2 DEF LogOK
<1>10. FreshInv' BY <1>1 DEF AllOK, FreshInv
<1>11. RunInv' BY <1>1 DEF RunInv
<1> QED BY <1>7, <1>9, <1>10, <1>11 DEF AllOK

----------------------------------------------------------------------------
(* Crashes and other programs.                                             *)

LEMMA DiesKeeps ==
    ASSUME AllOK, TypeOK', LockInv', NEW s \in Server, Dies(s)
    PROVE  AllOK'
<1> DEFINE Lost(t) == Home[t] = s /\ pc[t] \notin Terminal \union {"idle"}
<1>1. /\ UNCHANGED <<target, backup, before, recorded, log, manifest, spent, applied, torn, decided>>
      /\ pc' = [t \in Tx |-> IF Lost(t) THEN "dead" ELSE pc[t]]
      /\ op' = [t \in Tx |-> IF Lost(t) THEN [p \in Path |-> "planned"] ELSE op[t]]
      /\ rpc' = "idle" \/ UNCHANGED <<rpc, rpos, rfrom, rseen, todo>>
  BY DEF Dies, disk, journal, RunOver, Step
<1>2. ASSUME NEW u \in Tx PROVE TxOK(u)'
  <2>1. TxOK(u) BY DEF AllOK
  <2>2. CASE ~Lost(u)
    <3>1. Same(u) BY <1>1, <2>2 DEF Same
    <3> QED BY <1>1, <2>1, <3>1, Others
  <2>3. CASE Lost(u)
    <3>1. pc'[u] = "dead" BY <1>1, <2>3
    <3>2. Torn(u)' = Torn(u) BY <1>1 DEF Torn
    <3>3. InstallOK(u)' /\ AppliedOK(u)' BY <1>1, <2>1, <3>1 DEF InstallOK, AppliedOK, TxOK
    <3>4. TornOK(u)' BY <1>1, <2>1, <3>1, <3>2 DEF TornOK, TxOK
    <3>5. EvidenceOK(u)' BY <1>1, <2>1, <3>2 DEF EvidenceOK, TxOK
    <3>6. WholeOK(u)' BY <1>1, <2>1, <3>1, <3>2 DEF WholeOK, TxOK
    <3>7. manifest'[u] \in ManifestAt(pc'[u])
      <4>1. manifest[u] \in ManifestState BY DEF AllOK, TypeOK, JournalTypeOK
      <4> QED BY <1>1, <3>1, <4>1 DEF ManifestAt
    <3> QED BY <1>1, <2>1, <3>1, <3>3, <3>4, <3>5, <3>6, <3>7 DEF TxOK, Working
  <2> QED BY <2>2, <2>3
<1>3. LogOK' BY <1>1 DEF LogOK, AllOK
<1>4. FreshInv' BY <1>1 DEF AllOK, FreshInv
<1>5. RunInv'
  <2>1. CASE rpc' = "idle" BY <2>1 DEF RunInv
  <2>2. CASE UNCHANGED <<rpc, rpos, rfrom, rseen, todo>>
    <3>1. UNCHANGED current BY <1>1, <2>2 DEF current
    <3>2. rpc \notin {"idle", "scan"} => pc'[current] = pc[current]
      BY <1>1, RunFacts DEF Terminal
    <3>3. Torn(current)' = Torn(current) BY <1>1, <3>1 DEF Torn
    <3>4. RunInv BY DEF AllOK
    <3> QED BY <1>1, <2>2, <3>1, <3>2, <3>3, <3>4 DEF RunInv, RestoringOK
  <2> QED BY <1>1, <2>1, <2>2
<1> QED BY <1>2, <1>3, <1>4, <1>5 DEF AllOK

\* What an editor leaves: the files as they were, gone, or with its bytes.
LEMMA ChangedFiles ==
    ASSUME TypeOK, NEW p \in Path, NEW e \in Ext, ExternalChange(p, e), NEW q \in Path
    PROVE  /\ target'[q] \in {target[q], Absent, e}
           /\ \A u \in Tx : /\ backup'[u][q] \in {backup[u][q], e}
                            /\ backup'[u][q] # backup[u][q] /\ backup[u][q] = target[q] => target'[q] = e
<1>0. target \in [Path -> Version] /\ backup \in [Tx -> [Path -> Version]] BY DEF TypeOK, DiskTypeOK
<1>1. CASE target' = [target EXCEPT ![p] = e] /\ UNCHANGED <<stage, backup>> BY <1>0, <1>1
<1>2. CASE target' = [target EXCEPT ![p] = Absent] /\ UNCHANGED <<stage, backup>> BY <1>0, <1>2
<1>3. ASSUME NEW v \in Version, WriteInPlace(p, v, e)
      PROVE  /\ target'[q] \in {target[q], e}
             /\ \A u \in Tx : /\ backup'[u][q] \in {backup[u][q], e}
                              /\ backup'[u][q] # backup[u][q] /\ backup[u][q] = target[q] => target'[q] = e
  <2>1. e \in Version BY DEF Version, Written
  <2>2. /\ target' = [target EXCEPT ![p] = IF @ = v THEN e ELSE @]
        /\ backup' = [u \in Tx |-> [backup[u] EXCEPT ![p] = IF @ = v THEN e ELSE @]]
    BY <1>3, <2>1, InPlaceTypes
  <2>3. CASE q # p
    <3>1. target'[q] = target[q] BY <1>0, <2>2, <2>3
    <3>2. \A u \in Tx : backup'[u][q] = backup[u][q] BY <1>0, <2>2, <2>3
    <3> QED BY <3>1, <3>2
  <2>4. CASE q = p
    <3>1. target'[p] = IF target[p] = v THEN e ELSE target[p] BY <1>0, <2>2
    <3>2. \A u \in Tx : backup'[u][p] = IF backup[u][p] = v THEN e ELSE backup[u][p] BY <1>0, <2>2
    <3> QED BY <2>4, <3>1, <3>2
  <2> QED BY <2>3, <2>4
<1> QED BY <1>1, <1>2, <1>3, Changes

LEMMA ExternalChangeKeeps ==
    ASSUME AllOK, TypeOK', LockInv', NEW p \in Path, NEW e \in Ext, ExternalChange(p, e)
    PROVE  AllOK'
<1>1. /\ UNCHANGED <<before, recorded, log, manifest, applied, torn, decided, pc, op>>
      /\ UNCHANGED recovery /\ e \notin spent /\ spent' = spent \union {e}
  BY DEF ExternalChange, journal, memory
<1>2. \A q \in Path :
        /\ target'[q] \in {target[q], Absent, e}
        /\ \A u \in Tx : /\ backup'[u][q] \in {backup[u][q], e}
                         /\ backup'[u][q] # backup[u][q] /\ backup[u][q] = target[q] => target'[q] = e
  BY ChangedFiles DEF AllOK
<1>3. FreshInv'
  <2>1. \A q \in Path : target'[q] \in {target[q], Absent} \union (Ext \intersect spent')
    BY <1>1, <1>2
  <2>2. \A u \in Tx, q \in Path :
          /\ before'[u][q] \in {before[u][q], target[q], Absent}
          /\ Kind[u][q] = "create" => before'[u][q] = Absent
          /\ backup'[u][q] \in {backup[u][q], target[q], Absent} \union (Ext \intersect spent')
    BY <1>1, <1>2 DEF AllOK, FreshInv
  <2> QED BY <1>1, <2>1, <2>2, FreshKept DEF AllOK
<1>4. ASSUME NEW u \in Tx PROVE TxOK(u)'
  <2>1. TxOK(u) BY DEF AllOK
  <2>2. Torn(u)' = Torn(u) BY <1>1 DEF Torn
  <2>3. ASSUME pc[u] \in Working \ {"cleaning"}, NEW q \in Targets(u) PROVE OpOK(u, q)'
    <3>1. OpOK(u, q) /\ q \in Path BY <2>1, <2>3 DEF TxOK, Targets
    <3>2. e # before[u][q] BY <1>1, <3>1 DEF AllOK, FreshInv
    <3>3. Kind[u][q] # "create" /\ target'[q] = before[u][q] => target[q] = before[u][q]
      BY <1>2, <3>1, <3>2 DEF OpOK
    <3>4. op[u][q] \in {"staged", "recorded"} /\ Kind[u][q] # "create" =>
             backup'[u][q] = before[u][q] \/ target'[q] # before[u][q]
      BY <1>2, <3>1, <3>2, <3>3 DEF OpOK
    <3>5. backup[u][q] \in {before[u][q]} \union Ext => backup'[u][q] \in {before[u][q]} \union Ext
      BY <1>2, <3>1
    <3>6. target[q] \in {After(u, q), Absent} \union Ext => target'[q] \in {After(u, q), Absent} \union Ext
      BY <1>2, <3>1
    <3> QED BY <1>1, <2>2, <3>1, <3>4, <3>5, <3>6 DEF OpOK, After
  <2>4. InstallOK(u)'
    <3>1. /\ InState(u, {"checked", "visible"})' = InState(u, {"checked", "visible"})
          /\ InState(u, {"checked"})' = InState(u, {"checked"})
      BY <1>1 DEF InState
    <3>2. \A q \in Path : target[q] \in {before[u][q], Absent} \union Ext
              => target'[q] \in {before[u][q], Absent} \union Ext
      BY <1>2
    <3>3. InState(u, {"checked"}) \subseteq Path BY DEF InState, Targets
    <3>4. InstallOK(u) BY <2>1 DEF TxOK
    <3> QED BY <1>1, <3>1, <3>2, <3>3, <3>4 DEF InstallOK
  <2>5. TornOK(u)' /\ AppliedOK(u)' BY <1>1, <2>1, <2>2 DEF TxOK, TornOK, AppliedOK
  <2>6. WholeOK(u)' BY <1>1, <2>1, <2>2 DEF TxOK, WholeOK
  <2>7. EvidenceOK(u)'
    <3>1. EvidenceOK(u) /\ applied[u] \subseteq Path BY <2>1 DEF TxOK, AppliedOK, Targets
    <3>2. \A q \in Path : backup[u][q] \in {before[u][q]} \union Ext => backup'[u][q] \in {before[u][q]} \union Ext
      BY <1>2
    <3> QED BY <1>1, <2>2, <3>1, <3>2 DEF EvidenceOK
  <2> QED BY <1>1, <2>1, <2>3, <2>4, <2>5, <2>6, <2>7 DEF TxOK
<1>5. LogOK' BY <1>1 DEF LogOK, AllOK
<1>6. RunInv'
  <2>1. UNCHANGED <<rpc, rpos, rfrom, rseen, todo, current>> BY <1>1 DEF recovery, current
  <2>2. Torn(current)' = Torn(current) BY <1>1, <2>1 DEF Torn
  <2>3. RunInv BY DEF AllOK
  <2>4. ASSUME rpc = "restoring", NEW q \in todo, Last(todo, q) PROVE RestoringOK(q)'
    <3>1. RestoringOK(q) BY <2>3, <2>4 DEF RunInv
    <3>2. current \in Tx /\ q \in Path BY <2>4, RunWorksOn DEF AllOK, TypeOK, RecoveryTypeOK
    <3>3. target'[q] \in {target[q], Absent, e} /\ backup'[current][q] \in {backup[current][q], e}
      BY <1>2, <3>2
    <3> QED BY <1>1, <2>1, <3>1, <3>3 DEF RestoringOK
  <2> QED BY <1>1, <2>1, <2>2, <2>3, <2>4 DEF RunInv
<1> QED BY <1>3, <1>4, <1>5, <1>6 DEF AllOK

LEMMA StutterKeeps ==
    ASSUME AllOK, TypeOK', LockInv', UNCHANGED vars
    PROVE  AllOK'
<1>1. UNCHANGED <<target, backup, before, recorded, log, manifest, applied, torn, decided, pc, op,
                  spent, rpc, rpos, rfrom, rseen, todo>>
  BY DEF vars, disk, journal, memory, recovery, history
<1>2. \A u \in Tx : Same(u) BY <1>1 DEF Same
<1>3. \A u \in Tx : TxOK(u)' BY <1>1, <1>2, Others DEF AllOK
<1>4. LogOK' BY <1>1 DEF LogOK, AllOK
<1>5. FreshInv' BY <1>1 DEF AllOK, FreshInv
<1>6. RunInv'
  <2>1. UNCHANGED current BY <1>1 DEF current
  <2>2. Torn(current)' = Torn(current) BY <1>1, <2>1 DEF Torn
  <2>3. RunInv BY DEF AllOK
  <2> QED BY <1>1, <2>1, <2>2, <2>3 DEF RunInv, RestoringOK
<1> QED BY <1>3, <1>4, <1>5, <1>6 DEF AllOK

----------------------------------------------------------------------------
(* The invariant.                                                          *)

LEMMA InitIsOK == Init => AllOK
<1> SUFFICES ASSUME Init PROVE AllOK OBVIOUS
<1>1. TypeOK BY InitTypes
<1>2. LockInv BY DEF Init, LockInv, Working
<1>3. LogOK BY DEF Init, LogOK
<1>4. RunInv BY DEF Init, RunInv
<1>5. FreshInv
  <2>1. Original \notin Ext /\ Absent \notin Ext BY TransactionAssumption DEF Written
  <2> QED BY <2>1 DEF Init, FreshInv
<1>6. ASSUME NEW t \in Tx PROVE TxOK(t)
  <2>1. /\ pc[t] = "idle" /\ manifest[t] = "none" /\ applied[t] = {} /\ Torn(t) = {}
        /\ \A p \in Path : op[t][p] = "planned"
    BY <1>6 DEF Init, Torn
  <2>2. InstallOK(t) /\ TornOK(t) /\ AppliedOK(t) BY <2>1 DEF InstallOK, TornOK, AppliedOK
  <2>3. EvidenceOK(t) /\ WholeOK(t) BY <2>1 DEF EvidenceOK, WholeOK, Undecided
  <2> QED BY <2>1, <2>2, <2>3 DEF TxOK, ManifestAt, Working
<1> QED BY <1>1, <1>2, <1>3, <1>4, <1>5, <1>6 DEF AllOK

LEMMA NextKeeps ==
    ASSUME AllOK, [Next]_vars
    PROVE  AllOK'
<1>0. TypeOK' /\ LockInv' BY NextTypes, LockInvNext DEF AllOK
<1>1. ASSUME NEW t \in Tx, EnsureReady(t) PROVE AllOK' BY <1>0, <1>1, EnsureReadyKeeps
<1>2. ASSUME NEW t \in Tx, EngineStep(t) PROVE AllOK'
  <2>1. ASSUME NEW p \in Path,
               \/ StageFile(t, p) \/ LinkBackup(t, p) \/ RecordStaged(t, p)
               \/ CheckTarget(t, p) \/ InstallFile(t, p) \/ Readback(t, p)
               \/ CleanUp(t, p) \/ Undo(t, p) \/ UndoFile(t, p) \/ FinalizeUndone(t, p)
        PROVE  AllOK'
    BY <1>0, <2>1, StageFileKeeps, LinkBackupKeeps, RecordStagedKeeps, CheckTargetKeeps,
       InstallFileKeeps, ReadbackKeeps, CleanUpKeeps, UndoKeeps, UndoFileKeeps, FinalizeUndoneKeeps
  <2> QED
    BY <1>0, <1>2, <2>1, InspectKeeps, AcquireKeeps, PrepareDoneKeeps, MakeDirectoryKeeps,
       InstallDoneKeeps, AcknowledgeKeeps, RollbackStepsKeep, FinishRollbackKeeps DEF EngineStep
<1>3. ASSUME NEW t \in Tx, CallerStep(t) PROVE AllOK'
  BY <1>0, <1>3, BeginCommitKeeps, FinalizeKeeps, RefusalsKeep, ParticipantsKeep DEF CallerStep
<1>4. ASSUME NEW t \in Tx, Failure(t) PROVE AllOK'
  BY <1>0, <1>4, RefusalsKeep, LeakArtifactKeeps, ParticipantsKeep DEF Failure
<1>5. ASSUME RecoveryStep PROVE AllOK'
  <2>1. ASSUME NEW p \in Path,
               \/ RestoreTarget(p) \/ RestoreFile(p) \/ DropStage(p) \/ DropBackup(p)
               \/ Recheck(p) \/ CleanCommitted(p)
        PROVE  AllOK'
    BY <1>0, <2>1, RestoreTargetKeeps, RestoreFileKeeps, DropStageKeeps, DropBackupKeeps, RecheckKeeps
  <2> QED
    BY <1>0, <1>5, <2>1, RunEndsKeeps, ChooseKeeps, ReconcileKeeps, BeginRestoreKeeps, BetweenLoopsKeeps,
       PersistKeeps, RecordRecoveryKeeps, RecoveryFailsKeeps DEF RecoveryStep
<1>6. ASSUME NEW s \in Server, UseWorkspace(s) \/ Crash(s) \/ Unhandled(s) PROVE AllOK'
  BY <1>0, <1>6, UseWorkspaceKeeps, DiesKeeps DEF Crash, Unhandled
<1>7. ASSUME NEW p \in Path, NEW e \in Ext, ExternalChange(p, e) PROVE AllOK'
  BY <1>0, <1>7, ExternalChangeKeeps
<1>8. ASSUME UNCHANGED vars PROVE AllOK' BY <1>0, <1>8, StutterKeeps
<1> QED BY <1>1, <1>2, <1>3, <1>4, <1>5, <1>6, <1>7, <1>8 DEF Next

(***************************************************************************)
(* The engine's position, the manifests, the backups and the recovery run  *)
(* agree at every step of every request, run, crash and editor.            *)
(***************************************************************************)
THEOREM Invariance == Spec => []IInv
<1>1. Init => AllOK BY InitIsOK
<1>2. AllOK /\ [Next]_vars => AllOK' BY NextKeeps
<1>3. AllOK => IInv BY Parts
<1> QED BY <1>1, <1>2, <1>3, PTL DEF Spec

(***************************************************************************)
(* "A visible mutation is never attempted until the durable journal        *)
(* describes how to restore the previous state", crashes and repeated      *)
(* recoveries included.                                                    *)
(***************************************************************************)
THEOREM Evidence == Spec => []EvidenceKept
<1>1. IInv => EvidenceKept BY DEF IInv
<1> QED BY <1>1, Invariance, PTL

(***************************************************************************)
(* A manifest that says committed stands for every visible step of its     *)
(* transaction and one that says rolled_back for none.                     *)
(***************************************************************************)
THEOREM Whole == Spec => []AllOrNothing
<1>1. IInv => AllOrNothing BY DEF IInv
<1> QED BY <1>1, Invariance, PTL

(***************************************************************************)
(* What the caller was told is committed stays committed, with every one   *)
(* of its visible steps.                                                   *)
(***************************************************************************)
THEOREM Durable == Spec => []AcknowledgedIsDurable
<1>1. IInv => AcknowledgedIsDurable BY DEF IInv
<1> QED BY <1>1, Invariance, PTL

----------------------------------------------------------------------------
(* What the steps leave alone.                                             *)

\* The steps of a request under the lock that decide nothing.
WorkStep(t) ==
    \/ PrepareDone(t) \/ BeginCommit(t) \/ MakeDirectory(t) \/ RecordDirectory(t) \/ InstallDone(t)
    \/ FinalizeFails(t) \/ CallerRollback(t) \/ StepFails(t) \/ BeginRollback(t) \/ RollbackFails(t)
    \/ \E i \in Part : CommitEffect(t, i) \/ RecordFact(t, i) \/ ParticipantFails(t, i)
    \/ \E p \in Path :
          \/ StageFile(t, p) \/ LinkBackup(t, p) \/ LeakArtifact(t, p) \/ RecordStaged(t, p) \/ CheckTarget(t, p)
          \/ InstallFile(t, p) \/ Readback(t, p) \/ Undo(t, p) \/ UndoFile(t, p) \/ FinalizeUndone(t, p)

WorkFrame(t) ==
    /\ \A u \in Tx : u # t => Same(u)
    /\ pc[t] \in Working \ {"cleaning", "abandoned"} /\ pc'[t] \in Working \ {"cleaning"}
    /\ UNCHANGED <<rpc, log>>

\* Who may write a file.
Writes(t) == \E p \in Path : InstallFile(t, p) \/ UndoFile(t, p)

LEMMA WorkFrames ==
    ASSUME TypeOK, NEW t \in Tx, WorkStep(t)
    PROVE  WorkFrame(t) /\ (target' = target \/ Writes(t))
<1> USE DEF TypeOK, WorkFrame, Same, Bystanders, recovery, disk, journal, history, Become, SetOp, SetBackup,
            Transition, Working, DiskTypeOK, JournalTypeOK, MemoryTypeOK, HistoryTypeOK
<1>1. ASSUME NEW p \in Path, StageFile(t, p) PROVE WorkFrame(t) /\ target' = target
  BY <1>1 DEF StageFile, StageNext, Staging, ToRollback
<1>2. ASSUME NEW p \in Path, LinkBackup(t, p) PROVE WorkFrame(t) /\ target' = target
  BY <1>2 DEF LinkBackup, Staging, ToRollback
<1>3. ASSUME NEW p \in Path, LeakArtifact(t, p) PROVE WorkFrame(t) /\ target' = target
  BY <1>3 DEF LeakArtifact, StageNext, Staging, ToRollback
<1>4. ASSUME NEW p \in Path, RecordStaged(t, p) PROVE WorkFrame(t) /\ target' = target
  BY <1>4 DEF RecordStaged, Staging
<1>5. ASSUME PrepareDone(t) PROVE WorkFrame(t) /\ target' = target
  BY <1>5 DEF PrepareDone
<1>6. ASSUME BeginCommit(t) PROVE WorkFrame(t) /\ target' = target
  BY <1>6 DEF BeginCommit
<1>7. ASSUME MakeDirectory(t) PROVE WorkFrame(t) /\ target' = target
  BY <1>7 DEF MakeDirectory, ToRollback
<1>8. ASSUME RecordDirectory(t) PROVE WorkFrame(t) /\ target' = target
  BY <1>8 DEF RecordDirectory
<1>9. ASSUME NEW p \in Path, CheckTarget(t, p) PROVE WorkFrame(t) /\ target' = target
  BY <1>9 DEF CheckTarget, ToRollback
<1>10. ASSUME NEW p \in Path, InstallFile(t, p) PROVE WorkFrame(t) /\ Writes(t)
  <2>1. WorkFrame(t) BY <1>10 DEF InstallFile, ToRollback
  <2>2. Writes(t) BY <1>10, Zenon DEF Writes
  <2> QED BY <2>1, <2>2
<1>11. ASSUME NEW p \in Path, Readback(t, p) PROVE WorkFrame(t) /\ target' = target
  BY <1>11 DEF Readback, ToRollback
<1>12. ASSUME InstallDone(t) PROVE WorkFrame(t) /\ target' = target
  BY <1>12 DEF InstallDone
<1>13. ASSUME NEW i \in Part, CommitEffect(t, i) PROVE WorkFrame(t) /\ target' = target
  BY <1>13 DEF CommitEffect, Turn
<1>14. ASSUME NEW i \in Part, RecordFact(t, i) PROVE WorkFrame(t) /\ target' = target
  BY <1>14 DEF RecordFact, Turn
<1>15. ASSUME NEW i \in Part, ParticipantFails(t, i) PROVE WorkFrame(t) /\ target' = target
  BY <1>15 DEF ParticipantFails, Turn, ToRollback
<1>16. ASSUME FinalizeFails(t) PROVE WorkFrame(t) /\ target' = target
  BY <1>16 DEF FinalizeFails
<1>17. ASSUME CallerRollback(t) PROVE WorkFrame(t) /\ target' = target
  BY <1>17 DEF CallerRollback, ToRollback
<1>18. ASSUME StepFails(t) PROVE WorkFrame(t) /\ target' = target
  BY <1>18 DEF StepFails, ToRollback
<1>19. ASSUME BeginRollback(t) PROVE WorkFrame(t) /\ target' = target
  BY <1>19 DEF BeginRollback
<1>20. ASSUME NEW p \in Path, Undo(t, p) PROVE WorkFrame(t) /\ target' = target
  BY <1>20 DEF Undo, UndoNext
<1>21. ASSUME NEW p \in Path, FinalizeUndone(t, p) PROVE WorkFrame(t) /\ target' = target
  BY <1>21 DEF FinalizeUndone
<1>22. ASSUME RollbackFails(t) PROVE WorkFrame(t) /\ target' = target
  BY <1>22 DEF RollbackFails
<1>23. ASSUME NEW p \in Path, UndoFile(t, p) PROVE WorkFrame(t) /\ Writes(t)
  <2>1. WorkFrame(t) BY <1>23 DEF UndoFile, UndoNext
  <2>2. Writes(t) BY <1>23, Zenon DEF Writes
  <2> QED BY <2>1, <2>2
<1> HIDE DEF TypeOK, WorkFrame, Same, Bystanders, recovery, disk, journal, history, Become, SetOp, SetBackup,
             Transition, Working, DiskTypeOK, JournalTypeOK, MemoryTypeOK, HistoryTypeOK
<1> QED
  BY <1>1, <1>2, <1>3, <1>4, <1>5, <1>6, <1>7, <1>8, <1>9, <1>10, <1>11,
     <1>12, <1>13, <1>14, <1>15, <1>16, <1>17, <1>18, <1>19, <1>20, <1>21, <1>22, <1>23 DEF WorkStep

\* Every step of a request is one of these.
LEMMA Requests ==
    ASSUME NEW t \in Tx, EnsureReady(t) \/ EngineStep(t) \/ CallerStep(t) \/ Failure(t)
    PROVE  \/ WorkStep(t)
           \/ EnsureReady(t) \/ Inspect(t) \/ Acquire(t) \/ Finalize(t) \/ Acknowledge(t) \/ FinishRollback(t)
           \/ \E p \in Path : CleanUp(t, p)
BY Zenon DEF EngineStep, CallerStep, Failure, WorkStep

\* The steps of a request that decide something leave the files, and other
\* requests, alone.
LEMMA DecisionFrames ==
    ASSUME TypeOK, NEW t \in Tx,
           \/ EnsureReady(t) \/ Inspect(t) \/ Acquire(t) \/ Finalize(t) \/ Acknowledge(t) \/ FinishRollback(t)
           \/ \E p \in Path : CleanUp(t, p)
    PROVE  /\ target' = target /\ (rpc' = rpc \/ rpc = "idle")
           /\ \A u \in Tx : u # t => Same(u)
           /\ pc[t] # "waiting"
<1> DEFINE Frame == /\ target' = target /\ (rpc' = rpc \/ rpc = "idle")
                    /\ \A u \in Tx : u # t => Same(u)
                    /\ pc[t] # "waiting"
<1>1. CASE EnsureReady(t)
  <2>1. pc' = [pc EXCEPT ![t] = pc'[t]]
    BY <1>1 DEF EnsureReady, Become, TypeOK, MemoryTypeOK
  <2> QED BY <1>1, <2>1 DEF EnsureReady, Same, disk, journal, history, TypeOK, MemoryTypeOK
<1>2. CASE Inspect(t)
  BY <1>2 DEF Inspect, Become, Same, disk, history, recovery, TypeOK, MemoryTypeOK, JournalTypeOK
<1>3. CASE Acquire(t)
  BY <1>3 DEF Acquire, Become, Transition, Same, disk, recovery, TypeOK, MemoryTypeOK, JournalTypeOK
<1>4. CASE Finalize(t)
  BY <1>4 DEF Finalize, Become, Transition, Bystanders, Same, disk, recovery, TypeOK, MemoryTypeOK, JournalTypeOK
<1>5. CASE Acknowledge(t)
  BY <1>5 DEF Acknowledge, Become, Same, disk, journal, history, recovery, TypeOK, MemoryTypeOK
<1>6. CASE FinishRollback(t)
  BY <1>6 DEF FinishRollback, AllUndone, Become, Transition, Same, history, recovery, TypeOK, MemoryTypeOK, JournalTypeOK
<1>7. ASSUME NEW p \in Path, CleanUp(t, p) PROVE Frame
  BY <1>7 DEF CleanUp, SetOp, SetBackup, Bystanders, Same, recovery, TypeOK, MemoryTypeOK, DiskTypeOK
<1> QED BY <1>1, <1>2, <1>3, <1>4, <1>5, <1>6, <1>7

\* The steps of a run: one of them writes a file, and its end lets requests go on.
LEMMA RunFrames ==
    ASSUME RecoveryStep
    PROVE  /\ target' = target \/ \E p \in Path : RestoreFile(p)
           /\ RunEnds \/ pc' = pc \/ Resume("refused")
<1> USE DEF disk, memory, Elsewhere, Step
<1>1. CASE RunEnds BY <1>1 DEF RunEnds, RunOver
<1>2. CASE Choose \/ Reconcile \/ BeginRestore
  BY <1>2 DEF Choose, Reconcile, BeginRestore
<1>3. CASE Verify \/ RemoveDirectory \/ Persist \/ Rechecked \/ Cleaned
  BY <1>3 DEF Verify, RemoveDirectory, Persist, Rechecked, Cleaned
<1>4. CASE RecordRecovery BY <1>4 DEF RecordRecovery
<1>5. CASE RecoveryFails BY <1>5 DEF RecoveryFails, RunOver
<1>6. CASE \E p \in Path : RestoreTarget(p) \/ DropStage(p) \/ DropBackup(p) \/ Recheck(p) \/ CleanCommitted(p)
  BY <1>6 DEF RestoreTarget, DropStage, DropBackup, Recheck, CleanCommitted
<1>7. CASE \E p \in Path : RestoreFile(p)
  <2>1. pc' = pc BY <1>7 DEF RestoreFile
  <2> QED BY <1>7, <2>1, Zenon
<1> QED BY <1>1, <1>2, <1>3, <1>4, <1>5, <1>6, <1>7, Zenon DEF RecoveryStep

----------------------------------------------------------------------------
(* What no step may do.                                                    *)

\* Only the end of a run lets a waiting request go on.
LEMMA OnlyRunEnds ==
    ASSUME AllOK, [Next]_vars, NEW t \in Tx, pc[t] = "waiting", pc'[t] = "ready"
    PROVE  RunEnds
<1>0. TypeOK BY DEF AllOK
<1>1. ASSUME NEW u \in Tx, EnsureReady(u) \/ EngineStep(u) \/ CallerStep(u) \/ Failure(u) PROVE FALSE
  <2>1. u # t => Same(t) BY <1>0, <1>1, Requests, WorkFrames, DecisionFrames DEF WorkFrame
  <2>2. pc[u] # "waiting"
    BY <1>0, <1>1, Requests, WorkFrames, DecisionFrames DEF WorkFrame, Working
  <2> QED BY <2>1, <2>2 DEF Same
<1>2. ASSUME RecoveryStep, ~RunEnds PROVE FALSE
  BY <1>2, RunFrames DEF Resume
<1>3. ASSUME NEW s \in Server, UseWorkspace(s) \/ Crash(s) \/ Unhandled(s) PROVE FALSE
  BY <1>3 DEF UseWorkspace, Crash, Unhandled, Dies, memory
<1>4. ASSUME NEW p \in Path, NEW e \in Ext, ExternalChange(p, e) PROVE FALSE
  BY <1>4 DEF ExternalChange, memory
<1>5. ASSUME UNCHANGED vars PROVE FALSE BY <1>5 DEF vars, memory
<1> QED BY <1>1, <1>2, <1>3, <1>4, <1>5 DEF Next

\* Only installs, rollbacks, restores and other programs write files.
LEMMA OnlyWriters ==
    ASSUME AllOK, [Next]_vars, target' # target
    PROVE  (\E t \in Tx : Writes(t)) \/ (\E p \in Path : RestoreFile(p)) \/ spent' # spent
<1>0. TypeOK BY DEF AllOK
<1>1. ASSUME NEW u \in Tx, EnsureReady(u) \/ EngineStep(u) \/ CallerStep(u) \/ Failure(u)
      PROVE  Writes(u)
  BY <1>0, <1>1, Requests, WorkFrames, DecisionFrames
<1>2. CASE RecoveryStep BY <1>2, RunFrames
<1>3. ASSUME NEW s \in Server, UseWorkspace(s) \/ Crash(s) \/ Unhandled(s) PROVE FALSE
  BY <1>3 DEF UseWorkspace, Crash, Unhandled, Dies, disk
<1>4. ASSUME NEW p \in Path, NEW e \in Ext, ExternalChange(p, e) PROVE spent' # spent
  BY <1>4 DEF ExternalChange
<1>5. ASSUME UNCHANGED vars PROVE FALSE BY <1>5 DEF vars, disk
<1> QED BY <1>1, <1>2, <1>3, <1>4, <1>5 DEF Next

(***************************************************************************)
(* Recovery runs before mutation access: a request that has waited for a   *)
(* recovery run goes on only when every transaction of the workspace is at *)
(* an end, whatever the run met and whichever server has died meanwhile.   *)
(***************************************************************************)
THEOREM Recovered == Spec => RecoveredBeforeMutation
<1> DEFINE A == \A t, u \in Tx : pc[t] = "waiting" /\ pc'[t] = "ready" =>
                    manifest'[u] \in {"none", "committed", "rolled_back"}
<1>1. ASSUME IInv, [Next]_vars PROVE A
  <2>0. AllOK BY <1>1, Parts
  <2> SUFFICES ASSUME NEW t \in Tx, NEW u \in Tx, pc[t] = "waiting", pc'[t] = "ready"
               PROVE  manifest'[u] \in {"none", "committed", "rolled_back"}
    OBVIOUS
  <2>1. rpc = "scan" /\ rpos > Len(log) /\ manifest' = manifest
    BY <1>1, <2>0, OnlyRunEnds DEF RunEnds, journal
  <2>2. rpos \in Nat /\ Len(log) \in Nat BY <2>0 DEF AllOK, TypeOK, RecoveryTypeOK, JournalTypeOK
  <2>3. \A i \in 1..Len(log) : manifest[log[i]] \in {"committed", "rolled_back"}
    BY <2>0, <2>1, <2>2 DEF AllOK, RunInv
  <2> QED BY <2>0, <2>1, <2>3 DEF AllOK, LogOK
<1>2. IInv /\ [Next]_vars => [A]_vars BY <1>1
<1> QED BY <1>2, Invariance, PTL DEF Spec, RecoveredBeforeMutation

(***************************************************************************)
(* Recovery only takes back what is its transaction's own: it changes a    *)
(* file only after it has found the transaction's version there, or none,  *)
(* and it puts back what the transaction found (or what another program    *)
(* has written into that file since).  What is lost is that version, or    *)
(* what another program has put there between the comparison and the       *)
(* change, which nothing prevents.                                         *)
(***************************************************************************)
THEOREM RestoresOnlyItsOwn == Spec => RecoveryRestoresOnlyItsOwn
<1> DEFINE A == \A p \in Path : rpc # "idle" /\ target'[p] # target[p] =>
                    \/ spent' # spent
                    \/ /\ rseen \in {current, Absent}
                       /\ target[p] \in {rseen, Absent} \union Ext
                       /\ target'[p] \in {before[current][p]} \union Ext
<1>1. ASSUME IInv, [Next]_vars PROVE A
  <2>0. AllOK BY <1>1, Parts
  <2> SUFFICES ASSUME NEW p \in Path, rpc # "idle", target'[p] # target[p], spent' = spent
               PROVE  /\ rseen \in {current, Absent}
                      /\ target[p] \in {rseen, Absent} \union Ext
                      /\ target'[p] \in {before[current][p]} \union Ext
    OBVIOUS
  <2>1. ASSUME NEW t \in Tx, Writes(t) PROVE FALSE
    <3>1. pc[t] \in Working
      BY <2>1 DEF Writes, InstallFile, UndoFile, UndoNext, Working
    <3> QED BY <2>0, <3>1 DEF AllOK, LockInv
  <2>2. PICK q \in Path : RestoreFile(q) BY <1>1, <2>0, <2>1, OnlyWriters
  <2>3. /\ rpc = "restoring" /\ q \in todo /\ Last(todo, q)
        /\ target' = [target EXCEPT ![q] =
              IF Kind[current][q] = "create" THEN Absent ELSE backup[current][q]]
    BY <2>2 DEF RestoreFile, Last
  <2>4. p = q /\ target'[q] = (IF Kind[current][q] = "create" THEN Absent ELSE backup[current][q])
    BY <2>0, <2>3 DEF AllOK, TypeOK, DiskTypeOK
  <2>5. RestoringOK(q) BY <2>0, <2>3 DEF AllOK, RunInv
  <2>6. Kind[current][q] = "create" => before[current][q] = Absent
    BY <2>0, <2>3, RunFacts DEF AllOK, FreshInv
  <2> QED BY <2>4, <2>5, <2>6 DEF RestoringOK
<1>2. IInv /\ [Next]_vars => [A]_vars BY <1>1
<1> QED BY <1>2, Invariance, PTL DEF Spec, RecoveryRestoresOnlyItsOwn

\* An install replaces what it was prepared from.
LEMMA InstallBuilds ==
    ASSUME AllOK, NEW u \in Tx, NEW p \in Path, InstallFile(u, p), Overwrites(p)
    PROVE  Builds(p)
<1>1. TxOK(u) /\ pc[u] = "installing" /\ p \in Targets(u) /\ op[u][p] = "checked"
  BY DEF AllOK, InstallFile
<1>2. target'[p] # target[p] /\ \E t \in Tx : target[p] = t BY DEF Overwrites
<1>3. target[p] = before[u][p]
  <2>1. target[p] \in {before[u][p], Absent} \union Ext BY <1>1 DEF TxOK, InstallOK, InState
  <2>2. target[p] \notin Ext /\ target[p] # Absent BY <1>2, TransactionAssumption DEF Written
  <2> QED BY <2>1, <2>2
<1>4. applied' = [applied EXCEPT ![u] = @ \union {p}]
  <2>1. target' # target BY <1>2
  <2> QED BY <2>1 DEF InstallFile
<1>5. p \in applied'[u] BY <1>4 DEF AllOK, TypeOK, HistoryTypeOK
<1>6. p \notin applied[u]
  <2>1. Torn(u) = {} BY <1>1 DEF TxOK, TornOK
  <2> QED BY <1>1, <2>1 DEF TxOK, OpOK, Working, InPlace
<1> QED BY <1>3, <1>5, <1>6 DEF Builds

(***************************************************************************)
(* No lost update among transactions: a file version written by a          *)
(* transaction whose caller was told so is replaced only by another        *)
(* program, or by a transaction that was prepared from that very version.  *)
(***************************************************************************)
THEOREM NothingLost == Spec => NoLostUpdate
<1> DEFINE A == \A p \in Path : Overwrites(p) => spent' # spent \/ Builds(p)
<1>1. ASSUME IInv, [Next]_vars PROVE A
  <2>0. AllOK BY <1>1, Parts
  <2> SUFFICES ASSUME NEW p \in Path, Overwrites(p), spent' = spent PROVE Builds(p) OBVIOUS
  <2>1. target'[p] # target[p] /\ target' # target BY DEF Overwrites
  <2>2. PICK t \in Tx : pc[t] = "done" /\ target[p] = t BY DEF Overwrites
  <2>3. target[p] # Absent BY <2>2, TransactionAssumption DEF Written
  <2>4. (\E u \in Tx : Writes(u)) \/ (\E q \in Path : RestoreFile(q)) BY <1>1, <2>0, <2>1, OnlyWriters
  <2>5. ASSUME NEW u \in Tx, NEW q \in Path, InstallFile(u, q) PROVE Builds(p)
    <3>1. q = p BY <2>0, <2>1, <2>5 DEF InstallFile, AllOK, TypeOK, DiskTypeOK
    <3> QED BY <2>0, <2>5, <3>1, InstallBuilds
  <2>6. ASSUME NEW u \in Tx, NEW q \in Path, UndoFile(u, q) PROVE Builds(p)
    <3>1. /\ pc[u] = "rolling" /\ q \in Targets(u) /\ op[u][q] = "undoing"
          /\ target' = [target EXCEPT ![q] = IF Kind[u][q] = "create" THEN Absent ELSE backup[u][q]]
      BY <2>6 DEF UndoFile, UndoNext, Last, Pending, Prepared, InState
    <3>2. q = p BY <2>0, <2>1, <3>1 DEF AllOK, TypeOK, DiskTypeOK
    <3>3. target[q] \in {After(u, q), Absent} \union Ext
      BY <2>0, <3>1 DEF AllOK, TxOK, OpOK, Working
    <3>4. u = t BY <2>2, <2>3, <3>2, <3>3, TransactionAssumption DEF After, Written
    <3> QED BY <2>2, <3>1, <3>4
  <2>7. ASSUME NEW q \in Path, RestoreFile(q) PROVE Builds(p)
    <3>1. rpc = "restoring" /\ q \in todo /\ Last(todo, q) BY <2>7 DEF RestoreFile, Last
    <3>2. q = p BY <2>0, <2>1, <2>7 DEF RestoreFile, AllOK, TypeOK, DiskTypeOK
    <3>3. RestoringOK(q) BY <2>0, <3>1 DEF AllOK, RunInv
    <3>4. target[q] \in {current, Absent} \union Ext BY <3>3 DEF RestoringOK
    <3>5. t = current BY <2>2, <2>3, <3>2, <3>4, TransactionAssumption DEF Written
    <3>6. manifest[current] = "rolling_back" /\ (pc[current] = "done" => manifest[current] = "committed")
      BY <2>0, <3>1, RunFacts DEF RunOK, RunAt
    <3> QED BY <2>2, <3>5, <3>6
  <2> QED BY <2>4, <2>5, <2>6, <2>7 DEF Writes
<1>2. IInv /\ [Next]_vars => [A]_vars BY <1>1
<1> QED BY <1>2, Invariance, PTL DEF Spec, NoLostUpdate

----------------------------------------------------------------------------
(* The system keeps what TransactionOutcome promises.                      *)

effects == [t \in Tx |-> applied[t] \ Torn(t)]
told == [t \in Tx |-> CASE pc[t] = "done" -> "yes"
                        [] pc[t] = "aborted" -> "no"
                        [] OTHER -> "nothing"]
Refines == [Outcome!Next]_(<<outcome, effects, told>>)

\* A function that differs from another in one place.
LEMMA InOnePlace ==
    ASSUME NEW S, NEW f, NEW g, f = [x \in S |-> f[x]], g = [x \in S |-> g[x]],
           NEW a \in S, NEW v, g[a] = v, \A x \in S : x # a => g[x] = f[x]
    PROVE  g = [f EXCEPT ![a] = v]
OBVIOUS

\* What the mapping makes of a transaction.
LEMMA Mapped ==
    ASSUME NEW t \in Tx
    PROVE  /\ outcome[t] = IF manifest[t] = "none" THEN "none"
                           ELSE IF manifest[t] = "committed" THEN "committed"
                           ELSE IF manifest[t] = "rolled_back" THEN "void" ELSE "open"
           /\ effects[t] = applied[t] \ Torn(t)
           /\ told[t] = IF pc[t] = "done" THEN "yes" ELSE IF pc[t] = "aborted" THEN "no" ELSE "nothing"
BY DEF outcome, effects, told

LEMMA MappedNext ==
    ASSUME NEW t \in Tx
    PROVE  /\ outcome'[t] = IF manifest'[t] = "none" THEN "none"
                            ELSE IF manifest'[t] = "committed" THEN "committed"
                            ELSE IF manifest'[t] = "rolled_back" THEN "void" ELSE "open"
           /\ effects'[t] = applied'[t] \ Torn(t)'
           /\ told'[t] = IF pc'[t] = "done" THEN "yes" ELSE IF pc'[t] = "aborted" THEN "no" ELSE "nothing"
BY DEF outcome, effects, told, Torn

\* Nobody sees a difference.
Still(t) == outcome'[t] = outcome[t] /\ effects'[t] = effects[t] /\ told'[t] = told[t]

LEMMA StaysStill ==
    ASSUME NEW u \in Tx, manifest'[u] = manifest[u], applied'[u] = applied[u],
           \A p \in Path : <<u, p>> \in torn' <=> <<u, p>> \in torn,
           pc'[u] = pc[u] \/ (pc[u] \notin {"done", "aborted"} /\ pc'[u] \notin {"done", "aborted"})
    PROVE  Still(u)
<1>1. Torn(u)' = Torn(u) BY DEF Torn
<1> QED BY <1>1, Mapped, MappedNext DEF Still

\* What may be seen of a transaction.
Seen(t) ==
    \/ Still(t)
    \/ outcome[t] = "none" /\ outcome'[t] = "open" /\ effects'[t] = effects[t] /\ told'[t] = told[t]
    \/ outcome[t] = "open" /\ outcome'[t] = "open" /\ told'[t] = told[t]
    \/ /\ outcome[t] = "open" /\ outcome'[t] = "committed" /\ effects[t] = Targets(t)
       /\ effects'[t] = effects[t] /\ told'[t] = told[t]
    \/ /\ outcome[t] = "open" /\ outcome'[t] = "void" /\ effects[t] = {}
       /\ effects'[t] = effects[t] /\ told'[t] \in {told[t], "no"}
    \/ /\ outcome[t] \in {"committed", "void"} /\ outcome'[t] = "open" /\ told[t] # "yes"
       /\ effects'[t] = effects[t] /\ told'[t] = told[t]
    \/ /\ outcome[t] = "committed" /\ outcome'[t] = "committed" /\ effects'[t] = effects[t]
       /\ told[t] = "nothing" /\ told'[t] = "yes"

\* One transaction moves at a time, and as promised.
LEMMA OneMoves ==
    ASSUME TypeOK', NEW t \in Tx, \A u \in Tx : u # t => Still(u), Seen(t)
    PROVE  Refines
<1>1. /\ outcome = [x \in Tx |-> outcome[x]] /\ outcome' = [x \in Tx |-> outcome'[x]]
      /\ effects = [x \in Tx |-> effects[x]] /\ effects' = [x \in Tx |-> effects'[x]]
      /\ told = [x \in Tx |-> told[x]] /\ told' = [x \in Tx |-> told'[x]]
  BY DEF outcome, effects, told
<1>2. /\ outcome' = [outcome EXCEPT ![t] = outcome'[t]]
      /\ effects' = [effects EXCEPT ![t] = effects'[t]]
      /\ told' = [told EXCEPT ![t] = told'[t]]
  BY <1>1, InOnePlace DEF Still
<1>3. /\ outcome'[t] = outcome[t] => outcome' = outcome
      /\ effects'[t] = effects[t] => effects' = effects
      /\ told'[t] = told[t] => told' = told
  BY <1>1 DEF Still
<1>4. effects'[t] \in SUBSET Path BY MappedNext DEF TypeOK, HistoryTypeOK
<1> HIDE DEF outcome, effects, told
<1>5. CASE Still(t) BY <1>3, <1>5 DEF Still, Refines
<1>6. CASE outcome[t] = "none" /\ outcome'[t] = "open" /\ effects'[t] = effects[t] /\ told'[t] = told[t]
  <2>1. Outcome!Open(t) BY <1>2, <1>3, <1>6 DEF Outcome!Open, Outcome!Become, effects, told
  <2> QED BY <2>1 DEF Refines, Outcome!Next
<1>7. CASE outcome[t] = "open" /\ outcome'[t] = "open" /\ told'[t] = told[t]
  <2>1. PICK S \in SUBSET Path : S = effects'[t] BY <1>4
  <2>2. Outcome!Change(t, S) BY <1>2, <1>3, <1>7, <2>1 DEF Outcome!Change, effects, told
  <2> QED BY <2>2 DEF Refines, Outcome!Next
<1>8. CASE /\ outcome[t] = "open" /\ outcome'[t] = "committed" /\ effects[t] = Targets(t)
           /\ effects'[t] = effects[t] /\ told'[t] = told[t]
  <2>1. Outcome!Commit(t) BY <1>2, <1>3, <1>8 DEF Outcome!Commit, Outcome!Become, effects, told
  <2> QED BY <2>1 DEF Refines, Outcome!Next
<1>9. CASE /\ outcome[t] = "open" /\ outcome'[t] = "void" /\ effects[t] = {}
           /\ effects'[t] = effects[t] /\ told'[t] \in {told[t], "no"}
  <2>1. Outcome!Void(t) BY <1>2, <1>3, <1>9 DEF Outcome!Void, Outcome!Become, Outcome!Tell, effects, told
  <2> QED BY <2>1 DEF Refines, Outcome!Next
<1>10. CASE /\ outcome[t] \in {"committed", "void"} /\ outcome'[t] = "open" /\ told[t] # "yes"
            /\ effects'[t] = effects[t] /\ told'[t] = told[t]
  <2>1. Outcome!Reopen(t) BY <1>2, <1>3, <1>10 DEF Outcome!Reopen, Outcome!Become, effects, told
  <2> QED BY <2>1 DEF Refines, Outcome!Next
<1>11. CASE /\ outcome[t] = "committed" /\ outcome'[t] = "committed" /\ effects'[t] = effects[t]
            /\ told[t] = "nothing" /\ told'[t] = "yes"
  <2>1. Outcome!Acknowledge(t) BY <1>2, <1>3, <1>11 DEF Outcome!Acknowledge, Outcome!Tell, effects, told
  <2> QED BY <2>1 DEF Refines, Outcome!Next
<1> QED BY <1>5, <1>6, <1>7, <1>8, <1>9, <1>10, <1>11 DEF Seen

LEMMA AllStill ==
    ASSUME \A u \in Tx : Still(u)
    PROVE  Refines
<1>1. /\ outcome = [x \in Tx |-> outcome[x]] /\ outcome' = [x \in Tx |-> outcome'[x]]
      /\ effects = [x \in Tx |-> effects[x]] /\ effects' = [x \in Tx |-> effects'[x]]
      /\ told = [x \in Tx |-> told[x]] /\ told' = [x \in Tx |-> told'[x]]
  BY DEF outcome, effects, told
<1> QED BY <1>1 DEF Still, Refines

LEMMA OthersStill ==
    ASSUME NEW u \in Tx, Same(u)
    PROVE  Still(u)
BY StaysStill DEF Same

\* A request's steps, as they are seen.
LEMMA WorkSeen ==
    ASSUME AllOK, AllOK', NEW t \in Tx, WorkStep(t)
    PROVE  Refines
<1>0. TypeOK /\ TypeOK' /\ TxOK(t) /\ TxOK(t)' BY DEF AllOK
<1>1. WorkFrame(t) BY <1>0, WorkFrames
<1>2. manifest[t] \in Undecided BY <1>0, <1>1 DEF WorkFrame, Working, TxOK, ManifestAt, Undecided
<1>3. manifest'[t] \in Undecided
  <2>1. manifest'[t] \in Undecided \union {"none"}
    BY <1>0, <1>1 DEF WorkFrame, Working, TxOK, ManifestAt, Undecided
  <2>2. PICK i \in 1..Len(log) : log[i] = t BY <1>2 DEF AllOK, LogOK, Undecided
  <2>3. log' = log BY <1>0, WorkFrames DEF WorkFrame
  <2>4. manifest'[log'[i]] # "none" BY <2>2, <2>3 DEF AllOK, LogOK
  <2> QED BY <2>1, <2>2, <2>3, <2>4
<1>4. Seen(t) BY <1>1, <1>2, <1>3, Mapped, MappedNext DEF Seen, WorkFrame, Working, Undecided
<1>5. \A u \in Tx : u # t => Still(u) BY <1>1, OthersStill DEF WorkFrame
<1> QED BY <1>0, <1>4, <1>5, OneMoves

LEMMA DecisionSeen ==
    ASSUME AllOK, AllOK', NEW t \in Tx,
           \/ EnsureReady(t) \/ Inspect(t) \/ Acquire(t) \/ Finalize(t) \/ Acknowledge(t) \/ FinishRollback(t)
           \/ \E p \in Path : CleanUp(t, p)
    PROVE  Refines
<1>0. TypeOK /\ TypeOK' /\ TxOK(t) /\ TxOK(t)' BY DEF AllOK
<1>1. \A u \in Tx : u # t => Still(u) BY <1>0, DecisionFrames, OthersStill
<1> SUFFICES Seen(t) BY <1>0, <1>1, OneMoves
<1>2. CASE EnsureReady(t) \/ Inspect(t)
  <2>1. /\ manifest' = manifest /\ applied' = applied /\ torn' = torn
        /\ pc[t] \notin {"done", "aborted"}
    BY <1>2 DEF EnsureReady, Inspect, journal, history
  <2>2. \E s \in {"waiting", "ready", "refused", "inspected"} : Become(t, s)
    <3>1. CASE EnsureReady(t)
      <4>1. Become(t, "refused") \/ Become(t, IF rby = Home[t] THEN "waiting" ELSE "ready")
              \/ Become(t, "ready") \/ Become(t, "waiting")
        BY <3>1, Zenon DEF EnsureReady
      <4>2. CASE Become(t, IF rby = Home[t] THEN "waiting" ELSE "ready")
        <5>1. CASE rby = Home[t] BY <4>2, <5>1
        <5>2. CASE rby # Home[t] BY <4>2, <5>2
        <5> QED BY <5>1, <5>2
      <4> QED BY <4>1, <4>2
    <3>2. CASE Inspect(t)
      <4>1. Become(t, "inspected") \/ Become(t, "refused") BY <3>2, Zenon DEF Inspect
      <4> QED BY <4>1
    <3> QED BY <1>2, <3>1, <3>2
  <2>3. pc'[t] \notin {"done", "aborted"} BY <1>0, <2>2, BecomeIs
  <2> QED BY <2>1, <2>3, StaysStill DEF Seen
<1>3. CASE Acquire(t)
  <2>1. pc[t] = "inspected" /\ UNCHANGED <<applied, torn>> BY <1>3 DEF Acquire
  <2>2. manifest[t] = "none" BY <1>0, <2>1 DEF TxOK, ManifestAt
  <2>3. \/ Become(t, "refused") /\ manifest' = manifest
        \/ Become(t, "abandoned") /\ manifest' = manifest
        \/ Become(t, "staging") /\ Transition(t, "preparing")
    BY <1>3, Zenon DEF Acquire
  <2>4. CASE Become(t, "staging") /\ Transition(t, "preparing")
    <3>1. pc'[t] = "staging" /\ manifest'[t] = "preparing" BY <1>0, <2>4, BecomeIs, TransitionIs
    <3>2. Torn(t)' = Torn(t) BY <2>1 DEF Torn
    <3> QED BY <2>1, <2>2, <3>1, <3>2, Mapped, MappedNext DEF Seen
  <2>5. CASE (Become(t, "refused") \/ Become(t, "abandoned")) /\ manifest' = manifest
    <3>1. pc'[t] \in {"refused", "abandoned"} BY <1>0, <2>5, BecomeIs
    <3> QED BY <2>1, <2>5, <3>1, StaysStill DEF Seen
  <2> QED BY <2>3, <2>4, <2>5
<1>4. CASE Finalize(t)
  <2>1. /\ pc[t] = "participants" /\ UNCHANGED <<applied, torn>>
        /\ Transition(t, "committed") /\ Become(t, "cleaning")
    BY <1>4 DEF Finalize
  <2>2. manifest[t] = "committed_pending_participants" BY <1>0, <2>1 DEF TxOK, ManifestAt
  <2>3. pc'[t] = "cleaning" /\ manifest'[t] = "committed" BY <1>0, <2>1, BecomeIs, TransitionIs
  <2>4. Torn(t)' = Torn(t) /\ Torn(t) = {} BY <1>0, <2>1, <2>2 DEF Torn, TxOK, TornOK
  <2>5. applied[t] = Targets(t) BY <1>0, <2>2 DEF TxOK, WholeOK
  <2> QED BY <2>1, <2>2, <2>3, <2>4, <2>5, Mapped, MappedNext DEF Seen
<1>5. CASE Acknowledge(t)
  <2>1. pc[t] = "cleaning" /\ UNCHANGED <<manifest, applied, torn>> /\ Become(t, "done")
    BY <1>5 DEF Acknowledge, journal, history
  <2>2. manifest[t] = "committed" BY <1>0, <2>1 DEF TxOK, ManifestAt
  <2>3. pc'[t] = "done" BY <1>0, <2>1, BecomeIs
  <2>4. Torn(t)' = Torn(t) BY <2>1 DEF Torn
  <2> QED BY <2>1, <2>2, <2>3, <2>4, Mapped, MappedNext DEF Seen
<1>6. CASE FinishRollback(t)
  <2>1. /\ pc[t] = "rolling" /\ UNCHANGED <<applied, torn>>
        /\ Transition(t, "rolled_back") /\ Become(t, "aborted")
    BY <1>6 DEF FinishRollback, AllUndone, history
  <2>2. manifest[t] = "rolling_back" BY <1>0, <2>1 DEF TxOK, ManifestAt
  <2>3. pc'[t] = "aborted" /\ manifest'[t] = "rolled_back" BY <1>0, <2>1, BecomeIs, TransitionIs
  <2>4. Torn(t)' = Torn(t) BY <2>1 DEF Torn
  <2>5. applied[t] \ Torn(t) = {} BY <1>0, <2>1, <2>3, <2>4 DEF TxOK, WholeOK
  <2> QED BY <2>1, <2>2, <2>3, <2>4, <2>5, Mapped, MappedNext DEF Seen
<1>7. ASSUME NEW p \in Path, CleanUp(t, p) PROVE Seen(t)
  BY <1>7, StaysStill DEF CleanUp, Seen
<1> QED BY <1>2, <1>3, <1>4, <1>5, <1>6, <1>7

\* A run's steps, as they are seen.
LEMMA RunSeen ==
    ASSUME AllOK, AllOK', RecoveryStep
    PROVE  Refines
<1>0. TypeOK /\ TypeOK' BY DEF AllOK
<1>1. CASE RunEnds \/ RecordRecovery
  <2>1. UNCHANGED <<manifest, applied, torn>> /\ (pc' = pc \/ Resume("ready"))
    BY <1>1 DEF RunEnds, RecordRecovery, journal, history, memory
  <2>2. \A u \in Tx : Still(u) BY <2>1, StaysStill DEF Resume
  <2> QED BY <2>2, AllStill
<1>2. CASE \/ Choose \/ Verify \/ RemoveDirectory \/ Rechecked \/ Cleaned
           \/ (Reconcile /\ manifest' = manifest)
           \/ \E p \in Path : DropStage(p) \/ DropBackup(p) \/ Recheck(p) \/ CleanCommitted(p)
  <2>1. UNCHANGED <<manifest, applied>> /\ Elsewhere
    BY <1>2 DEF Choose, Verify, RemoveDirectory, Rechecked, Cleaned, Reconcile, DropStage, DropBackup,
                Recheck, CleanCommitted
  <2>2. \A u \in Tx : Still(u) BY <2>1, ElsewhereIs, StaysStill
  <2> QED BY <2>2, AllStill
<1>3. CASE \/ Reconcile /\ manifest' # manifest
           \/ BeginRestore \/ Persist \/ \E p \in Path : RestoreTarget(p) \/ RestoreFile(p)
  <2>1. rpc \in {"reconcile", "decided", "persist", "restore", "restoring"} /\ Elsewhere
    BY <1>3 DEF Reconcile, BeginRestore, Persist, RestoreTarget, RestoreFile
  <2>2. PICK c \in Tx : c = current BY <2>1, RunFacts
  <2>3. /\ RunOK /\ pc[c] \in {"done", "aborted", "dead"} /\ (pc[c] = "done" => manifest[c] = "committed")
        /\ manifest[c] = "committed_pending_participants" => applied[c] = Targets(c) /\ Torn(c) = {}
    BY <2>1, <2>2, RunFacts
  <2>4. UNCHANGED <<pc, torn>> BY <2>1, ElsewhereIs
  <2>5. Torn(c)' = Torn(c) BY <2>4 DEF Torn
  <2>6. /\ UNCHANGED manifest \/ \E s : Transition(c, s)
        /\ UNCHANGED applied \/ \E p \in Path : applied' = [applied EXCEPT ![c] = @ \ {p}]
    BY <1>3, <2>2 DEF Reconcile, BeginRestore, Persist, RestoreTarget, RestoreFile
  <2>7. ASSUME NEW u \in Tx, u # c PROVE Still(u)
    <3>1. manifest'[u] = manifest[u] BY <1>0, <2>6, <2>7, TransitionIs
    <3>2. applied'[u] = applied[u] BY <1>0, <2>6, <2>7 DEF TypeOK, HistoryTypeOK
    <3> QED BY <2>4, <3>1, <3>2, StaysStill
  <2>8. manifest[c] \in Undecided BY <2>1, <2>2, <2>3 DEF RunOK, RunAt, Undecided
  <2>9. Seen(c)
    <3>1. CASE Reconcile /\ manifest' # manifest
      <4>1. Transition(c, "committed") /\ applied' = applied BY <2>2, <3>1 DEF Reconcile
      <4>2. manifest[c] = "committed_pending_participants" BY <2>2, <2>3, <3>1 DEF Reconcile, RunOK, RunAt
      <4>3. manifest'[c] = "committed" BY <1>0, <4>1, TransitionIs
      <4> QED BY <2>3, <2>4, <2>5, <4>1, <4>2, <4>3, Mapped, MappedNext DEF Seen
    <3>2. CASE BeginRestore
      <4>1. manifest'[c] = "rolling_back" BY <1>0, <2>2, <3>2, TransitionIs DEF BeginRestore
      <4> QED BY <2>4, <2>8, <4>1, Mapped, MappedNext DEF Seen, Undecided
    <3>3. CASE Persist
      <4>1. manifest'[c] = "rolled_back" BY <1>0, <2>2, <3>3, TransitionIs DEF Persist
      <4>2. applied' = applied /\ applied[c] \subseteq Torn(c) BY <2>2, <2>3, <3>3 DEF Persist, RunOK
      <4>3. effects[c] = {} /\ effects'[c] = {} BY <2>5, <4>2, Mapped, MappedNext
      <4>4. outcome[c] = "open" /\ outcome'[c] = "void" BY <2>8, <4>1, Mapped, MappedNext DEF Undecided
      <4>5. told'[c] = told[c] BY <2>4, Mapped, MappedNext
      <4> QED BY <4>3, <4>4, <4>5 DEF Seen
    <3>4. CASE \E p \in Path : RestoreTarget(p) \/ RestoreFile(p)
      <4>1. manifest' = manifest BY <3>4 DEF RestoreTarget, RestoreFile
      <4> QED BY <2>4, <2>8, <4>1, Mapped, MappedNext DEF Seen, Undecided
    <3> QED BY <1>3, <3>1, <3>2, <3>3, <3>4
  <2> QED BY <1>0, <2>7, <2>9, OneMoves
<1>4. CASE RecoveryFails
  <2>1. /\ rpc \notin {"idle", "scan"} /\ UNCHANGED <<applied, torn>> /\ Resume("refused")
        /\ (rfrom # "committed" /\ Transition(current, "recovery_required")) \/ UNCHANGED manifest
    BY <1>4 DEF RecoveryFails, Blocked, Overwritten
  <2>2. PICK c \in Tx : c = current BY <2>1, RunFacts
  <2>3. RunOK /\ pc[c] \in {"done", "aborted", "dead"} /\ manifest[c] # "none" BY <2>1, <2>2, RunFacts
  <2>4. \A u \in Tx : manifest'[u] = manifest[u] => Still(u) BY <2>1, StaysStill DEF Resume
  <2>5. CASE UNCHANGED manifest BY <2>4, <2>5, AllStill
  <2>6. CASE rfrom # "committed" /\ Transition(c, "recovery_required")
    <3>1. manifest'[c] = "recovery_required" /\ \A u \in Tx : u # c => manifest'[u] = manifest[u]
      BY <1>0, <2>6, TransitionIs
    <3>2. pc[c] # "done" /\ pc'[c] = pc[c] BY <2>1, <2>2, <2>3, <2>6 DEF RunOK, Resume
    <3>3. Torn(c)' = Torn(c) BY <2>1 DEF Torn
    <3>4. Seen(c) BY <2>1, <2>3, <3>1, <3>2, <3>3, Mapped, MappedNext DEF Seen
    <3> QED BY <1>0, <2>4, <3>1, <3>4, OneMoves
  <2> QED BY <2>1, <2>2, <2>5, <2>6
<1> QED BY <1>1, <1>2, <1>3, <1>4, Zenon DEF RecoveryStep

LEMMA NextRefines ==
    ASSUME AllOK, AllOK', [Next]_vars
    PROVE  Refines
<1>1. ASSUME NEW t \in Tx, EnsureReady(t) \/ EngineStep(t) \/ CallerStep(t) \/ Failure(t) PROVE Refines
  BY <1>1, Requests, WorkSeen, DecisionSeen
<1>2. CASE RecoveryStep BY <1>2, RunSeen
<1>3. ASSUME NEW s \in Server, UseWorkspace(s) \/ Crash(s) \/ Unhandled(s) PROVE Refines
  <2>1. UNCHANGED <<manifest, applied, torn>>
    BY <1>3 DEF UseWorkspace, Crash, Unhandled, Dies, journal, history
  <2>2. ASSUME NEW u \in Tx PROVE pc'[u] = pc[u] \/ (pc[u] \notin {"done", "aborted"} /\ pc'[u] \notin {"done", "aborted"})
    BY <1>3 DEF UseWorkspace, Crash, Unhandled, Dies, memory, Terminal
  <2>3. \A u \in Tx : Still(u) BY <2>1, <2>2, StaysStill
  <2> QED BY <2>3, AllStill
<1>4. ASSUME (\E p \in Path, e \in Ext : ExternalChange(p, e)) \/ UNCHANGED vars PROVE Refines
  <2>1. UNCHANGED <<manifest, applied, torn, pc>>
    BY <1>4 DEF ExternalChange, vars, journal, memory, history
  <2>2. \A u \in Tx : Still(u) BY <2>1, StaysStill
  <2> QED BY <2>2, AllStill
<1> QED BY <1>1, <1>2, <1>3, <1>4 DEF Next

LEMMA InitRefines == Init => Outcome!Init
<1> SUFFICES ASSUME Init PROVE Outcome!Init OBVIOUS
<1>1. \A t \in Tx : applied[t] \ Torn(t) = {} /\ manifest[t] = "none" /\ pc[t] = "idle"
  BY DEF Init
<1>2. outcome = [t \in Tx |-> "none"] BY <1>1 DEF outcome
<1>3. [t \in Tx |-> applied[t] \ Torn(t)] = [t \in Tx |-> {}] BY <1>1
<1>4. told = [t \in Tx |-> "nothing"] BY <1>1 DEF told
<1> QED BY <1>2, <1>3, <1>4 DEF Outcome!Init, told

(***************************************************************************)
(* The engine, its recovery, crashes and editors together keep what        *)
(* TransactionOutcome promises a caller: the visible effects of a          *)
(* transaction come and go only while its outcome is open, it is committed *)
(* with all of them or void with none, and a commit the caller was told of *)
(* is final.                                                               *)
(***************************************************************************)
THEOREM Implementation == Spec => KeepsItsPromise
<1>1. Init => Outcome!Init BY InitRefines
<1>2. ASSUME IInv, IInv', [Next]_vars PROVE Refines
  <2>1. AllOK BY <1>2, Parts
  <2>2. AllOK' BY <2>1, <1>2, NextKeeps
  <2> QED BY <1>2, <2>1, <2>2, NextRefines
<1>3. IInv /\ IInv' /\ [Next]_vars => Refines BY <1>2
<1> QED BY <1>1, <1>3, Invariance, PTL DEF Spec, KeepsItsPromise, Outcome!Spec, Refines, effects, told

=============================================================================
