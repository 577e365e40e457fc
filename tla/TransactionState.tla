-------------------------- MODULE TransactionState --------------------------
(***************************************************************************)
(* What the transaction engine, the recovery coordinator and the world     *)
(* share: the files of one workspace, the durable transaction manifests,   *)
(* and the memory of the server processes that work on it.                 *)
(*                                                                         *)
(* Source: src/src/transactions/{types,atomicFs,atomicStateFile}.ts.       *)
(*                                                                         *)
(* A file is abstracted to its version: who wrote its bytes.  Two files    *)
(* have the same version exactly when the code's size, SHA-256 and         *)
(* identity (device, inode, mtime) comparisons take them for the same.     *)
(***************************************************************************)
EXTENDS Naturals, Sequences, FiniteSets

CONSTANTS
    Path,        \* the paths, numbered in comparisonKey order
    InDir,       \* the paths below the one directory that may be missing
    Tx,          \* transaction requests
    Kind,        \* Kind[t][p]: what t asks of p, or "none"
    Server,      \* the server processes that may have the workspace open
    Home,        \* Home[t]: the server that receives request t
    Part,        \* the required participants, numbered in commit order
    Unprobeable, \* participants whose effect recovery cannot probe
    Ext,         \* versions written by programs outside the lock
    Original,    \* the version of a file at the start
    Absent,      \* no file
    MaxCrash,    \* bound on crashes of server processes
    MaxFault     \* bound on failing calls (I/O errors, refused guards)

Written == Tx \union Ext \union {Original}
Version == Written \union {Absent}

ASSUME TransactionAssumption ==
    /\ Path \subseteq Nat /\ IsFiniteSet(Path)
    /\ InDir \subseteq Path
    /\ Kind \in [Tx -> [Path -> {"none", "create", "replace", "delete"}]]
    /\ Home \in [Tx -> Server]
    /\ Part \subseteq Nat
    /\ Unprobeable \subseteq Part
    /\ Tx \intersect Ext = {} /\ Original \notin Tx \union Ext
    /\ Absent \notin Written
    /\ MaxCrash \in Nat /\ MaxFault \in Nat

VARIABLES
    \* the workspace on disk
    target,    \* the version at each path
    stage,     \* stage[t][p]: the version of t's .stage file for p
    backup,    \* backup[t][p]: the version of its .backup file
    dir,       \* whether the directory of InDir exists
    \* the state root on disk
    manifest,  \* manifest[t]: the state in t's manifest
    before,    \* the operations' before facts
    recorded,  \* the operations whose artifact names the manifest carries
    made,      \* whether createdDirectories names the directory
    facts,     \* participantFacts
    effect,    \* the participants whose effect is durable
    log,       \* the transactions in createdAt order of their manifests
    \* the memory of the server processes
    pc,        \* where each request is
    op,        \* op[t][p]: the in-memory state of an operation
    need,      \* whether t found the directory missing when it staged
    holder,    \* the requests that hold the workspace lock
    frozen,    \* the servers whose frozen map has this workspace
    rpc, rby, rpos, rfrom, rseen, todo,  \* the recovery run, see TransactionRecovery
    \* bounds and history
    crashes, faults, spent,
    applied,   \* applied[t]: visible steps t has taken and not undone
    torn,      \* installs whose readback failed after the visible step
    decided    \* transactions whose manifest has once said "committed"

disk     == <<target, stage, backup, dir>>
journal  == <<manifest, before, recorded, made, facts, effect, log>>
memory   == <<pc, op, need, holder, frozen>>
recovery == <<rpc, rby, rpos, rfrom, rseen, todo>>
history  == <<crashes, faults, spent, applied, torn, decided>>
vars     == <<disk, journal, memory, recovery, history>>

----------------------------------------------------------------------------
ManifestState == {"none", "preparing", "prepared", "committing",
    "committed_pending_participants", "committed", "rolling_back",
    "rolled_back", "recovery_required"}

OpState == {"planned", "inspected", "staged", "recorded", "checked",
            "visible", "installed", "undoing", "undone", "finalized"}

Terminal == {"done", "aborted", "refused", "dead"}
Phase == Terminal \union
    {"idle", "waiting", "ready", "inspected", "staging", "prepared",
     "directories", "recordDirectory", "installing", "participants",
     "cleaning", "rollback", "rolling", "retained", "abandoned"}

RecoveryPhase == {"idle", "scan", "reconcile", "decided", "restore",
    "restoring", "dropStage", "dropBackup", "remove", "persist", "recheck",
    "cleanup", "record"}

Targets(t) == {p \in Path : Kind[t][p] # "none"}

\* The version an operation leaves at its path.
After(t, p) == IF Kind[t][p] = "delete" THEN Absent ELSE t

First(S, p) == p \in S /\ \A q \in S : p <= q
Last(S, p)  == p \in S /\ \A q \in S : q <= p

\* lstat reports nlink = 1: no artifact is a second name of the file.
SingleLink(p) ==
    \A t \in Tx : target[p] \notin {stage[t][p], backup[t][p]}

\* AtomicWorkspaceFs.inspect, with the checks operationWithPlannedFacts and
\* the stage functions make of what it returns.
Inspectable(t, p) ==
    IF Kind[t][p] = "create"
      THEN target[p] = Absent
      ELSE target[p] # Absent /\ SingleLink(p)

\* assertCurrentMatches: the file is still the one that was inspected.
AnyTarget(t, p) == TRUE  \* mutant
CurrentMatches(t, p) == target[p] = before[t][p]

\* Nobody in the workspace holds its lock.
NoRequestWorks == holder = {}  \* mutant
LockFree == holder = {} /\ rpc = "idle"

Become(t, phase) == pc' = [pc EXCEPT ![t] = phase]
Transition(t, state) == manifest' = [manifest EXCEPT ![t] = state]
SetStage(t, p, version) == stage' = [stage EXCEPT ![t][p] = version]
SetBackup(t, p, version) == backup' = [backup EXCEPT ![t][p] = version]
SetFact(t, i, fact) == facts' = [facts EXCEPT ![t][i] = fact]
SetOp(t, p, state) == op' = [op EXCEPT ![t][p] = state]
InState(t, states) == {p \in Targets(t) : op[t][p] \in states}

DiskTypeOK ==
    /\ target \in [Path -> Version]
    /\ stage \in [Tx -> [Path -> Version]]
    /\ backup \in [Tx -> [Path -> Version]]
    /\ dir \in BOOLEAN

JournalTypeOK ==
    /\ manifest \in [Tx -> ManifestState]
    /\ before \in [Tx -> [Path -> Version]]
    /\ recorded \in [Tx -> SUBSET Path]
    /\ made \in [Tx -> BOOLEAN]
    /\ facts \in [Tx -> [Part -> {"pending", "committed", "failed"}]]
    /\ effect \in [Tx -> SUBSET Part]
    /\ log \in Seq(Tx)

MemoryTypeOK ==
    /\ pc \in [Tx -> Phase]
    /\ op \in [Tx -> [Path -> OpState]]
    /\ need \in [Tx -> BOOLEAN]
    /\ holder \in SUBSET Tx
    /\ frozen \in SUBSET Server

RecoveryTypeOK ==
    /\ rpc \in RecoveryPhase
    /\ rby \in Server
    /\ rpos \in Nat \ {0}
    /\ rpc \in {"idle", "scan"} \/ rpos \in 1..Len(log)
    /\ rfrom \in ManifestState
    /\ rseen \in Version
    /\ todo \in SUBSET Path

HistoryTypeOK ==
    /\ crashes \in 0..MaxCrash
    /\ faults \in 0..MaxFault
    /\ spent \in SUBSET Ext
    /\ applied \in [Tx -> SUBSET Path]
    /\ torn \in SUBSET (Tx \X Path)
    /\ decided \in SUBSET Tx

TypeOK == /\ DiskTypeOK /\ JournalTypeOK /\ MemoryTypeOK
          /\ RecoveryTypeOK /\ HistoryTypeOK

Init ==
    /\ target \in [Path -> {Original, Absent}]
    /\ dir \in {TRUE} \union {\E p \in InDir : target[p] # Absent}
    /\ stage = [t \in Tx |-> [p \in Path |-> Absent]]
    /\ backup = [t \in Tx |-> [p \in Path |-> Absent]]
    /\ manifest = [t \in Tx |-> "none"]
    /\ before = [t \in Tx |-> [p \in Path |-> Absent]]
    /\ recorded = [t \in Tx |-> {}]
    /\ made = [t \in Tx |-> FALSE]
    /\ facts = [t \in Tx |-> [i \in Part |-> "pending"]]
    /\ effect = [t \in Tx |-> {}]
    /\ log = <<>>
    /\ pc = [t \in Tx |-> "idle"]
    /\ op = [t \in Tx |-> [p \in Path |-> "planned"]]
    /\ need = [t \in Tx |-> FALSE]
    /\ holder = {}
    /\ frozen = {}
    /\ rpc = "idle" /\ rby \in Server /\ rpos = 1 /\ rfrom = "none"
    /\ rseen = Absent /\ todo = {}
    /\ crashes = 0 /\ faults = 0 /\ spent = {}
    /\ applied = [t \in Tx |-> {}]
    /\ torn = {} /\ decided = {}
=============================================================================
