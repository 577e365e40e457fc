-------------------------- MODULE TransactionSystem -------------------------
(***************************************************************************)
(* The transaction engine and the recovery coordinator of every server on  *)
(* one workspace, together with crashes and with the programs that change  *)
(* the workspace outside the lock.                                         *)
(***************************************************************************)
EXTENDS AtomicTransaction, TransactionRecovery

\* A server process dies and a new one takes its place: its requests and its
\* run are gone, the lock it held is free, the files and manifests stay.
Dies(s) ==
    LET Lost(t) == Home[t] = s /\ pc[t] \notin Terminal \union {"idle"}
    IN  /\ pc' = [t \in Tx |-> IF Lost(t) THEN "dead" ELSE pc[t]]
        /\ op' = [t \in Tx |-> IF Lost(t) THEN [p \in Path |-> "planned"] ELSE op[t]]
        /\ holder' = {t \in holder : ~Lost(t)}
        /\ frozen' = frozen \ {s}
        /\ IF rby = s THEN RunOver ELSE UNCHANGED <<rpc, rpos, rfrom, rseen, todo>>
        /\ UNCHANGED <<disk, journal, need, rby, faults, spent, applied, torn, decided>>

Crash(s) == crashes < MaxCrash /\ crashes' = crashes + 1 /\ Dies(s)

\* Nobody awaits the promise of beforeWorkspaceUse: when it is rejected, by the
\* run that fails or at the next use of a frozen workspace, the server ends.
Unhandled(s) == s \in frozen /\ Dies(s) /\ UNCHANGED crashes

\* A write in place: every name of the file has the new bytes.
WriteInPlace(p, version, e) ==
    LET Now(v) == IF v = version THEN e ELSE v
        Names(artifact) == [t \in Tx |-> [artifact[t] EXCEPT ![p] = Now(@)]]
    IN  /\ target' = [target EXCEPT ![p] = Now(@)]
        /\ stage' = Names(stage)
        /\ backup' = Names(backup)

\* An editor puts a file in the place of another, deletes it, or writes it in
\* place: under its path, or through a handle from before it was replaced.
ExternalChange(p, e) ==
    /\ e \notin spent /\ spent' = spent \union {e}
    /\ \/ target' = [target EXCEPT ![p] = e] /\ dir' = (dir \/ p \in InDir)
          /\ UNCHANGED <<stage, backup>>
       \/ /\ target[p] # Absent
          /\ target' = [target EXCEPT ![p] = Absent]
          /\ UNCHANGED <<stage, backup, dir>>
       \/ /\ \E version \in ({target[p]} \union {backup[t][p] : t \in Tx}) \ {Absent} :
                WriteInPlace(p, version, e)
          /\ UNCHANGED dir
    /\ UNCHANGED <<journal, memory, recovery, crashes, faults, applied, torn, decided>>

Next ==
    \/ \E t \in Tx : EnsureReady(t) \/ EngineStep(t) \/ CallerStep(t) \/ Failure(t)
    \/ RecoveryStep
    \/ \E s \in Server : UseWorkspace(s) \/ Crash(s) \/ Unhandled(s)
    \/ \E p \in Path, e \in Ext : ExternalChange(p, e)

\* The process runs what it has been asked to run; nothing makes callers ask,
\* calls fail, processes crash or editors write.
Fairness == WF_vars(RecoveryStep) /\ \A t \in Tx : WF_vars(EngineStep(t))

Spec == Init /\ [][Next]_vars /\ Fairness

----------------------------------------------------------------------------
Undecided == {"preparing", "prepared", "committing", "rolling_back",
              "committed_pending_participants", "recovery_required"}
Torn(t) == {p \in Path : <<t, p>> \in torn}

(***************************************************************************)
(* "A visible mutation is never attempted until the durable journal        *)
(* describes how to restore the previous state": while a transaction may   *)
(* still be rolled back, every visible step it has taken is recorded, and  *)
(* the backup of what it replaced or deleted is on disk, with the bytes it *)
(* found or with what another program has written into that very file      *)
(* since.  Crashes and failed or repeated recoveries included; the         *)
(* exceptions are an install whose readback failed and a transaction       *)
(* recovery has once committed.                                            *)
(***************************************************************************)
EvidenceKept ==
    \A t \in Tx : manifest[t] \in Undecided /\ t \notin decided =>
        \A p \in applied[t] \ Torn(t) :
            /\ p \in recorded[t]
            /\ Kind[t][p] # "create" => backup[t][p] \in {before[t][p]} \union Ext

(***************************************************************************)
(* A transaction is all or nothing: a manifest that says committed, or     *)
(* that only the participants are missing, stands for every visible step,  *)
(* and one that says rolled_back for none (readback failures apart).       *)
(***************************************************************************)
AllOrNothing ==
    \A t \in Tx :
        /\ manifest[t] \in {"committed_pending_participants", "committed"}
               => applied[t] = Targets(t)
        /\ manifest[t] = "rolled_back" => applied[t] \subseteq Torn(t)

(***************************************************************************)
(* A commit the caller was told of is durable: no crash, failure or        *)
(* recovery afterwards touches its manifest or its visible steps.          *)
(***************************************************************************)
AcknowledgedIsDurable ==
    \A t \in Tx : pc[t] = "done" =>
        manifest[t] = "committed" /\ applied[t] = Targets(t)

(***************************************************************************)
(* No lost update among transactions: a file version written by a          *)
(* transaction whose caller was told so is replaced only by another        *)
(* program, or by a transaction that was prepared from that very version.  *)
(***************************************************************************)
Overwrites(p) ==
    target'[p] # target[p] /\ \E t \in Tx : pc[t] = "done" /\ target[p] = t
Builds(p) == \E u \in Tx : /\ before[u][p] = target[p]
                           /\ p \in applied'[u] \ applied[u]
NoLostUpdate ==
    [][\A p \in Path : Overwrites(p) => spent' # spent \/ Builds(p)]_vars

(***************************************************************************)
(* Recovery only takes back what is its transaction's own: it changes a    *)
(* file only after it has found the transaction's version there, or none,  *)
(* and it puts back what the transaction found (or what another program    *)
(* has written into that file since).  What is lost is that version, or    *)
(* what another program has put there between the comparison and the       *)
(* change, which nothing prevents.                                         *)
(***************************************************************************)
RecoveryRestoresOnlyItsOwn ==
    [][\A p \in Path : rpc # "idle" /\ target'[p] # target[p] =>
          \/ spent' # spent
          \/ /\ rseen \in {current, Absent}
             /\ target[p] \in {rseen, Absent} \union Ext
             /\ target'[p] \in {before[current][p]} \union Ext]_vars

(***************************************************************************)
(* Recovery runs before mutation access: a request that has waited for the *)
(* recovery run of its server goes on only when every transaction of the   *)
(* workspace is at an end, whatever the run met and whichever server has   *)
(* died meanwhile.                                                         *)
(***************************************************************************)
RecoveredBeforeMutation ==
    [][\A t, u \in Tx : pc[t] = "waiting" /\ pc'[t] = "ready" =>
          manifest'[u] \in {"none", "committed", "rolled_back"}]_vars

(***************************************************************************)
(* The manifest of a rolled-back transaction is kept for diagnosis: a file *)
(* that an acknowledged transaction has changed since does not block a     *)
(* later recovery run.                                                     *)
(***************************************************************************)
LaterCommitDoesNotBlock ==
    \A p \in Path : rpc = "recheck" /\ First(todo, p) /\ ~Restored(current, p) =>
        ~\E u \in Tx : pc[u] = "done" /\ p \in applied[u] /\ target[p] = After(u, p)

\* Where a request stays until its caller asks for the next thing.
Resting == Terminal \union {"idle", "prepared", "participants", "retained", "abandoned"}
(***************************************************************************)
(* Every recovery run ends, with the workspace ready or frozen, and so     *)
(* does every call of a request: it never waits for a run, works under the *)
(* lock or rolls back forever.                                             *)
(***************************************************************************)
CallsEnd ==
    /\ rpc # "idle" ~> rpc = "idle"
    /\ \A t \in Tx : pc[t] \notin Resting ~> pc[t] \in Resting

----------------------------------------------------------------------------
(***************************************************************************)
(* The system implements what it promises: readback failures apart, the    *)
(* effects of a transaction and its manifest are an outcome.               *)
(***************************************************************************)
outcome == [t \in Tx |-> CASE manifest[t] = "none" -> "none"
                           [] manifest[t] = "committed" -> "committed"
                           [] manifest[t] = "rolled_back" -> "void"
                           [] OTHER -> "open"]
Outcome == INSTANCE TransactionOutcome WITH
    effects <- [t \in Tx |-> applied[t] \ Torn(t)],
    told <- [t \in Tx |-> CASE pc[t] = "done" -> "yes"
                            [] pc[t] = "aborted" -> "no"
                            [] OTHER -> "nothing"]
KeepsItsPromise == Outcome!Spec
=============================================================================
