------------------------- MODULE TransactionInvariant -----------------------
(***************************************************************************)
(* The inductive invariant behind the safety properties of                 *)
(* TransactionSystem: what the engine's position says of its manifest and  *)
(* of each operation, and what the recovery run's position says of the     *)
(* manifest it works on.                                                   *)
(***************************************************************************)
EXTENDS TransactionSystem

\* The positions of a request that holds the workspace lock.
Working == {"staging", "prepared", "directories", "recordDirectory",
            "installing", "participants", "cleaning", "rollback", "rolling",
            "retained", "abandoned"}

\* The manifest states in which a request at a position may be.
ManifestAt(phase) ==
    CASE phase \in {"idle", "waiting", "ready", "inspected", "refused"} -> {"none"}
      [] phase = "staging" -> {"preparing"}
      [] phase = "prepared" -> {"prepared"}
      [] phase \in {"directories", "recordDirectory", "installing"} -> {"committing"}
      [] phase = "participants" -> {"committed_pending_participants"}
      [] phase \in {"cleaning", "done"} -> {"committed"}
      [] phase = "rolling" -> {"rolling_back"}
      [] phase \in {"rollback", "retained"} -> Undecided
      [] phase = "abandoned" -> {"none", "committed_pending_participants"}
      [] OTHER -> ManifestState

\* Only the holder of the lock works, and no run does while there is one.
LockInv ==
    /\ \A t \in Tx : pc[t] \in Working <=> t \in holder
    /\ \A t, u \in holder : t = u
    /\ rpc # "idle" => holder = {}

\* Positions and manifests agree, and the log names each manifest once.
ManifestInv ==
    /\ \A t \in Tx : manifest[t] \in ManifestAt(pc[t])
    /\ \A t \in Tx : manifest[t] = "committed" => t \in decided
    /\ \A i \in 1..Len(log) : manifest[log[i]] # "none"
    /\ \A i, j \in 1..Len(log) : log[i] = log[j] => i = j
    /\ \A t \in Tx : manifest[t] # "none" => \E i \in 1..Len(log) : log[i] = t

\* The manifest states in which a run at a position finds its transaction.
RunAt(phase) ==
    CASE phase = "reconcile" -> {"committed_pending_participants"}
      [] phase = "decided" -> Undecided
      [] phase \in {"restore", "restoring", "dropStage", "dropBackup", "persist"}
            -> {"rolling_back"}
      [] phase = "remove" -> {"rolling_back", "rolled_back"}
      [] phase = "recheck" -> {"rolled_back"}
      [] phase = "cleanup" -> {"committed"}
      [] OTHER -> {"committed", "rolled_back"}

\* What a run has found where it is about to restore a file, and what is there now.
RestoringOK(p) ==
    /\ rseen \in {current, Absent}
    /\ target[p] \in {rseen, Absent} \union Ext
    /\ Kind[current][p] # "create" => backup[current][p] \in {before[current][p]} \union Ext

\* A run has brought the manifests it has passed to an end and undone the
\* operations it has visited, and it never comes to an acknowledged transaction
\* but to clean up after it.
RunInv ==
    /\ rpc # "idle" =>
        \A i \in 1..Len(log) : i < rpos => manifest[log[i]] \in {"committed", "rolled_back"}
    /\ rpc \notin {"idle", "scan"} =>
        /\ manifest[current] \in RunAt(rpc)
        /\ rpc \in {"restore", "restoring"} => applied[current] \subseteq todo
        /\ rpc = "restoring" => \A p \in todo : Last(todo, p) => RestoringOK(p)
        /\ rpc \in {"dropStage", "dropBackup"} =>
              /\ applied[current] \subseteq todo
              /\ \A p \in todo : Last(todo, p) => p \notin applied[current]
        /\ rpc \in {"remove", "persist"} => applied[current] \subseteq Torn(current)
        /\ pc[current] = "done" => rfrom = "committed"

\* No version comes back: what another program writes it has not written yet.
\* What is to be created was not there.
FreshInv ==
    \A p \in Path :
        /\ target[p] \in Ext => target[p] \in spent
        /\ \A t \in Tx : /\ before[t][p] \in Ext => before[t][p] \in spent
                         /\ backup[t][p] \in Ext => backup[t][p] \in spent
                         /\ Kind[t][p] = "create" => before[t][p] = Absent

\* The operation's visible step has been taken.
InPlace == {"visible", "installed", "undoing"}

\* What the in-memory state of an operation says of the disk and the journal,
\* while its transaction is at work.
OperationInv ==
    \A t \in Tx : pc[t] \in Working \ {"cleaning"} => \A p \in Targets(t) :
        /\ Kind[t][p] # "create" => before[t][p] # Absent
        /\ op[t][p] \in {"staged", "recorded"} /\ Kind[t][p] # "create" =>
              backup[t][p] = before[t][p] \/ target[p] # before[t][p]
        /\ op[t][p] \in {"recorded", "checked"} \union InPlace => p \in recorded[t]
        /\ op[t][p] \in {"checked"} \union InPlace /\ Kind[t][p] # "create" =>
              backup[t][p] \in {before[t][p]} \union Ext
        /\ op[t][p] \in InPlace => p \in applied[t]
        /\ p \in applied[t] \ Torn(t) => op[t][p] \in InPlace
        /\ op[t][p] = "undoing" =>
              pc[t] = "rolling" /\ target[p] \in {After(t, p), Absent} \union Ext
        /\ op[t][p] = "visible" /\ pc[t] # "installing" => p \in Torn(t)

\* The installs of a commit come one after the other.  Only a program outside
\* the lock may change a file between its check and its install.
InstallInv ==
    \A t \in Tx :
        /\ pc[t] \in {"prepared", "directories", "recordDirectory"} =>
              \A p \in Targets(t) : op[t][p] = "recorded"
        /\ pc[t] = "installing" =>
              /\ \A p, q \in InState(t, {"checked", "visible"}) : p = q
              /\ \A p \in InState(t, {"checked"}) : target[p] \in {before[t][p], Absent} \union Ext

\* After a failed readback a transaction is only ever rolled back.
TornInv ==
    \A t \in Tx : Torn(t) # {} =>
        /\ manifest[t] \in {"committing", "rolling_back", "rolled_back", "recovery_required"}
        /\ pc[t] \in {"rollback", "rolling", "retained", "aborted", "dead"}

\* Visible steps are taken only where something was asked for.
AppliedInv ==
    /\ \A t \in Tx : applied[t] \subseteq Targets(t)
    /\ \A t \in Tx : pc[t] \in {"idle", "waiting", "ready", "inspected"} =>
          /\ applied[t] = {} /\ Torn(t) = {}
          /\ \A p \in Path : op[t][p] = "planned"
    /\ \A t \in Tx : pc[t] = "inspected" =>
          \A p \in Targets(t) : Kind[t][p] # "create" => before[t][p] # Absent
    /\ \A t \in Tx : pc[t] = "cleaning" => applied[t] = Targets(t)

IInv ==
    /\ TypeOK /\ LockInv /\ ManifestInv /\ RunInv /\ FreshInv
    /\ OperationInv /\ InstallInv /\ TornInv /\ AppliedInv
    /\ EvidenceKept /\ AllOrNothing /\ AcknowledgedIsDurable
=============================================================================
