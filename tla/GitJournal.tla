----------------------------- MODULE GitJournal -----------------------------
(***************************************************************************)
(* The journal every Git mutation of the servers on one state root goes    *)
(* through: the record of the operation, the lock of its repository, the   *)
(* effect that an external git produces, and the freeze of a repository    *)
(* whose state nobody can tell.  GitRecovery adds the startup of a server. *)
(***************************************************************************)
EXTENDS Naturals

CONSTANTS
    Op,          \* the Git mutations that may be asked for
    Server,      \* the server processes
    Repository,
    Home, In,    \* the server of an operation, and its repository
    Provable,    \* the operations whose participants a probe can tell; the
                 \* production server has none (it answers "unknown")
    MaxTrouble   \* at most so many crashes and failed file writes

ASSUME GitAssumption ==
    /\ Home \in [Op -> Server] /\ In \in [Op -> Repository] /\ Provable \subseteq Op
    /\ MaxTrouble \in Nat
    /\ (Op \union Server) \intersect {"free", "orphan"} = {} /\ Op \intersect Server = {}
    /\ "none" \notin Op

VARIABLES
    pc,          \* where the call of an operation stands
    effect,      \* the operations whose effect is in their repository
    rec,         \* the state in the durable record of an operation
    frozen,      \* the repositories recorded as recovery_required
    lock,        \* who holds the lock of a repository
    up,          \* what a server process is doing
    seen,        \* the records a server has listed when it started
    todo, at,    \* what its startup has still to recover, and what it is at
    troubles,    \* the crashes and failed writes so far
    missed       \* history: the repositories whose freeze could not be written

disk == <<effect, rec, frozen, lock>>
startup == <<up, seen, todo, at>>
history == <<troubles, missed>>
vars == <<pc, disk, startup, history>>

State == {"preparing", "prepared", "executing", "effect_observed", "audit_pending",
          "committed", "rolling_back", "rolled_back", "recovery_required"}
Complete == {"committed", "rolled_back"}
Busy == {"authorizing", "locking", "locked", "prepared", "undoing", "undone",
         "executing", "observing", "completing", "requiring"}

\* The state machine of a record.
Transitions ==
    [from \in State |->
        CASE from = "preparing" -> {"prepared", "rolling_back", "rolled_back", "recovery_required"}
          [] from = "prepared" -> {"executing", "rolling_back", "rolled_back", "recovery_required"}
          [] from = "executing" -> {"effect_observed", "rolling_back", "rolled_back", "recovery_required"}
          [] from = "effect_observed" -> {"audit_pending", "rolling_back", "recovery_required"}
          [] from = "audit_pending" -> {"committed", "recovery_required"}
          [] from = "rolling_back" -> {"rolled_back", "recovery_required"}
          [] OTHER -> {}]

CanMoveBlindly(o, from, to) == to \in Transitions[from]  \* mutant

\* A transition is refused unless the record on disk is the one that its caller
\* holds.  No state comes twice, so the state stands for the generation.
CanMove(o, from, to) == to \in Transitions[from] /\ rec[o] = from

Init ==
    /\ pc = [o \in Op |-> "idle"]
    /\ effect = {} /\ frozen = {} /\ missed = {}
    /\ rec = [o \in Op |-> "none"]
    /\ lock = [r \in Repository |-> "free"]
    /\ up = [s \in Server |-> "down"]
    /\ seen = [s \in Server |-> [o \in Op |-> "none"]]
    /\ todo = [s \in Server |-> {}]
    /\ at = [s \in Server |-> "none"]
    /\ troubles = 0

----------------------------------------------------------------------------
Become(o, phase) == pc' = [pc EXCEPT ![o] = phase]
Record(o, to) == rec' = [rec EXCEPT ![o] = to]
Freeze(r) == frozen' = frozen \union {r}

FreeOrDead(r) ==  \* mutant
    lock[r] \in {"free", "orphan"} \union {o \in Op : pc[o] \in {"dead", "interrupted"}}
\* The directory of a lock is never taken over, whatever became of its owner.
Free(r) == lock[r] = "free"

Lock(r, owner) == lock' = [lock EXCEPT ![r] = owner]
\* A handle gives back what it holds, and once.
Release(o) == lock' = [lock EXCEPT ![In[o]] = IF @ = o THEN "free" ELSE @]

\* registerRepository and the checks at the head of prepareOperation.
Begin(o) ==
    /\ pc[o] = "idle" /\ up[Home[o]] # "down"
    /\ Become(o, IF up[Home[o]] = "ready" /\ In[o] \notin frozen
                 THEN "authorizing" ELSE "failed")
    /\ UNCHANGED <<disk, startup, history>>

\* The authorization is in the audit log: the record is written.
Create(o) ==
    /\ pc[o] = "authorizing" /\ Become(o, "locking")
    /\ Record(o, "preparing")
    /\ UNCHANGED <<effect, frozen, lock, startup, history>>

\* The record stays as it is when the lock is busy.
Acquire(o) ==
    /\ pc[o] = "locking"
    /\ IF Free(In[o]) THEN Become(o, "locked") /\ Lock(In[o], o)
                      ELSE Become(o, "failed") /\ UNCHANGED lock
    /\ UNCHANGED <<effect, rec, frozen, startup, history>>

Prepare(o) ==
    /\ pc[o] = "locked"
    /\ IF CanMove(o, "preparing", "prepared")
         THEN Become(o, "prepared") /\ Record(o, "prepared") /\ UNCHANGED lock
         ELSE Become(o, "failed") /\ Release(o) /\ UNCHANGED rec
    /\ UNCHANGED <<effect, frozen, startup, history>>

\* The last check before the effect finds that the repository has changed.
PreEffectFails(o) ==
    /\ pc[o] = "prepared" /\ Become(o, "undoing")
    /\ UNCHANGED <<disk, startup, history>>

BeginEffect(o) ==
    /\ pc[o] = "prepared" /\ CanMove(o, "prepared", "executing")
    /\ Become(o, "executing") /\ Record(o, "executing")
    /\ UNCHANGED <<effect, frozen, lock, startup, history>>

\* rollBackOperation: two writes, then the lock.
RollBack(o) ==
    /\ \/ /\ pc[o] = "undoing" /\ CanMove(o, "prepared", "rolling_back")
          /\ Record(o, "rolling_back") /\ Become(o, "undone") /\ UNCHANGED lock
       \/ /\ pc[o] = "undone" /\ CanMove(o, "rolling_back", "rolled_back")
          /\ Record(o, "rolled_back") /\ Become(o, "failed") /\ Release(o)
       \/ /\ \/ pc[o] = "undoing" /\ rec[o] # "prepared"
             \/ pc[o] = "undone" /\ rec[o] # "rolling_back"
          /\ Become(o, "failed") /\ Release(o) /\ UNCHANGED rec
    /\ UNCHANGED <<effect, frozen, startup, history>>

\* An external git changes a ref, an index or a checkout.
Effect(o) ==
    /\ pc[o] = "executing" /\ o \notin effect /\ effect' = effect \union {o}
    /\ UNCHANGED <<pc, rec, frozen, lock, startup, history>>

EffectReturns(o) ==
    /\ pc[o] = "executing" /\ o \in effect /\ Become(o, "observing")
    /\ UNCHANGED <<disk, startup, history>>

\* It fails, before or after it has changed anything.
EffectThrows(o) ==
    /\ pc[o] = "executing" /\ Become(o, "requiring")
    /\ UNCHANGED <<disk, startup, history>>

\* observeEffect writes the private state under the state "executing" first.
\* What it cannot prove it freezes, and its caller requires recovery once more.
Observe(o) ==
    /\ pc[o] = "observing"
    /\ IF CanMove(o, "executing", "executing")
         THEN /\ Become(o, "completing") /\ Record(o, "effect_observed")
              /\ UNCHANGED <<frozen, lock>>
         ELSE /\ Become(o, "requiring") /\ Freeze(In[o]) /\ Release(o)
              /\ Record(o, IF CanMove(o, rec[o], "recovery_required")
                           THEN "recovery_required" ELSE rec[o])
    /\ UNCHANGED <<effect, startup, history>>

SettleQuietly(o) ==  \* mutant
    /\ pc[o] \in {"completing", "requiring"} /\ Release(o)
    /\ Become(o, IF pc[o] = "completing" THEN "done" ELSE "failed")
    /\ Record(o, IF pc[o] = "completing" THEN "committed" ELSE "recovery_required")
    /\ UNCHANGED <<effect, frozen, startup, history>>

\* completeOperation, with the audit of the result, or requireRecovery.
Settle(o) ==
    /\ pc[o] \in {"completing", "requiring"} /\ Release(o)
    /\ IF pc[o] = "completing"
         THEN Become(o, "done") /\ Record(o, "committed") /\ UNCHANGED frozen
         ELSE /\ Become(o, "failed") /\ Freeze(In[o])
              /\ Record(o, IF CanMove(o, "executing", "recovery_required")
                           THEN "recovery_required" ELSE rec[o])
    /\ UNCHANGED <<effect, startup, history>>

----------------------------------------------------------------------------
\* A write of the authorization, the record or the owner of the lock fails, and
\* the call is refused.
Refused(o) ==
    /\ pc[o] \in {"authorizing", "locking", "locked"} /\ Become(o, "failed")
    /\ Release(o) /\ UNCHANGED <<effect, rec, frozen, missed>>

\* The transition to "executing" fails: beginEffect freezes the repository and
\* gives the lock back, unless the freeze fails too.  The operation is then
\* rolled back.
BeginEffectFails(o) ==
    /\ pc[o] = "prepared" /\ Become(o, "undoing")
    /\ \/ Freeze(In[o]) /\ Release(o)
       \/ UNCHANGED <<frozen, lock>>
    /\ UNCHANGED <<effect, rec, missed>>

\* A write of rollBackOperation fails: the record is left behind.
RollBackFails(o) ==
    /\ pc[o] \in {"undoing", "undone"} /\ Become(o, "failed")
    /\ Release(o) /\ UNCHANGED <<effect, rec, frozen, missed>>

\* The freeze after an effect fails, or the record that follows it;
\* requireRecovery is still to come.
ObserveFails(o) ==
    /\ pc[o] = "observing" /\ Become(o, "requiring")
    /\ \/ Freeze(In[o]) /\ Release(o)
       \/ UNCHANGED <<frozen, lock>>
    /\ UNCHANGED <<effect, rec, missed>>

\* requireRecovery gives the lock back whichever of its two writes fails.
RequireFails(o) ==
    /\ pc[o] = "requiring" /\ Become(o, "failed") /\ Release(o)
    /\ \/ Freeze(In[o]) /\ UNCHANGED missed
       \/ In[o] \notin frozen /\ missed' = missed \union {In[o]} /\ UNCHANGED frozen
    /\ UNCHANGED <<effect, rec>>

\* The lock directory cannot be renamed, or is renamed and cannot be removed:
\* the repository is frozen, but for a call that has not been prepared.
ReleaseFails(o) ==
    /\ lock[In[o]] = o
    /\ \/ /\ pc[o] = "requiring" /\ Become(o, "failed") /\ Freeze(In[o])
          /\ Record(o, IF CanMove(o, "executing", "recovery_required")
                       THEN "recovery_required" ELSE rec[o])
       \/ /\ pc[o] = "undone" /\ CanMove(o, "rolling_back", "rolled_back")
          /\ Become(o, "failed") /\ Freeze(In[o]) /\ Record(o, "rolled_back")
       \/ /\ pc[o] = "locked" /\ ~CanMove(o, "preparing", "prepared")
          /\ Become(o, "failed") /\ UNCHANGED <<frozen, rec>>
    /\ UNCHANGED lock \/ Release(o)
    /\ UNCHANGED <<effect, missed>>

Failure(o) ==
    /\ troubles < MaxTrouble /\ troubles' = troubles + 1
    /\ \/ Refused(o) \/ BeginEffectFails(o) \/ RollBackFails(o)
       \/ ObserveFails(o) \/ RequireFails(o) \/ ReleaseFails(o)
    /\ UNCHANGED startup

\* What the journal does with an operation once it has been asked for.
JournalStep(o) ==
    \/ Create(o) \/ Acquire(o) \/ Prepare(o) \/ BeginEffect(o) \/ RollBack(o)
    \/ EffectReturns(o) \/ EffectThrows(o) \/ Observe(o) \/ Settle(o)
=============================================================================
