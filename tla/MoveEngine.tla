------------------------------ MODULE MoveEngine -----------------------------
(***************************************************************************)
(* One call of move_paths, or of undo_change_set for a move: the wait for   *)
(* recovery, the planning, the commit of the files, the participants and    *)
(* the decision, with what the services do when one of them fails.          *)
(*                                                                          *)
(* Source: src/src/moves/engine.ts, planner.ts, service.ts,                 *)
(* src/src/changesets/moveUndo.ts, moveStore.ts.                            *)
(***************************************************************************)
EXTENDS MoveSteps

Original(c) == task[c].undoes
Over(c) == pos' = [pos EXCEPT ![c] = [Resting EXCEPT !.step = "over"]]
Release(c) == lock' = IF lock = c THEN None ELSE lock
OnlyLock == UNCHANGED <<task, frozen, due>>

-----------------------------------------------------------------------------
(* prepare                                                                  *)

Final == {"committed", "rolled_back"}
Present == {c \in Calls : journal[c].state # "none"}
Loose(w) == pos[w].step \in Rolling \cup {"unproven"} /\ lock # w

\* mutant: a run has nothing to do for a move that has not begun
StartRunOfBegun ==
    /\ lock' = Recovery
    /\ LET begun == SelectSeq(order, LAMBDA c : journal[c].state # "preparing")
       IN  due' = [i \in DOMAIN begun |-> [call |-> begun[i], state |-> journal[begun[i]].state]]
    /\ stale' = {s \in stale : s[1] # Recovery}
    /\ raced' = (raced \/ \E c \in Calls : Loose(c))
    /\ UNCHANGED <<task, frozen>>
\* ensureWorkspaceReady starts a run over the manifests there are.
StartRun ==
    /\ lock' = Recovery
    /\ due' = [i \in DOMAIN order |-> [call |-> order[i], state |-> journal[order[i]].state]]
    /\ stale' = {s \in stale : s[1] # Recovery}
    /\ raced' = (raced \/ \E c \in Calls : Loose(c))
    /\ UNCHANGED <<task, frozen>>

\* An undo looks its change set up before it waits for the run, and a lock that
\* is held refuses the call.
Ask(c) ==
    /\ pos[c].step = "idle"
    /\ IsUndo(c) => changeset[Original(c)] # "none"
    /\ IF \/ IsUndo(c) /\ changeset[Original(c)] # "active"
          \/ frozen \/ lock \notin {None, Recovery}
         THEN Over(c) /\ UNCHANGED <<memory, stale, raced>>
       ELSE IF lock = Recovery
         THEN Goto(c, "waiting") /\ UNCHANGED <<memory, stale, raced>>
       ELSE /\ StartRun
            /\ pos' = [pos EXCEPT ![c].step = "waiting", ![Recovery].step = "choose"]
    /\ UNCHANGED <<disk, journal, order, records, limits, touched, removed, derailed, misled>>

\* What an undo expects under a source of its own: the operation it reverses.
Reversed(c, p) == CHOOSE q \in Sources(Original(c)) : Plan(Original(c))[q] = p
Expected(c, p) == journal[Original(c)].bytes[Reversed(c, p)]
Drops(c) == IF IsUndo(c) THEN journal[Original(c)].made ELSE None
Targets(c) == {Plan(c)[p] : p \in Sources(c)}
Fits(c) ==
    /\ \A p \in Sources(c) : at[p] # None /\ (IsUndo(c) => bytes[at[p]] = Expected(c, p))
    /\ \A q \in Targets(c) \ Sources(c) : at[q] = None /\ (IsUndo(c) => Stands(q))
    /\ Drops(c) # None =>
         /\ dir = Drops(c)
         /\ \A p \in InDir : at[p] # None => p \in Sources(c)
         /\ \A d \in Calls, p \in InDir : stage[d][p] = None

Planned(c, state) ==
    [NoManifest(c) EXCEPT
        !.state = state,
        !.object = [p \in Sources(c) |-> at[p]],
        !.bytes = [p \in Sources(c) |-> bytes[at[p]]],
        !.plans = dir = None /\ Targets(c) \cap InDir # {},
        !.parent = dir,
        !.drops = Drops(c)]
Journaled(c, state) ==
    /\ journal' = [journal EXCEPT ![c] = Planned(c, state)]
    /\ order' = Append(order, c)

\* verifyReverseFacts comes after the manifest, and leaves it and the lock.
SameObjects(c) ==
    IsUndo(c) => \A p \in Sources(c) : at[p] = journal[Original(c)].object[Reversed(c, p)]

Prepare(c) ==
    /\ pos[c].step = "inspect" /\ Fits(c)
    /\ Journaled(c, "prepared")
    /\ IF SameObjects(c) THEN Goto(c, "begin") ELSE Over(c)
    /\ UNCHANGED <<disk, records, memory, stale, limits, history>>

PrepareFails(c) ==
    /\ pos[c].step = "inspect"
    /\ \/ ~Fits(c) /\ UNCHANGED <<journal, order, faults>>
       \/ Fits(c) /\ Fault /\ UNCHANGED <<journal, order>>
       \/ Fits(c) /\ Fault /\ Journaled(c, "preparing")
    /\ Over(c) /\ Release(c)
    /\ UNCHANGED <<disk, records, stale, crashes, uses, foreign, history>> /\ OnlyLock

-----------------------------------------------------------------------------
(* commitContext                                                            *)

Begin(c) ==
    /\ pos[c].step = "begin" /\ Fresh(c)
    /\ Become(c, "committing")
    /\ IF journal[c].plans THEN Goto(c, "mkdir") ELSE Loop(c, "stage")
    /\ UNCHANGED disk /\ Stays

MakeDirectory(c) ==
    /\ pos[c].step = "mkdir" /\ dir = None
    /\ dir' = c /\ Goto(c, "made")
    /\ UNCHANGED <<at, bytes, stage, journal, stale>> /\ Stays

\* The identity that is recorded is that of the directory found now.
RecordDirectory(c) ==
    /\ pos[c].step = "made" /\ dir # None /\ Fresh(c)
    /\ Write(c, [journal[c] EXCEPT !.made = dir])
    /\ Loop(c, "stage")
    /\ UNCHANGED disk /\ Stays

AtOwnSource(c) ==
    at[Here(c)] = Object(c) /\ (Here(c) \in InDir => dir = journal[c].parent)

LinkStage(c) ==
    /\ pos[c].step = "stage" /\ AtOwnSource(c)
    /\ stage' = [stage EXCEPT ![c][Here(c)] = Object(c)]
    /\ Goto(c, "unlink")
    /\ UNCHANGED <<at, bytes, dir, journal, stale>> /\ Stays

UnlinkSource(c) ==
    /\ pos[c].step = "unlink" /\ AtOwnSource(c) /\ AtStage(c)
    /\ at' = [at EXCEPT ![Here(c)] = None]
    /\ Done(c, "stage", "link")
    /\ UNCHANGED <<bytes, dir, stage, journal, stale>> /\ Stays

\* assertDestinationAbsent
Vacant(c) ==
    /\ at[Target(c)] = None
    /\ Target(c) \in InDir =>
         dir # None /\ dir = IF journal[c].plans THEN journal[c].made ELSE journal[c].parent

Link(c) ==
    /\ pos[c].step = "link" /\ Vacant(c) /\ AtStage(c)
    /\ at' = [at EXCEPT ![Target(c)] = Object(c)]
    /\ Goto(c, "show")
    /\ UNCHANGED <<bytes, dir, stage, journal, stale>> /\ Stays

Show(c) ==
    /\ pos[c].step = "show" /\ Ours(c) /\ Fresh(c)
    /\ Write(c, [journal[c] EXCEPT !.shown = @ \cup {Here(c)}])
    /\ Goto(c, "settle")
    /\ UNCHANGED disk /\ Stays

\* The content is read through the open file; the destination is not looked at.
Settle(c) ==
    /\ pos[c].step = "settle" /\ Intact(c, Here(c)) /\ AtStage(c)
    /\ stage' = [stage EXCEPT ![c][Here(c)] = None]
    /\ Done(c, "link", "pend")
    /\ UNCHANGED <<at, bytes, dir, journal, stale>> /\ Stays

Pend(c) ==
    /\ pos[c].step = "pend" /\ Fresh(c)
    /\ Become(c, Pending)
    /\ Goto(c, "effect")
    /\ UNCHANGED disk /\ Stays

CommitStep(c) ==
    \/ Begin(c) \/ MakeDirectory(c) \/ RecordDirectory(c) \/ LinkStage(c) \/ UnlinkSource(c)
    \/ Link(c) \/ Show(c) \/ Settle(c) \/ Pend(c)

CommitBlocked(c) ==
    CASE pos[c].step \in {"begin", "pend"} -> ~Fresh(c)
      [] pos[c].step = "mkdir"  -> dir # None
      [] pos[c].step = "made"   -> dir = None \/ ~Fresh(c)
      [] pos[c].step = "stage"  -> ~AtOwnSource(c)
      [] pos[c].step = "unlink" -> ~AtOwnSource(c) \/ ~AtStage(c)
      [] pos[c].step = "link"   -> ~Vacant(c) \/ ~AtStage(c)
      [] pos[c].step = "show"   -> ~Ours(c) \/ ~Fresh(c)
      [] pos[c].step = "settle" -> ~Intact(c, Here(c)) \/ ~AtStage(c)
      [] OTHER -> FALSE

Committing == {"begin", "mkdir", "made", "stage", "unlink", "link", "show", "settle", "pend"}

FailsAs(c, blocked) == (blocked /\ UNCHANGED faults) \/ (~blocked /\ Fault)
OnlyFaults == UNCHANGED <<crashes, uses, foreign, history>>

\* Two rollbacks may follow: the engine's own and, when it fails, the service's.
CommitFails(c) ==
    /\ pos[c].step \in Committing /\ FailsAs(c, CommitBlocked(c))
    /\ pos' = [pos EXCEPT ![c].step = "rollback", ![c].todo = {}, ![c].tries = 2]
    /\ UNCHANGED <<disk, journal, order, records, memory, stale>> /\ OnlyFaults

-----------------------------------------------------------------------------
(* participantContext and finalizeContext                                   *)

Turn(c) ==
    LET i == CHOOSE n \in DOMAIN Participants(c) :
                 /\ journal[c].facts[Participants(c)[n]] = "pending"
                 /\ \A k \in 1..(n - 1) : journal[c].facts[Participants(c)[k]] # "pending"
    IN  Participants(c)[i]
SetFact(c, fact) == Write(c, [journal[c] EXCEPT !.facts[Turn(c)] = fact])

Undoable(c) == changeset[Original(c)] \in {"active", "undone"}

Effect(c) ==
    /\ pos[c].step = "effect"
    /\ CASE Turn(c) = "change_set" ->
              changeset' = [changeset EXCEPT ![c] = "active"] /\ UNCHANGED audited
         [] Turn(c) = "audit" ->
              audited' = audited \cup {c} /\ UNCHANGED changeset
         [] OTHER ->
              /\ Undoable(c)
              /\ changeset' = [changeset EXCEPT ![Original(c)] = "undone"]
              /\ UNCHANGED audited
    /\ Goto(c, "fact")
    /\ UNCHANGED <<disk, journal, order, memory, stale, limits, history>>

\* An audit event may be durable and its call fail all the same, and so may the
\* end of the original, which is read back after it is written.
EffectFails(c) ==
    /\ pos[c].step = "effect"
    /\ FailsAs(c, Turn(c) = "original_change_set" /\ ~Undoable(c))
    /\ audited' \in IF Turn(c) = "audit" THEN {audited, audited \cup {c}} ELSE {audited}
    /\ \/ UNCHANGED <<changeset, misled>>
       \/ /\ Turn(c) = "original_change_set" /\ changeset[Original(c)] = "active"
          /\ changeset' = [changeset EXCEPT ![Original(c)] = "undone"]
          /\ misled' = misled \cup {c}
    /\ Goto(c, "failed")
    /\ UNCHANGED <<disk, journal, order, memory, stale, crashes, uses, foreign,
                   touched, removed, derailed, raced>>

Fact(c) ==
    /\ pos[c].step = "fact" /\ Fresh(c)
    /\ SetFact(c, "committed")
    /\ Goto(c, IF Turn(c) = Participants(c)[Len(Participants(c))] THEN "decide" ELSE "effect")
    /\ UNCHANGED disk /\ Stays

\* The lock is released; the service rolls back unless the original is undone.
FactFails(c) ==
    /\ pos[c].step = "fact" /\ FailsAs(c, ~Fresh(c))
    /\ IF Turn(c) = "original_change_set"
         THEN Over(c)
         ELSE pos' = [pos EXCEPT ![c].step = "unproven", ![c].tries = 1]
    /\ Release(c) /\ OnlyLock
    /\ UNCHANGED <<disk, journal, order, records, stale>> /\ OnlyFaults

Failed(c) ==
    /\ pos[c].step = "failed" /\ Fresh(c)
    /\ SetFact(c, "failed")
    /\ pos' = [pos EXCEPT ![c].step = "rollback", ![c].tries = 2]
    /\ UNCHANGED disk /\ Stays

FailedFails(c) ==
    /\ pos[c].step = "failed" /\ FailsAs(c, ~Fresh(c))
    /\ pos' = [pos EXCEPT ![c].step = "unproven", ![c].tries = 1]
    /\ UNCHANGED <<disk, journal, order, records, memory, stale>> /\ OnlyFaults

Finish(c) ==
    /\ pos[c].step = "finish" /\ Fresh(c)
    /\ Become(c, "committed")
    /\ Over(c) /\ Release(c) /\ OnlyLock
    /\ UNCHANGED <<disk, order, records, limits, history>>

FinalizeFails(c) ==
    /\ pos[c].step \in {"decide", "drop", "dropped", "finish"} /\ FailsAs(c, Blocked(c))
    /\ Over(c) /\ Release(c) /\ OnlyLock
    /\ UNCHANGED <<disk, journal, order, records, stale>> /\ OnlyFaults

-----------------------------------------------------------------------------
(* rollbackContext, and the service's reconciliation of the change set      *)

\* A change set that was created for a transaction that is not to stand.
GiveUp(c) ==
    \/ changeset' = [changeset EXCEPT ![c] = IF @ = "active" THEN "recovery_required" ELSE @]
       /\ UNCHANGED faults
    \/ changeset[c] = "active" /\ Fault /\ UNCHANGED changeset

Conclude(c) ==
    /\ pos[c].step = "conclude" /\ Fresh(c)
    /\ Become(c, "rolled_back")
    /\ Goto(c, "reconcile") /\ Release(c) /\ OnlyLock
    /\ UNCHANGED <<disk, order, records, limits, history>>

Reconcile(c) ==
    /\ pos[c].step = "reconcile" /\ GiveUp(c) /\ Over(c)
    /\ UNCHANGED <<disk, journal, order, audited, memory, stale>> /\ OnlyFaults

\* The lock is released, and the second rollback runs without it.
RollbackFails(c) ==
    /\ pos[c].step \in Rolling /\ FailsAs(c, Blocked(c))
    /\ IF Fresh(c) THEN Become(c, "recovery_required") ELSE UNCHANGED <<journal, stale>>
    /\ IF pos[c].tries > 1
         THEN pos' = [pos EXCEPT ![c] = [step |-> "unproven", todo |-> {}, tries |-> 1,
                                         rolling |-> pos[c].rolling /\ ~Fresh(c)]]
         ELSE Over(c)
    /\ Release(c) /\ OnlyLock
    /\ UNCHANGED <<disk, order, records>> /\ OnlyFaults

Unproven(c) ==
    /\ pos[c].step = "unproven" /\ GiveUp(c) /\ Goto(c, "rollback")
    /\ UNCHANGED <<disk, journal, order, audited, memory, stale>> /\ OnlyFaults

CallStep(c) ==
    \/ Prepare(c) \/ PrepareFails(c) \/ CommitStep(c) \/ CommitFails(c)
    \/ Effect(c) \/ EffectFails(c) \/ Fact(c) \/ FactFails(c) \/ Failed(c) \/ FailedFails(c)
    \/ Decide(c) \/ Drop(c) \/ Dropped(c) \/ Finish(c) \/ FinalizeFails(c)
    \/ RollbackStep(c) \/ RollbackFails(c) \/ Unproven(c) \/ Conclude(c) \/ Reconcile(c)
=============================================================================
