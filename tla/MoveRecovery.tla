----------------------------- MODULE MoveRecovery ----------------------------
(***************************************************************************)
(* The part of a recovery run that is about moves: it takes the manifests   *)
(* of the workspace in createdAt order and brings each to an end; whatever  *)
(* cannot be proven freezes the workspace for the life of the server.       *)
(*                                                                          *)
(* Source: src/src/moves/recovery.ts, src/src/transactions/recovery.ts,     *)
(* participantRecovery.ts.                                                  *)
(***************************************************************************)
EXTENDS MoveEngine

At(s) == pos[Recovery].step = s
Rest == UNCHANGED <<order, memory, limits, history>>
Current == Head(due).call
Seen == Head(due).state
M == journal[Current]

\* recoverWorkspace: what is done depends on the state the run read at its start.
Choose ==
    /\ At("choose") /\ due # <<>>
    /\ Seen = "committed" => (M.drops = None \/ dir = None)
    /\ pos' = [pos EXCEPT ![Recovery] =
         [step |-> CASE Seen = "committed"      -> "sweep"
                     [] Seen = "rolled_back"    -> "verify"
                     [] Seen = "commit_decided" -> "confirm"
                     [] Seen = Pending -> "probe"
                     [] OTHER -> "rollback",
          todo |-> Sources(Current), tries |-> 1, rolling |-> Seen = "rolling_back"]]
    /\ UNCHANGED <<disk, journal, records, stale>> /\ Rest

Evidence(i) ==
    IF M.facts[i] = "committed" THEN "present"
    ELSE CASE i = "audit" -> IF Current \in audited THEN "present" ELSE "absent"
           [] i = "change_set" -> IF changeset[Current] # "none" THEN "present" ELSE "absent"
           [] OTHER ->
                CASE changeset[Original(Current)] = "active" -> "absent"
                  [] changeset[Original(Current)] = "undone" /\ changeset[Current] # "none" -> "present"
                  [] OTHER -> "unknown"
Found == {i \in Required(Current) : Evidence(i) = "present"}
Ambiguous == \E i \in Required(Current) : Evidence(i) = "unknown"

\* reconcileParticipants.  A change set whose audit event is missing, or the
\* other way round, is given up with its move.
CanCompensate ==
    /\ "original_change_set" \notin Found
    /\ "change_set" \in Found => changeset[Current] \in {"active", "recovery_required"}
ToCompensate ==
    Found # Required(Current) /\ "change_set" \in Found /\ changeset[Current] = "active"
Reconciles == ~Ambiguous /\ (Found = Required(Current) \/ CanCompensate)

Compensate ==
    /\ At("probe") /\ Reconciles /\ ToCompensate
    /\ changeset' = [changeset EXCEPT ![Current] = "recovery_required"]
    /\ UNCHANGED <<disk, journal, order, audited, memory, pos, stale, limits, history>>

Probe ==
    /\ At("probe") /\ Reconciles /\ ~ToCompensate /\ Fresh(Recovery)
    /\ Write(Recovery, [M EXCEPT !.facts =
           [i \in Required(Current) |-> IF i \in Found THEN "committed" ELSE "failed"]])
    /\ Loop(Recovery, IF Found = Required(Current) THEN "confirm" ELSE "rollback")
    /\ UNCHANGED <<disk, records>> /\ Rest

\* finishCommitted: every file is under its new name and is as it was.
Confirmed ==
    TargetStands(Recovery) /\ Ours(Recovery) /\ Intact(Current, Here(Recovery))
Confirm ==
    /\ At("confirm") /\ Confirmed
    /\ Done(Recovery, "confirm", IF M.state # "commit_decided" THEN "decide"
                                 ELSE IF M.drops = None THEN "finish" ELSE "drop")
    /\ UNCHANGED <<disk, journal, records, stale>> /\ Rest

FinishCommitted ==
    /\ At("finish") /\ Fresh(Recovery)
    /\ Become(Recovery, "committed") /\ Loop(Recovery, "sweep")
    /\ UNCHANGED <<disk, records>> /\ Rest

Sweep ==
    /\ At("sweep")
    /\ stage' = [stage EXCEPT ![Current][Here(Recovery)] = None]
    /\ Done(Recovery, "sweep", "record")
    /\ UNCHANGED <<at, bytes, dir, journal, records, stale>> /\ Rest

\* verifyRolledBack
Restored == at[Here(Recovery)] = Object(Recovery) /\ Intact(Current, Here(Recovery))
Verify ==
    /\ At("verify") /\ Restored /\ ~M.dropped
    /\ stage' = [stage EXCEPT ![Current][Here(Recovery)] = None]
    /\ Done(Recovery, "verify", "rmdir")
    /\ UNCHANGED <<at, bytes, dir, journal, records, stale>> /\ Rest

RolledBack ==
    /\ At("conclude")
    /\ IF Seen = "rolled_back"
         THEN UNCHANGED <<journal, stale>>
         ELSE Fresh(Recovery) /\ Become(Recovery, "rolled_back")
    /\ Goto(Recovery, "record")
    /\ UNCHANGED <<disk, records>> /\ Rest

\* recordRecovery
Recorded ==
    /\ At("record")
    /\ due' = Tail(due) /\ Goto(Recovery, "choose")
    /\ UNCHANGED <<disk, journal, order, records, task, lock, frozen, stale, limits, history>>

RunBlocked ==
    CASE At("choose")  -> due # <<>> /\ Seen = "committed" /\ M.drops # None /\ dir # None
      [] At("probe")   -> ~Reconciles \/ (~ToCompensate /\ ~Fresh(Recovery))
      [] At("confirm") -> ~Confirmed
      [] At("verify")  -> ~Restored \/ M.dropped
      [] At("conclude") -> Seen # "rolled_back" /\ ~Fresh(Recovery)
      [] OTHER -> Blocked(Recovery)

Waiting == {c \in Calls : pos[c].step = "waiting"}

\* mutant: the others go on waiting
RunEndsForOne ==
    /\ At("choose") /\ due = <<>>
    /\ IF Waiting = {}
         THEN lock' = None /\ pos' = [pos EXCEPT ![Recovery] = Resting]
         ELSE \E c \in Waiting :
                /\ lock' = c
                /\ pos' = [w \in Workers |->
                     CASE w = Recovery -> Resting
                       [] w = c -> [Resting EXCEPT !.step = "inspect"]
                       [] OTHER -> pos[w]]
    /\ raced' = (raced \/ \E c \in Calls : Loose(c))
    /\ UNCHANGED <<disk, journal, order, records, task, frozen, due, stale, limits, touched,
                   removed, derailed, misled>>
\* The first to go on takes the lock; to the others it is taken.
RunEnds ==
    /\ At("choose") /\ due = <<>>
    /\ IF Waiting = {}
         THEN lock' = None /\ pos' = [pos EXCEPT ![Recovery] = Resting]
         ELSE \E c \in Waiting :
                /\ lock' = c
                /\ pos' = [w \in Workers |->
                     CASE w = Recovery -> Resting
                       [] w = c -> [Resting EXCEPT !.step = "inspect"]
                       [] w \in Waiting \ {c} -> [Resting EXCEPT !.step = "over"]
                       [] OTHER -> pos[w]]
    /\ raced' = (raced \/ \E c \in Calls : Loose(c))
    /\ UNCHANGED <<disk, journal, order, records, task, frozen, due, stale, limits, touched,
                   removed, derailed, misled>>

\* The memory of the server is gone, and its lock is nobody's.
Ends ==
    /\ pos' = [w \in Workers |->
         IF w = Recovery \/ pos[w].step = "idle" THEN Resting ELSE [Resting EXCEPT !.step = "over"]]
    /\ lock' = None /\ frozen' = FALSE /\ due' = <<>> /\ stale' = {}
    /\ UNCHANGED task

\* The catch reads the manifest again and marks it.  A failure for which nobody
\* waits is an unhandled rejection, which ends the server.
Decided == M.state = "commit_decided" \/ (M.state = Pending /\ Found = Required(Current))
RunFails ==
    /\ ~At("idle") /\ (At("choose") => due # <<>>)
    /\ FailsAs(Recovery, RunBlocked)
    /\ IF M.state \in Final
         THEN UNCHANGED <<journal, derailed>>
         ELSE /\ journal' = [journal EXCEPT ![Current].state = "recovery_required"]
              /\ derailed' = derailed \cup IF Decided THEN {Current} ELSE {}
    /\ IF Waiting = {}
         THEN Ends
         ELSE /\ pos' = [w \in Workers |->
                   CASE w = Recovery -> Resting
                     [] w \in Waiting -> [Resting EXCEPT !.step = "over"]
                     [] OTHER -> pos[w]]
              /\ lock' = None /\ frozen' = TRUE /\ due' = <<>>
              /\ stale' = stale \cup
                   ((Readers(Current) \ {Recovery}) \X IF M.state \in Final THEN {} ELSE {Current})
              /\ UNCHANGED task
    /\ UNCHANGED <<disk, order, records, crashes, uses, foreign, touched, removed, misled,
                   raced>>

RecoveryStep ==
    \/ Choose \/ Compensate \/ Probe \/ Confirm \/ Verify \/ Sweep \/ Recorded
    \/ RollbackStep(Recovery) \/ RolledBack
    \/ Decide(Recovery) \/ Drop(Recovery) \/ Dropped(Recovery) \/ FinishCommitted
    \/ RunEnds \/ RunFails
=============================================================================
