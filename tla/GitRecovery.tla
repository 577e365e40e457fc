---------------------------- MODULE GitRecovery -----------------------------
(***************************************************************************)
(* The startup of the servers: every record that is not complete is        *)
(* recovered under the lock of its repository, and a server serves Git     *)
(* mutations only when no repository is frozen.  With crashes in between.  *)
(***************************************************************************)
EXTENDS GitJournal

Listed(s, o) == rec[o] \notin Complete \union {"none"}

Start(s) ==
    /\ up[s] = "down" /\ up' = [up EXCEPT ![s] = "starting"]
    /\ seen' = [seen EXCEPT ![s] = [o \in Op |-> IF Listed(s, o) THEN rec[o] ELSE "none"]]
    /\ todo' = [todo EXCEPT ![s] = {o \in Op : Listed(s, o)}]
    /\ UNCHANGED <<pc, disk, at, history>>

Turn(s, o) == up[s] = "starting" /\ at[s] = "none" /\ o \in todo[s]

SkipAgain(s, o) ==  \* mutant
    /\ Turn(s, o) /\ ~Free(In[o]) /\ Freeze(In[o])
    /\ UNCHANGED <<pc, effect, rec, lock, startup, history>>

\* Whoever holds the lock: the owner is not asked, the repository is frozen.
Skip(s, o) ==
    /\ Turn(s, o) /\ ~Free(In[o]) /\ Freeze(In[o])
    /\ todo' = [todo EXCEPT ![s] = @ \ {o}]
    /\ UNCHANGED <<pc, effect, rec, lock, up, seen, at, history>>

Take(s, o) ==
    /\ Turn(s, o) /\ Free(In[o]) /\ Lock(In[o], s)
    /\ at' = [at EXCEPT ![s] = o]
    /\ UNCHANGED <<pc, effect, rec, frozen, up, seen, todo, history>>

Recovering(s, o) == up[s] = "starting" /\ at[s] = o /\ o \in todo[s]
Decided(s, o) == todo' = [todo EXCEPT ![s] = @ \ {o}]

\* The probe of every participant says "absent".
NoEffect(o) == o \in Provable /\ o \notin effect

CanUndo(s, o) ==
    /\ NoEffect(o)
    /\ CanMove(o, seen[s][o],
               IF seen[s][o] = "rolling_back" THEN "rolled_back" ELSE "rolling_back")

\* Two writes, as in the journal.
Undo(s, o) ==
    /\ Recovering(s, o) /\ CanUndo(s, o)
    /\ IF seen[s][o] # "rolling_back"
         THEN /\ Record(o, "rolling_back")
              /\ seen' = [seen EXCEPT ![s][o] = "rolling_back"] /\ UNCHANGED todo
         ELSE Record(o, "rolled_back") /\ Decided(s, o) /\ UNCHANGED seen
    /\ UNCHANGED <<pc, effect, frozen, lock, up, at, history>>

\* A participant is present or unknown, or the record is no longer the one that
\* was listed.
Require(s, o) ==
    /\ Recovering(s, o) /\ ~CanUndo(s, o) /\ Freeze(In[o]) /\ Decided(s, o)
    /\ Record(o, IF CanMove(o, seen[s][o], "recovery_required") /\ ~NoEffect(o)
                 THEN "recovery_required" ELSE rec[o])
    /\ UNCHANGED <<pc, effect, lock, up, seen, at, history>>

\* Its lock is given back.
Leave(s) ==
    /\ up[s] = "starting" /\ at[s] \notin todo[s] \union {"none"}
    /\ Lock(In[at[s]], "free") /\ at' = [at EXCEPT ![s] = "none"]
    /\ UNCHANGED <<pc, effect, rec, frozen, up, seen, todo, history>>

\* A server that is not ready rejects its startup, and ends.
Forgotten(s) ==
    /\ seen' = [seen EXCEPT ![s] = [o \in Op |-> "none"]]
    /\ todo' = [todo EXCEPT ![s] = {}]
    /\ at' = [at EXCEPT ![s] = "none"]

Serve(s) ==
    /\ up[s] = "starting" /\ todo[s] = {} /\ at[s] = "none"
    /\ up' = [up EXCEPT ![s] = IF frozen = {} THEN "ready" ELSE "down"]
    /\ IF frozen = {} THEN UNCHANGED <<seen, todo, at>> ELSE Forgotten(s)
    /\ UNCHANGED <<pc, disk, history>>

----------------------------------------------------------------------------
\* The server is gone; the lock directories that are its own stay.
Orphaned(s) ==
    lock' = [r \in Repository |-> IF lock[r] = s THEN "orphan" ELSE lock[r]]

\* The freeze of a repository whose lock is busy fails: so does the startup.
SkipFails(s) ==
    /\ \E o \in Op : Turn(s, o) /\ ~Free(In[o]) /\ In[o] \notin frozen
    /\ up' = [up EXCEPT ![s] = "down"] /\ Forgotten(s)
    /\ UNCHANGED <<effect, rec, frozen, lock>>

\* A transition of the record fails, or the audit of a rollback does.  When the
\* freeze fails as well the server ends as in a crash.
RecoverFails(s) ==
    /\ \E o \in Op :
          /\ Recovering(s, o) /\ Decided(s, o) /\ Freeze(In[o])
          /\ \/ UNCHANGED rec
             \/ CanUndo(s, o) /\ rec[o] = "rolling_back" /\ Record(o, "rolled_back")
    /\ UNCHANGED <<effect, lock, up, seen, at>>

LeaveFails(s) ==
    /\ up[s] = "starting" /\ at[s] \notin todo[s] \union {"none"}
    /\ Freeze(In[at[s]]) /\ at' = [at EXCEPT ![s] = "none"]
    /\ Lock(In[at[s]], "orphan") \/ Lock(In[at[s]], "free")
    /\ UNCHANGED <<effect, rec, up, seen, todo>>

StartupFailure(s) ==
    /\ troubles < MaxTrouble /\ troubles' = troubles + 1
    /\ SkipFails(s) \/ RecoverFails(s) \/ LeaveFails(s)
    /\ UNCHANGED <<pc, missed>>

Crash(s) ==
    /\ up[s] # "down" /\ troubles < MaxTrouble /\ troubles' = troubles + 1
    /\ up' = [up EXCEPT ![s] = "down"] /\ Forgotten(s) /\ Orphaned(s)
    /\ pc' = [o \in Op |->
                IF Home[o] # s \/ pc[o] \notin Busy THEN pc[o]
                ELSE IF pc[o] \in {"executing", "observing"} THEN "interrupted" ELSE "dead"]
    /\ UNCHANGED <<effect, rec, frozen, missed>>

StartupStep(s) ==
    \/ \E o \in Op : Skip(s, o) \/ Take(s, o) \/ Undo(s, o) \/ Require(s, o)
    \/ Leave(s) \/ Serve(s)

Next ==
    \/ \E o \in Op : Begin(o) \/ JournalStep(o) \/ PreEffectFails(o) \/ Effect(o) \/ Failure(o)
    \/ \E s \in Server : Start(s) \/ StartupStep(s) \/ StartupFailure(s) \/ Crash(s)

\* The process goes on with what it has begun, and an external git comes to an
\* end.  Nothing makes callers ask, servers start, writes fail or servers die.
Fairness ==
    /\ \A o \in Op : WF_vars(JournalStep(o))
    /\ \A s \in Server : WF_vars(StartupStep(s))

Spec == Init /\ [][Next]_vars /\ Fairness

----------------------------------------------------------------------------
\* The states of a record that leave open whether the effect has happened.
Tells == {"executing", "effect_observed", "audit_pending", "committed", "recovery_required"}

(***************************************************************************)
(* "Unprovable restart state freezes the repository": an effect is never   *)
(* hidden by a record that says it has not begun or has been undone, and   *)
(* an effect that is not committed and that nobody works on any more has   *)
(* its repository frozen or locked (unless the freeze could not be         *)
(* written).                                                               *)
(***************************************************************************)
UnprovedIsFrozen ==
    \A o \in effect :
        /\ rec[o] \in Tells
        /\ pc[o] \notin Busy /\ rec[o] # "committed" =>
              \/ In[o] \in frozen \union missed
              \/ lock[In[o]] = o

(***************************************************************************)
(* A server that serves Git mutations has settled every operation it found *)
(* when it started, and they stay settled: no call that was still waiting  *)
(* for its lock, on whatever server, goes on with one.                     *)
(***************************************************************************)
ReadyMeansSettled ==
    \A s \in Server, o \in Op : up[s] = "ready" /\ seen[s][o] # "none" =>
        rec[o] \in Complete /\ (o \in effect => rec[o] = "committed")

(***************************************************************************)
(* The lock "serializes" the mutations of a repository across calls,       *)
(* servers and crashes: no effect happens while another operation of the   *)
(* repository is between the start of its effect and its record, or was    *)
(* when its server died.                                                   *)
(***************************************************************************)
Open(o) == pc[o] \in {"executing", "observing", "completing", "interrupted"}
EffectsAreSerialized ==
    [][\A o, u \in Op : o \in effect' \ effect /\ u # o /\ In[u] = In[o] => ~Open(u)]_vars

(***************************************************************************)
(* Every call of the journal is answered, and every startup comes to an    *)
(* end, whichever writes fail and whoever holds the locks: nobody waits    *)
(* for a lock.                                                             *)
(***************************************************************************)
EverythingEnds ==
    /\ \A o \in Op : pc[o] \in Busy ~> pc[o] \notin Busy
    /\ \A s \in Server : up[s] = "starting" ~> up[s] # "starting"

(***************************************************************************)
(* The result of an effect that has returned is observed, completed and    *)
(* handed to the caller, when no write fails and no server dies.           *)
(***************************************************************************)
ObservedIsCompleted ==
    [][\A o \in Op : pc[o] = "observing" /\ pc'[o] # "observing" => pc'[o] = "completing"]_vars
=============================================================================
