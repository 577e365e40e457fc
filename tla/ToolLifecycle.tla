--------------------------- MODULE ToolLifecycle ---------------------------
(***************************************************************************)
(* ServerMutationLifecycle: the lock every tool call of one MCP server      *)
(* passes (src/mutations/lifecycle.ts).  close_workspace runs alone, all    *)
(* other tools share, and a closing server drains what it accepted.         *)
(*                                                                         *)
(* The class keeps two counters and three lists of waiters and never looks  *)
(* at the counters again after an await, so whether a call runs alone       *)
(* depends on the order in which the event loop resumes the waiters.  That  *)
(* queue is the variable jobs: a resolved promise appends the calls that    *)
(* await it, and the head is resumed first.                                 *)
(***************************************************************************)
EXTENDS ToolCall

VARIABLES
    closes,     \* the calls of close_workspace: the exclusive ones
    state,      \* per server: accepting, quiescing or disposed
    active,     \* per server: activeValue, the calls whose action runs
    pending,    \* per server: exclusivePending, the exclusive calls not yet over
    turns,      \* per server: the exclusive calls in the order of their turns
    waiters,    \* per server: exclusiveClearWaiters
    jobs,       \* the continuations the event loop has ready, in order
    at          \* where each call is

lifecycleVars == <<callFacts, closes, state, active, pending, turns, waiters, jobs, at>>

Waiting  == {"turn", "turning", "zero", "zeroing", "clear", "clearing"}
Places   == {"idle", "running", "over", "refused"} \cup Waiting

LifecycleInit ==
    /\ closes \in SUBSET Calls
    /\ state \in [Servers -> {"accepting", "disposed"}]     \* disposed: never made
    /\ active = [s \in Servers |-> 0]
    /\ pending = [s \in Servers |-> 0]
    /\ turns = [s \in Servers |-> << >>]
    /\ waiters = [s \in Servers |-> << >>]
    /\ jobs = << >>
    /\ at \in [Calls -> {"idle", "over"}]     \* over: never made

Move(c, place) == at' = [at EXCEPT ![c] = place]
IsDrained(s) == active[s] = 0 /\ pending[s] = 0

-----------------------------------------------------------------------------
(* A call arrives.                                                          *)

Refuse(c) ==
    /\ at[c] = "idle"
    /\ state[home[c]] # "accepting"
    /\ Move(c, "refused")
    /\ UNCHANGED <<callFacts, closes, state, active, pending, turns, waiters, jobs>>

\* run with no exclusive call about: the action starts at once.
Share(c) ==
    LET s == home[c] IN
    /\ at[c] = "idle" /\ c \notin closes
    /\ state[s] = "accepting"
    /\ pending[s] = 0
    /\ active' = [active EXCEPT ![s] = @ + 1]
    /\ Move(c, "running")
    /\ UNCHANGED <<callFacts, closes, state, pending, turns, waiters, jobs>>

\* run with an exclusive call about: wait until there is none.
WaitForExclusiveClear(c) ==
    LET s == home[c] IN
    /\ at[c] = "idle" /\ c \notin closes
    /\ state[s] = "accepting"
    /\ pending[s] > 0
    /\ waiters' = [waiters EXCEPT ![s] = Append(@, c)]
    /\ Move(c, "clear")
    /\ UNCHANGED <<callFacts, closes, state, active, pending, turns, jobs>>

\* mutant: a turn that has already come is not awaited
RunExclusiveAtOnce(c) ==
    LET s == home[c] IN
    /\ at[c] = "idle" /\ c \in closes
    /\ state[s] = "accepting"
    /\ pending' = [pending EXCEPT ![s] = @ + 1]
    /\ turns' = [turns EXCEPT ![s] = Append(@, c)]
    /\ IF turns[s] = << >> /\ active[s] = 0
         THEN Move(c, "zeroing") /\ jobs' = Append(jobs, c)
         ELSE Move(c, IF turns[s] = << >> THEN "zero" ELSE "turn") /\ UNCHANGED jobs
    /\ UNCHANGED <<callFacts, closes, state, active, waiters>>

\* runExclusive: take the next turn, which may already have come.
RunExclusive(c) ==
    LET s == home[c] IN
    /\ at[c] = "idle" /\ c \in closes
    /\ state[s] = "accepting"
    /\ pending' = [pending EXCEPT ![s] = @ + 1]
    /\ turns' = [turns EXCEPT ![s] = Append(@, c)]
    /\ IF turns[s] = << >>
         THEN Move(c, "turning") /\ jobs' = Append(jobs, c)
         ELSE Move(c, "turn") /\ UNCHANGED jobs
    /\ UNCHANGED <<callFacts, closes, state, active, waiters>>

-----------------------------------------------------------------------------
(* The event loop resumes the call at the head of its queue.                *)

\* waitForActiveZero: go on if nothing runs (one more turn of the queue),
\* wait for the last running call otherwise.
TakeTurn(c) ==
    /\ jobs # << >> /\ Head(jobs) = c
    /\ at[c] = "turning"
    /\ IF active[home[c]] = 0
         THEN Move(c, "zeroing") /\ jobs' = Append(Tail(jobs), c)
         ELSE Move(c, "zero") /\ jobs' = Tail(jobs)
    /\ UNCHANGED <<callFacts, closes, state, active, pending, turns, waiters>>

\* Neither the counters nor the state are looked at again.
EnterAlone(c) ==
    LET s == home[c] IN
    /\ jobs # << >> /\ Head(jobs) = c
    /\ at[c] = "zeroing"
    /\ jobs' = Tail(jobs)
    /\ active' = [active EXCEPT ![s] = @ + 1]
    /\ Move(c, "running")
    /\ UNCHANGED <<callFacts, closes, state, pending, turns, waiters>>

\* mutant: nor does a shared call look at the state again
EnterSharedBlindly(c) ==
    LET s == home[c] IN
    /\ jobs # << >> /\ Head(jobs) = c
    /\ at[c] = "clearing"
    /\ jobs' = Tail(jobs)
    /\ active' = [active EXCEPT ![s] = @ + 1] /\ Move(c, "running")
    /\ UNCHANGED <<callFacts, closes, state, pending, turns, waiters>>

\* A shared call looks at the state again, not at exclusivePending.
EnterShared(c) ==
    LET s == home[c] IN
    /\ jobs # << >> /\ Head(jobs) = c
    /\ at[c] = "clearing"
    /\ jobs' = Tail(jobs)
    /\ IF state[s] = "accepting"
         THEN active' = [active EXCEPT ![s] = @ + 1] /\ Move(c, "running")
         ELSE Move(c, "refused") /\ UNCHANGED active
    /\ UNCHANGED <<callFacts, closes, state, pending, turns, waiters>>

-----------------------------------------------------------------------------
(* The action of a call ends: the counters go down, the next turn comes,    *)
(* and notifyStateChange resumes those who waited for this.                 *)

\* The exclusive call whose turn it is, when it waits for the running ones.
AtZero(s) == {c \in On(s) : at[c] = "zero"}

\* mutant: the end of the last running call resumes nobody
NoZeroWaiters(s) == << >>

ZeroWaiters(s) == IF AtZero(s) = {} THEN << >> ELSE <<CHOOSE c \in AtZero(s) : TRUE>>

FinishShared(c) ==
    LET s == home[c]
        zero  == IF active[s] = 1 THEN ZeroWaiters(s) ELSE << >>
        clear == IF pending[s] = 0 THEN waiters[s] ELSE << >>
    IN
    /\ at[c] = "running" /\ c \notin closes
    /\ active' = [active EXCEPT ![s] = @ - 1]
    /\ jobs' = jobs \o zero \o clear
    /\ waiters' = [waiters EXCEPT ![s] = IF pending[s] = 0 THEN << >> ELSE @]
    /\ at' = [d \in Calls |->
                CASE d = c -> "over"
                  [] d # c /\ active[s] = 1 /\ d \in AtZero(s) -> "zeroing"
                  [] d # c /\ pending[s] = 0 /\ home[d] = s /\ at[d] = "clear" -> "clearing"
                  [] OTHER -> at[d]]
    /\ UNCHANGED <<callFacts, closes, state, pending, turns>>

NextTurn(s) == IF Len(turns[s]) > 1 THEN <<turns[s][2]>> ELSE << >>

FinishExclusive(c) ==
    LET s == home[c]
        clear == IF pending[s] = 1 THEN waiters[s] ELSE << >>
    IN
    /\ at[c] = "running" /\ c \in closes
    /\ active' = [active EXCEPT ![s] = @ - 1]
    /\ pending' = [pending EXCEPT ![s] = @ - 1]
    /\ turns' = [turns EXCEPT ![s] = Tail(@)]
    /\ jobs' = jobs \o NextTurn(s) \o clear
    /\ waiters' = [waiters EXCEPT ![s] = IF pending[s] = 1 THEN << >> ELSE @]
    /\ at' = [d \in Calls |->
                CASE d = c -> "over"
                  [] d # c /\ Len(turns[s]) > 1 /\ d = turns[s][2] -> "turning"
                  [] d # c /\ pending[s] = 1 /\ home[d] = s /\ at[d] = "clear" -> "clearing"
                  [] OTHER -> at[d]]
    /\ UNCHANGED <<callFacts, closes, state>>

Finish(c) == FinishShared(c) \/ FinishExclusive(c)

-----------------------------------------------------------------------------
(* The server closes: no call is accepted any more, the accepted ones       *)
(* drain, then the resources go and the lifecycle is marked disposed.       *)

Quiesce(s) ==
    /\ limits.closings
    /\ state[s] = "accepting"
    /\ state' = [state EXCEPT ![s] = "quiescing"]
    /\ UNCHANGED <<callFacts, closes, active, pending, turns, waiters, jobs, at>>

MarkDisposed(s) ==
    /\ state[s] = "quiescing"
    /\ IsDrained(s)
    /\ state' = [state EXCEPT ![s] = "disposed"]
    /\ UNCHANGED <<callFacts, closes, active, pending, turns, waiters, jobs, at>>

Arrive(c) == Refuse(c) \/ Share(c) \/ WaitForExclusiveClear(c) \/ RunExclusive(c)
Resume(c) == TakeTurn(c) \/ EnterAlone(c) \/ EnterShared(c)

LifecycleNext ==
    \/ \E c \in Calls : Arrive(c) \/ Resume(c) \/ Finish(c)
    \/ \E s \in Servers : Quiesce(s) \/ MarkDisposed(s)

LifecycleSpec == LifecycleInit /\ [][LifecycleNext]_lifecycleVars
=============================================================================
