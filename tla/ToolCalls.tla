----------------------------- MODULE ToolCalls ------------------------------
(***************************************************************************)
(* A tool call from the client to its result: the lifecycle of its server,  *)
(* the lane in which the tools that write run one after the other           *)
(* (ToolExecutionCoordinator, tools/runtime/pipeline.ts), the Policy Kernel *)
(* with its approvals, the handler; and a server that closes meanwhile.     *)
(***************************************************************************)
EXTENDS ToolLifecycle, Approvals

CONSTANTS
    Workloads,      \* bound: the calls to look at, records of made, want, home, owned, limits
    Closing         \* the bindings of close_workspace

ASSUME ClosingAssumption == Closing \subseteq {b \in Bindings : Risk[b] # "R0"}

ASSUME WorkloadAssumption ==
    \A w \in Workloads :
    /\ w.made \subseteq Calls /\ w.owned \subseteq Servers
    /\ w.want \in [Calls -> Bindings] /\ w.home \in [Calls -> Servers]
    /\ w.limits \in [ticks : Nat, faults : 0..MaxFaults, closings : BOOLEAN]

VARIABLES
    owned,          \* the one server that owns the approvals (stdio); none shares them (HTTP)
    lane            \* per server: the calls in the exclusive lane, in their order

vars == <<lifecycleVars, approvalVars, owned, lane>>

Init ==
    /\ LifecycleInit /\ ApprovalInit
    /\ \E w \in Workloads :
         /\ want = w.want /\ home = w.home /\ owned = w.owned /\ limits = w.limits
         /\ at = [c \in Calls |-> IF c \in w.made THEN "idle" ELSE "over"]
    /\ state = [s \in Servers |-> IF On(s) # {} THEN "accepting" ELSE "disposed"]
    /\ closes = {c \in Calls : want[c] \in Closing}
    /\ lane = [s \in Servers |-> << >>]

InLane(c) == \E k \in DOMAIN lane[home[c]] : lane[home[c]][k] = c

\* The action of the lifecycle: a tool that only reads goes to the Policy Kernel,
\* any other takes its place in the lane.
Begin(c) ==
    /\ at[c] = "running" /\ step[c] = "none"
    /\ IF Free(c)
         THEN Goto(c, "start") /\ UNCHANGED lane
         ELSE Goto(c, "lane") /\ lane' = [lane EXCEPT ![home[c]] = Append(@, c)]
    /\ UNCHANGED <<lifecycleVars, owned>>
    /\ UNCHANGED <<live, held, queue, reuses>> /\ ApprovalsRest

\* Its turn in the lane; the client may have given the call up.
TakeLane(c) ==
    /\ step[c] = "lane" /\ Head(lane[home[c]]) = c
    /\ Goto(c, "start") \/ Goto(c, "refused")
    /\ UNCHANGED <<lifecycleVars, owned, lane>>
    /\ UNCHANGED <<live, held, queue, reuses>> /\ ApprovalsRest

Ended(c) == step[c] \in {"done", "refused"}

LeaveLane(c) ==
    /\ Ended(c) /\ InLane(c)
    /\ lane' = [lane EXCEPT ![home[c]] = Tail(@)]
    /\ UNCHANGED <<lifecycleVars, approvalVars, owned>>

Served(c) ==
    /\ Ended(c) /\ ~InLane(c)
    /\ Finish(c)
    /\ UNCHANGED <<approvalVars, owned, lane>>

\* A server of its own closes the approvals when its calls have drained; the HTTP
\* server closes the shared ones once every session's server has begun to close.
Close ==
    /\ \/ owned = {} /\ \A s \in Servers : state[s] # "accepting"
       \/ \E s \in owned : state[s] = "quiescing" /\ IsDrained(s)
    /\ CloseApprovals
    /\ UNCHANGED <<lifecycleVars, owned, lane>>

Dispose(s) ==
    /\ s \in owned => runtime = "closed"
    /\ MarkDisposed(s)
    /\ UNCHANGED <<approvalVars, owned, lane>>

Lifecycle(c) == (Arrive(c) \/ Resume(c)) /\ UNCHANGED <<approvalVars, owned, lane>>
Approval == (Operate \/ Own \/ Tick \/ ClearGrants) /\ UNCHANGED <<lifecycleVars, owned, lane>>
Policy(c) == Kernel(c) /\ UNCHANGED <<lifecycleVars, owned, lane>>
BeginClose(s) == Quiesce(s) /\ UNCHANGED <<approvalVars, owned, lane>>

Next ==
    \/ \E c \in Calls : Lifecycle(c) \/ Begin(c) \/ TakeLane(c) \/ Policy(c) \/ LeaveLane(c) \/ Served(c)
    \/ \E s \in Servers : BeginClose(s) \/ Dispose(s)
    \/ Approval \/ Close

\* The event loop resumes what is ready, the log answers, a handler ends.
Fairness ==
    /\ WF_vars(\E c \in Calls : Resume(c) /\ UNCHANGED <<approvalVars, owned, lane>>)
    /\ WF_vars(Operate /\ UNCHANGED <<lifecycleVars, owned, lane>>)
    /\ WF_vars(ClearGrants /\ UNCHANGED <<lifecycleVars, owned, lane>>)
    /\ \A c \in Calls : WF_vars(Begin(c) \/ TakeLane(c) \/ Policy(c) \/ LeaveLane(c) \/ Served(c))
    /\ \A s \in Servers : WF_vars(Dispose(s))
    /\ WF_vars(Close)

Spec == Init /\ [][Next]_vars /\ Fairness

-----------------------------------------------------------------------------
(* Properties                                                               *)

Running(s) == {c \in On(s) : at[c] = "running"}
Inside == {c \in Calls : step[c] \notin {"none", "lane", "done", "refused"}}

Gate == INSTANCE ToolGate WITH
    writes <- {c \in Calls : ~Free(c)},
    disposed <- {s \in Servers : state[s] = "disposed"},
    inside <- Inside

\* close_workspace runs beside no other call of its server, the tools that write
\* run one after the other, and no call is between policy and result on a server
\* whose resources are gone: although run and runExclusive never look again at
\* what they waited for (mutations/lifecycle.ts:97-136).
ImplementsGate == Gate!GateSpec

\* A handler that needs a decision runs on an approval of exactly its binding
\* that is consumed in the log, by itself, or earlier where a grant may be used
\* again; an R3 approval lets one call run (control/runtime.ts:164-218,
\* policy/integration.ts:335-341).
ExecutionBacked ==
    \A c \in Calls : step[c] \in {"admitted", "handler", "done"} /\ ~Free(c) =>
        LET i == issued[took[c]] IN
        /\ i # 0 /\ abind[i] = want[c] /\ astate[i] = "consumed"
        /\ c \notin reuses => aholder[i] = {c}
        /\ Risk[want[c]] = "R3" => c \notin reuses

\* The dedupe index names the one open approval of a binding, whatever order
\* sweeps, decisions and requests take: a second request never opens a second
\* approval, and a decided one never swallows a new request
\* (policy/pendingApprovals.ts:162-206, 347-375).
DedupeExact ==
    \A b \in Bindings :
        {i \in Ids : IsActive(i) /\ abind[i] = b} = IF dedupe[b] = 0 THEN {} ELSE {dedupe[b]}

\* While the log can be written no approval stays reserved for a call that is
\* over: retries of the operation would be told to wait for it until it expires
\* (control/runtime.ts:164-231).
NoOrphanReservation ==
    faults = 0 =>
    \A i \in Ids : astate[i] = "reserved" =>
        \/ \E c \in aholder[i] : issued[took[c]] = i /\ step[c] \notin {"done", "refused"}
        \/ runtime = "closing"

\* Every call gets its result and a server that begins to close is disposed:
\* nobody waits for a turn, the lane, the promise chain or the drain for ever.
Underway(c) == at[c] \in Waiting \cup {"running"}
ComesToRest == []<>((\A c \in Calls : ~Underway(c)) /\ \A s \in Servers : state[s] # "quiescing")
=============================================================================
