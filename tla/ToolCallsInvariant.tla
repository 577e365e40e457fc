------------------------- MODULE ToolCallsInvariant -------------------------
(***************************************************************************)
(* The inductive invariant of ToolCalls: who runs beside whom (GateInv) and *)
(* what an approval, its grant and the calls that use it know of each other *)
(* (ApprovalInv).                                                           *)
(***************************************************************************)
EXTENDS ToolCalls

Has(q, c) == \E k \in DOMAIN q : q[k] = c
Injective(q) == \A i, j \in DOMAIN q : q[i] = q[j] => i = j

-----------------------------------------------------------------------------
(* Types                                                                    *)

\* Where a call waits for an operation of the approval store; where it has a
\* reservation, or had one until just now; and everywhere else.
Awaiting == {"asking", "marking", "consuming", "burning", "burningOn", "unwinding"}
Holding  == {"marking", "unmarked", "reserved", "authorized", "consuming", "consumed",
             "unconsumed", "burning", "burningOn", "unwinding"}
Steps    == {"none", "lane", "start", "asking", "admitted", "handler", "done", "refused"} \cup Holding

Ops == [kind : {"request"}, who : Calls, ref : {b \in Bindings : Risk[b] # "R0"}, at : Nat]
       \cup [kind : {"reserve", "consume", "burn"}, who : Calls, ref : Grants, at : Nat]
       \cup [kind : {"prepare", "approve", "deny"}, who : {"owner"}, ref : Ids, at : Nat]
       \cup [kind : {"expire"}, who : {"owner", "reader"}, ref : {0}, at : Nat]
       \cup [kind : {"close"}, who : {"runtime"}, ref : {0}, at : Nat]

Deciding == {"expiring", "looking", "inspecting", "denying", "preparing", "issuing",
             "approving", "withdrawing"}
OwnerStates == [pc : {"idle"} \cup Deciding, verdict : {"none", "approve", "deny"},
                id : {0} \cup Ids, at : Nat, grant : {0} \cup Grants]

LifecycleTypeOK ==
    /\ home \in [Calls -> Servers]
    /\ closes \in SUBSET Calls
    /\ state \in [Servers -> {"accepting", "quiescing", "disposed"}]
    /\ active \in [Servers -> Nat] /\ pending \in [Servers -> Nat]
    /\ turns \in [Servers -> Seq(Calls)] /\ waiters \in [Servers -> Seq(Calls)]
    /\ jobs \in Seq(Calls)
    /\ at \in [Calls -> Places]

ApprovalTypeOK ==
    /\ want \in [Calls -> Bindings]
    /\ limits \in [ticks : Nat, faults : 0..MaxFaults, closings : BOOLEAN]
    /\ clock \in Nat /\ faults \in 0..limits.faults
    /\ runtime \in {"open", "closing", "swept", "closed"}
    /\ astate \in [Ids -> {"none"} \cup Active \cup Terminal]
    /\ abind \in [Ids -> Bindings] /\ aexp \in [Ids -> Nat]
    /\ agrant \in [Ids -> {0} \cup Grants] /\ aholder \in [Ids -> SUBSET Calls]
    /\ dedupe \in [Bindings -> {0} \cup Ids] /\ recent \in [Sessions -> Nat]
    /\ issued \in [Grants -> {0} \cup Ids]
    /\ live \in SUBSET Grants /\ held \in [Grants -> SUBSET Calls]
    /\ queue \in Seq(Ops)
    /\ owner \in OwnerStates
    /\ step \in [Calls -> Steps]
    /\ took \in [Calls -> {0} \cup Grants] /\ reuses \in SUBSET Calls

TypeOK ==
    /\ LifecycleTypeOK /\ ApprovalTypeOK
    /\ closes = {c \in Calls : want[c] \in Closing}
    /\ lane \in [Servers -> Seq(Calls)] /\ owned \in SUBSET Servers

-----------------------------------------------------------------------------
(* Who runs beside whom                                                     *)

\* The calls the event loop is about to resume.
JobsExact ==
    /\ Injective(jobs)
    /\ \A c \in Calls : at[c] \in {"turning", "zeroing", "clearing"} <=> Has(jobs, c)

\* The exclusive calls under way, the one whose turn it is first.
TurnsExact ==
    \A s \in Servers :
    /\ Injective(turns[s])
    /\ \A k \in DOMAIN turns[s] :
         /\ turns[s][k] \in closes /\ home[turns[s][k]] = s
         /\ k = 1 => at[turns[s][k]] \in {"turning", "zero", "zeroing", "running"}
         /\ k # 1 => at[turns[s][k]] = "turn"
    /\ \A c \in On(s) \cap closes : at[c] \notin {"idle", "over", "refused"} => Has(turns[s], c)

\* The shared calls that wait until there is no exclusive one.
WaitersExact ==
    /\ \A s \in Servers :
         /\ Injective(waiters[s])
         /\ \A c \in Calls : Has(waiters[s], c) <=> home[c] = s /\ at[c] = "clear"
    /\ \A c \in closes : at[c] \notin {"clear", "clearing"}
    /\ \A c \in Calls : at[c] \in {"turn", "turning", "zero", "zeroing"} => c \in closes

CountersExact ==
    \A s \in Servers :
    /\ active[s] = Cardinality(Running(s))
    /\ pending[s] = Len(turns[s])

\* Why the counters need not be looked at again.
OrderKept ==
    /\ \A i, j \in DOMAIN jobs :
         /\ home[jobs[i]] = home[jobs[j]]
         /\ jobs[i] \in closes /\ at[jobs[j]] = "clearing"
         => j < i /\ at[jobs[i]] = "turning"
    /\ \A c, d \in Calls : at[c] = "zero" /\ home[d] = home[c] => at[d] # "clearing"
    /\ \A c \in Calls : at[c] = "zeroing" => active[home[c]] = 0
    /\ \A c \in closes, d \in Calls : at[c] = "running" /\ home[d] = home[c] =>
         at[d] # "clearing" /\ (at[d] = "running" => d = c)

DisposedIsDrained ==
    \A s \in Servers : state[s] = "disposed" => IsDrained(s)

\* A writer is at the head of its lane from its policy decision to its result.
LaneExact ==
    /\ \A s \in Servers :
         /\ Injective(lane[s])
         /\ \A k \in DOMAIN lane[s] :
              /\ home[lane[s][k]] = s /\ ~Free(lane[s][k]) /\ at[lane[s][k]] = "running"
              /\ step[lane[s][k]] # "none"
              /\ k # 1 => step[lane[s][k]] = "lane"
    /\ \A c \in Calls :
         /\ step[c] \notin {"none", "done", "refused"} => at[c] = "running" /\ (~Free(c) => InLane(c))
         /\ step[c] = "lane" => ~Free(c)
         /\ at[c] \notin {"running", "over", "refused"} => step[c] = "none"

LifecycleInv ==
    /\ JobsExact /\ TurnsExact /\ WaitersExact /\ CountersExact /\ OrderKept
    /\ DisposedIsDrained

GateInv == LifecycleInv /\ LaneExact

-----------------------------------------------------------------------------
(* What the promise chain, the stores and the calls know of each other      *)

\* A call that is answered is one that waits, for the operation it asked for.
CallOp(c) ==
    CASE step[c] = "asking"    -> [kind |-> "request", ref |-> want[c]]
      [] step[c] = "marking"   -> [kind |-> "reserve", ref |-> took[c]]
      [] step[c] = "consuming" -> [kind |-> "consume", ref |-> took[c]]
      [] OTHER                 -> [kind |-> "burn", ref |-> took[c]]

AwaitsExact ==
    /\ \A j, k \in DOMAIN queue : queue[j].who = queue[k].who /\ queue[j].who \in Calls => j = k
    /\ \A k \in DOMAIN queue : queue[k].who \in Calls =>
         LET c == queue[k].who IN
         step[c] \in Awaiting /\ [kind |-> queue[k].kind, ref |-> queue[k].ref] = CallOp(c)

OwnerExact ==
    /\ \A j, k \in DOMAIN queue : queue[j].who = "owner" /\ queue[k].who = "owner" => j = k
    /\ \A k \in DOMAIN queue : queue[k].who = "owner" =>
         /\ owner.pc = CASE queue[k].kind = "expire"  -> "expiring"
                         [] queue[k].kind = "deny"    -> "denying"
                         [] queue[k].kind = "prepare" -> "preparing"
                         [] OTHER                     -> "approving"
         /\ queue[k].kind # "expire" => queue[k].ref = owner.id
    /\ owner.pc # "idle" => owner.id # 0 /\ astate[owner.id] # "none"
    /\ owner.pc \in {"approving", "withdrawing"} => owner.grant # 0 /\ issued[owner.grant] = owner.id

\* An approval and its grant.
GrantsExact ==
    /\ \A g \in Grants : issued[g] # 0 => astate[issued[g]] # "none"
    /\ \A g \in live : issued[g] # 0
    /\ \A i \in Ids : agrant[i] # 0 => issued[agrant[i]] = i
    /\ \A i \in Ids : astate[i] \in {"granted", "reserved", "consumed", "burned"} => agrant[i] # 0

\* A call and the grant it took.
TookExact ==
    \A c \in Calls :
    /\ step[c] \in Holding => took[c] # 0
    /\ step[c] \in {"admitted", "handler", "done"} /\ ~Free(c) => took[c] # 0
    /\ step[c] \in {"none", "lane", "start", "asking"} => took[c] = 0 /\ c \notin reuses
    /\ took[c] # 0 => issued[took[c]] # 0 /\ abind[issued[took[c]]] = want[c]
    /\ c \in reuses => took[c] # 0 /\ astate[issued[took[c]]] = "consumed" /\ Risk[want[c]] # "R3"
    /\ step[c] = "consumed" => astate[issued[took[c]]] = "consumed" /\ aholder[issued[took[c]]] = {c}

\* Nothing is asked for once the approvals begin to close.
ChainExact ==
    /\ \A j, k \in DOMAIN queue : queue[j].kind = "close" =>
         (queue[k].kind = "request" => k < j) /\ (queue[k].kind = "close" => k = j)
    /\ \A k \in DOMAIN queue : queue[k].kind = "close" => runtime = "closing"
    /\ runtime \in {"swept", "closed"} => \A k \in DOMAIN queue : queue[k].kind # "request"

\* While the log can be written and the approvals are open, a reserved approval
\* belongs to a call that will still consume or burn it; once they are closed
\* no approval is open any more.
Used(i) ==
    \E c \in Calls :
    aholder[i] = {c} /\ took[c] = agrant[i] /\ step[c] \in {"reserved", "consuming", "burning", "burningOn"}

ReservationsKept ==
    faults = 0 =>
    /\ runtime = "open" => \A i \in Ids : astate[i] = "reserved" => Used(i)
    /\ runtime \in {"swept", "closed"} => \A i \in Ids : ~IsActive(i)

\* There is a number for each approval, and for each grant, that is still to come.
Requested == {i \in Ids : astate[i] # "none"}
Asked     == {c \in Calls : step[c] \notin {"none", "lane", "start", "asking"}}
Settled   == {i \in Ids :
                IF owner.id = i /\ owner.pc \in {"inspecting", "preparing", "issuing", "approving"}
                  THEN owner.pc = "approving"
                  ELSE agrant[i] # 0 \/ astate[i] \in Terminal}
NumbersLeft ==
    /\ Cardinality(Requested) <= Cardinality(Asked)
    /\ Cardinality({g \in Grants : issued[g] # 0}) <= Cardinality(Settled) + faults

ApprovalInv ==
    /\ AwaitsExact /\ OwnerExact /\ GrantsExact /\ TookExact /\ DedupeExact /\ ExecutionBacked
    /\ ChainExact /\ ReservationsKept /\ NumbersLeft

CallsInv == TypeOK /\ GateInv /\ ApprovalInv
=============================================================================
