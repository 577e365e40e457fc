----------------------------- MODULE Approvals -----------------------------
(***************************************************************************)
(* Approvals: how a call that needs a local decision gets one.              *)
(*                                                                         *)
(* Two stores keep one fact.  PendingApprovalStore                          *)
(* (policy/pendingApprovals.ts) holds the approvals; its operations run one *)
(* at a time on a promise chain, each transition is written to the audit    *)
(* log before it takes effect, and that write may fail.  SessionGrantStore  *)
(* (policy/approval.ts) holds the grants an approval was turned into and    *)
(* the reservations of the calls that use them; its operations are          *)
(* synchronous.  LocalApprovalRuntimeV3 (control/runtime.ts) keeps the two  *)
(* in step for the Policy Kernel, LocalApprovalServer                       *)
(* (control/localApprovalServer.ts) for the owner who decides.              *)
(***************************************************************************)
EXTENDS ToolCall

CONSTANTS
    Risk,           \* binding -> its risk class
    SessionOf,      \* binding -> its transport session
    Ttl,            \* risk class -> lifetime of an approval, in ticks
    MaxPending,     \* maxServerPending
    MaxSession,     \* maxSessionPending
    MaxNew,         \* maxNewPerSessionPerMinute; a tick is longer than a minute
    MaxFaults       \* bound: failed writes of the audit log

Sessions == {SessionOf[b] : b \in Bindings}

ASSUME ApprovalAssumption ==
    /\ Risk \in [Bindings -> {"R0", "R1", "R2", "R3"}]
    /\ Ttl \in [{"R1", "R2", "R3"} -> Nat \ {0}]
    /\ {MaxPending, MaxSession, MaxNew, MaxFaults} \subseteq Nat

\* The others who put operations on the chain are not calls.
ASSUME OthersAssumption == Calls \cap {"owner", "reader", "runtime"} = {}

\* A call asks at most once; a decision is repeated only after a failed write.
Ids    == 1..Cardinality(Calls)
Grants == 1..(Cardinality(Calls) + MaxFaults)

VARIABLES
    clock, faults,
    runtime,    \* LocalApprovalRuntimeV3: open, closing, swept or closed
    astate,     \* approval -> its state, "none" before it is requested
    abind,      \* approval -> its binding
    aexp,       \* approval -> expiresAt
    agrant,     \* approval -> grantId, 0 for null
    aholder,    \* approval -> the call of its reservationId: a set of one or none
    dedupe,     \* binding -> the approval that stands for it, 0 for none
    recent,     \* session -> the requests of the last minute
    issued,     \* grant -> the approval it was issued for, 0 before
    live,       \* the grants of the session store
    held,       \* grant -> the call with a reservation of it: a set of one or none
    queue,      \* the operations on the promise chain, the running one first
    owner,      \* the decision the owner is taking
    step,       \* call -> where it is in the Policy Kernel
    took,       \* call -> the grant it reserved, 0 for none
    reuses      \* the calls whose approval an earlier call had consumed

storeVars == <<astate, abind, aexp, agrant, aholder, dedupe, recent>>
grantVars == <<issued, live, held>>
callVars == <<step, took, reuses>>
approvalVars == <<callFacts, clock, faults, runtime, storeVars, grantVars, queue, owner, callVars>>

Active   == {"pending", "prepared", "granted", "reserved"}
Terminal == {"denied", "expired", "consumed", "burned"}

IsActive(i) == astate[i] \in Active
Free(c) == Risk[want[c]] = "R0"
OneUse(g) == Risk[abind[issued[g]]] = "R3"

Idle == [pc |-> "idle", verdict |-> "none", id |-> 0, at |-> 0, grant |-> 0]

ApprovalInit ==
    /\ clock = 0 /\ faults = 0 /\ runtime = "open"
    /\ astate = [i \in Ids |-> "none"]
    /\ abind = [i \in Ids |-> CHOOSE b \in Bindings : TRUE]
    /\ aexp = [i \in Ids |-> 0]
    /\ agrant = [i \in Ids |-> 0]
    /\ aholder = [i \in Ids |-> {}]
    /\ dedupe = [b \in Bindings |-> 0]
    /\ recent = [s \in Sessions |-> 0]
    /\ issued = [g \in Grants |-> 0]
    /\ live = {}
    /\ held = [g \in Grants |-> {}]
    /\ queue = << >>
    /\ owner = Idle
    /\ step = [c \in Calls |-> "none"]
    /\ took = [c \in Calls |-> 0]
    /\ reuses = {}

-----------------------------------------------------------------------------
(* The session grant store: synchronous.                                    *)

\* finalizeReservation: a use is spent, and a one-use grant is gone with it.
Finalize(c) ==
    LET g == took[c] IN
    IF c \in held[g]
      THEN /\ held' = [held EXCEPT ![g] = {}]
           /\ live' = IF OneUse(g) THEN live \ {g} ELSE live
      ELSE UNCHANGED <<held, live>>

\* deleteWhere: the grants go, and with them the reservations of them.
Delete(S) ==
    /\ live' = live \ S
    /\ held' = [g \in Grants |-> IF g \in S \cap live THEN {} ELSE held[g]]

Stale == {g \in live : aexp[issued[g]] <= clock}
Matching(c) == {g \in live \ Stale : held[g] = {} /\ abind[issued[g]] = want[c]}
Least(S) == CHOOSE x \in S : \A y \in S : x <= y

-----------------------------------------------------------------------------
(* The promise chain of the approval store.  An operation waits for its     *)
(* turn, sweeps what has expired, and takes its own step; each transition   *)
(* is an entry of the audit log first, and a failed write ends the          *)
(* operation with a rejection.                                              *)

Op(kind, who, ref, at) == [kind |-> kind, who |-> who, ref |-> ref, at |-> at]
Later(op) == queue' = Append(queue, op)

\* What #expire ends before the operation proper, and what closeServer ends.
ToSweep(o) ==
    CASE o.kind \in {"request", "prepare", "approve", "deny", "expire"} ->
            {i \in Ids : IsActive(i) /\ aexp[i] <= o.at}
      [] o.kind = "close" -> {i \in Ids : IsActive(i)}
      [] OTHER -> {}

AtTurn(kind) == queue # << >> /\ Head(queue).kind = kind /\ ToSweep(Head(queue)) = {}

\* mutant: the rejection of markConsumed is not noticed
CallGoesOnAnyway(place, ok) ==
    CASE place = "marking"   -> IF ok THEN "reserved" ELSE "unmarked"
      [] place = "consuming" -> "consumed"
      [] place = "burningOn" -> "authorized"
      [] OTHER -> "refused"

\* Where a call, or the owner, goes on when the await of its operation returns.
CallGoesOn(place, ok) ==
    CASE place = "marking"   -> IF ok THEN "reserved" ELSE "unmarked"
      [] place = "consuming" -> IF ok THEN "consumed" ELSE "unconsumed"
      [] place = "burningOn" -> "authorized"
      [] OTHER -> "refused"

OwnerGoesOn(o, ok) ==
    CASE o.pc = "expiring" /\ ok  -> [o EXCEPT !.pc = "looking"]
      [] o.pc = "preparing" /\ ok -> [o EXCEPT !.pc = "issuing"]
      [] o.pc = "approving" /\ ~ok -> [o EXCEPT !.pc = "withdrawing"]
      [] OTHER -> Idle

Answer(ok) ==
    LET o == Head(queue) IN
    /\ queue' = Tail(queue)
    /\ step' = IF o.who \in Calls THEN [step EXCEPT ![o.who] = CallGoesOn(@, ok)] ELSE step
    /\ owner' = IF o.who = "owner" THEN OwnerGoesOn(owner, ok) ELSE owner
    /\ runtime' = IF o.who = "runtime" THEN "swept" ELSE runtime
    /\ UNCHANGED <<callFacts, clock, grantVars, took, reuses>>

Reply(ok) == Answer(ok) /\ UNCHANGED <<faults, storeVars>>

\* mutant: a denied approval still stands for its binding
TransitionKeepingDenied(i, target) ==
    /\ astate' = [astate EXCEPT ![i] = target]
    /\ dedupe' = IF target \in Terminal \ {"denied"} THEN [dedupe EXCEPT ![abind[i]] = 0] ELSE dedupe
    /\ UNCHANGED <<abind, aexp, recent, faults>>

\* A transition takes effect once it is in the audit log.
Transition(i, target) ==
    /\ astate' = [astate EXCEPT ![i] = target]
    /\ dedupe' = IF target \in Terminal THEN [dedupe EXCEPT ![abind[i]] = 0] ELSE dedupe
    /\ UNCHANGED <<abind, aexp, recent, faults>>

WriteFails ==
    /\ faults < limits.faults
    /\ faults' = faults + 1
    /\ Answer(FALSE)
    /\ UNCHANGED storeVars

\* #expire and #revokeWhere end one approval after the other.
Sweep ==
    /\ queue # << >>
    /\ ToSweep(Head(queue)) # {}
    /\ \/ LET i == Least(ToSweep(Head(queue))) IN
          /\ Transition(i, IF astate[i] = "reserved" THEN "burned" ELSE "expired")
          /\ UNCHANGED <<callFacts, agrant, aholder, clock, runtime, grantVars, queue, owner, callVars>>
       \/ WriteFails

Swept == (AtTurn("expire") \/ AtTurn("close")) /\ Reply(TRUE)

\* request: an open approval for the same binding stands for the new one.
Request ==
    LET b == Head(queue).ref
        now == Head(queue).at
        open == {i \in Ids : IsActive(i) /\ aexp[i] > now}
        full == \/ Cardinality(open) >= MaxPending
                \/ Cardinality({i \in open : SessionOf[abind[i]] = SessionOf[b]}) >= MaxSession
                \/ recent[SessionOf[b]] >= MaxNew
    IN
    /\ AtTurn("request")
    /\ \/ dedupe[b] \in open /\ Reply(TRUE)
       \/ dedupe[b] \notin open /\ full /\ Reply(FALSE)
       \/ /\ dedupe[b] \notin open /\ ~full
          /\ LET i == Least({j \in Ids : astate[j] = "none"}) IN
             /\ astate' = [astate EXCEPT ![i] = "pending"]
             /\ abind' = [abind EXCEPT ![i] = b]
             /\ aexp' = [aexp EXCEPT ![i] = now + Ttl[Risk[b]]]
             /\ dedupe' = [dedupe EXCEPT ![b] = i]
          /\ recent' = [recent EXCEPT ![SessionOf[b]] = @ + 1]
          /\ Answer(TRUE)
          /\ UNCHANGED <<faults, agrant, aholder>>
       \/ dedupe[b] \notin open /\ ~full /\ WriteFails

\* The step of an operation on approval i: nothing to do, a conflict, or a
\* transition.
Decides(i, kind, target, done, from) ==
    /\ AtTurn(kind)
    /\ \/ astate[i] \in done /\ Reply(TRUE)
       \/ astate[i] \notin done \cup from /\ Reply(FALSE)
       \/ /\ astate[i] \in from
          /\ Transition(i, target)
          /\ agrant' = IF kind = "approve" THEN [agrant EXCEPT ![i] = owner.grant] ELSE agrant
          /\ Answer(TRUE)
          /\ UNCHANGED aholder
       \/ astate[i] \in from /\ WriteFails

Open == {"pending", "prepared"}
Prepare == Decides(Head(queue).ref, "prepare", "prepared", {"prepared"}, {"pending"})
Approve == Decides(Head(queue).ref, "approve", "granted",
                   {"granted", "reserved", "consumed", "burned"}, Open)
Deny    == Decides(Head(queue).ref, "deny", "denied", {"denied", "expired"}, Open)

\* markReserved, markConsumed, markBurned of the approval with a grant.
Mark(kind, target) ==
    LET c == Head(queue).who
        its == {i \in Ids : agrant[i] = Head(queue).ref}
        done == \E i \in its : astate[i] = target /\ aholder[i] = {c}
        may == {i \in its : IF target = "reserved" THEN astate[i] = "granted"
                            ELSE astate[i] = "reserved" /\ aholder[i] = {c}}
    IN
    /\ AtTurn(kind)
    /\ \/ done /\ Reply(TRUE)
       \/ ~done /\ may = {} /\ Reply(FALSE)
       \/ /\ ~done
          /\ \E i \in may : Transition(i, target) /\ aholder' = [aholder EXCEPT ![i] = {c}]
          /\ Answer(TRUE)
          /\ UNCHANGED agrant
       \/ ~done /\ may # {} /\ WriteFails

MarkReserved == Mark("reserve", "reserved")
MarkConsumed == Mark("consume", "consumed")
MarkBurned   == Mark("burn", "burned")

Operate ==
    \/ Sweep \/ Swept \/ Request \/ Prepare \/ Approve \/ Deny
    \/ MarkReserved \/ MarkConsumed \/ MarkBurned

-----------------------------------------------------------------------------
(* The Policy Kernel takes a call from authorization to its handler.        *)

Goto(c, place) == step' = [step EXCEPT ![c] = place]
ApprovalsRest == UNCHANGED <<callFacts, clock, faults, runtime, storeVars, issued, owner, took>>

\* No decision is needed, or policy refuses outright.
Decide(c) ==
    /\ step[c] = "start"
    /\ \/ Free(c) /\ Goto(c, "admitted")
       \/ Goto(c, "refused")
    /\ UNCHANGED <<live, held, queue, reuses>> /\ ApprovalsRest

\* reserveMatching takes the first grant that fits.  An approval consumed before
\* is not marked again: its grant may be used until it expires.
Reserve(c) ==
    LET g == Least(Matching(c))
        again == \E i \in Ids : agrant[i] = g /\ astate[i] = "consumed" /\ ~OneUse(g)
    IN
    /\ step[c] = "start" /\ ~Free(c)
    /\ runtime = "open" /\ Matching(c) # {}
    /\ live' = live \ Stale
    /\ held' = [h \in Grants |-> IF h = g THEN {c} ELSE IF h \in Stale THEN {} ELSE held[h]]
    /\ took' = [took EXCEPT ![c] = g]
    /\ \/ again /\ Goto(c, "reserved") /\ reuses' = reuses \cup {c} /\ UNCHANGED queue
       \/ ~again /\ Goto(c, "marking") /\ Later(Op("reserve", c, g, clock)) /\ UNCHANGED reuses
    /\ UNCHANGED <<callFacts, clock, faults, runtime, storeVars, issued, owner>>

\* No grant fits: ask for a decision; the client is told to come back.
Ask(c) ==
    /\ step[c] = "start" /\ ~Free(c)
    /\ runtime = "open" /\ Matching(c) = {}
    /\ Delete(Stale)
    /\ Goto(c, "asking")
    /\ Later(Op("request", c, want[c], clock))
    /\ UNCHANGED reuses /\ ApprovalsRest

\* markReserved was rejected: the reservation is burned.
Unreserve(c) ==
    /\ step[c] = "unmarked"
    /\ Finalize(c)
    /\ Goto(c, "refused")
    /\ UNCHANGED <<queue, reuses>> /\ ApprovalsRest

\* mutant: the reservation is burned, the approval is not told
BurnQuietly(c) ==
    /\ step[c] = "reserved"
    /\ IF runtime # "open" THEN UNCHANGED <<live, held>>
       ELSE IF c \in reuses THEN Finalize(c) ELSE Delete({took[c]})
    /\ Goto(c, "refused")
    /\ UNCHANGED <<queue, reuses>> /\ ApprovalsRest

\* The audit of the authorization fails, or policy does not allow the call after
\* all: burn.  Where the audit is best effort the call goes on to its commit.
Burn(c) ==
    /\ step[c] = "reserved"
    /\ \E bestEffort \in {FALSE} \cup {Risk[want[c]] = "R1"} :
         \/ /\ runtime # "open" \/ c \in reuses
            /\ IF runtime = "open" THEN Finalize(c) ELSE UNCHANGED <<live, held>>
            /\ Goto(c, IF bestEffort THEN "authorized" ELSE "refused")
            /\ UNCHANGED queue
         \/ /\ runtime = "open" /\ c \notin reuses
            /\ Delete({took[c]})
            /\ Later(Op("burn", c, took[c], clock))
            /\ Goto(c, IF bestEffort THEN "burningOn" ELSE "burning")
    /\ UNCHANGED reuses /\ ApprovalsRest

\* commitConsume
Consume(c) ==
    /\ step[c] \in {"reserved", "authorized"}
    /\ \/ /\ runtime # "open"
          /\ Goto(c, "refused")
          /\ UNCHANGED <<live, held, queue>>
       \/ /\ runtime = "open" /\ c \in reuses
          /\ Goto(c, IF c \in held[took[c]] THEN "admitted" ELSE "refused")
          /\ Finalize(c)
          /\ UNCHANGED queue
       \/ /\ runtime = "open" /\ c \notin reuses
          /\ Goto(c, "consuming")
          /\ Later(Op("consume", c, took[c], clock))
          /\ UNCHANGED <<live, held>>
    /\ UNCHANGED reuses /\ ApprovalsRest

\* The approval is consumed by now; the reservation may be gone.
Consumed(c) ==
    /\ step[c] = "consumed"
    /\ Goto(c, IF c \in held[took[c]] THEN "admitted" ELSE "unconsumed")
    /\ Finalize(c)
    /\ UNCHANGED <<queue, reuses>> /\ ApprovalsRest

Unwind(c) ==
    /\ step[c] = "unconsumed"
    /\ Delete({took[c]})
    /\ Later(Op("burn", c, took[c], clock))
    /\ Goto(c, "unwinding")
    /\ UNCHANGED reuses /\ ApprovalsRest

\* The handler starts, unless the client gave the call up in the meantime.
Handle(c) ==
    /\ step[c] = "admitted"
    /\ Goto(c, "handler") \/ Goto(c, "refused")
    /\ UNCHANGED <<live, held, queue, reuses>> /\ ApprovalsRest

HandlerEnds(c) ==
    /\ step[c] = "handler"
    /\ Goto(c, "done")
    /\ UNCHANGED <<live, held, queue, reuses>> /\ ApprovalsRest

Kernel(c) ==
    \/ Decide(c) \/ Reserve(c) \/ Ask(c) \/ Unreserve(c) \/ Burn(c) \/ Consume(c)
    \/ Consumed(c) \/ Unwind(c) \/ Handle(c) \/ HandlerEnds(c)

-----------------------------------------------------------------------------
(* The owner decides, one decision at a time.                               *)

OwnerRest == UNCHANGED <<callFacts, clock, faults, runtime, storeVars, callVars>>

TakeUp(i, verdict) ==
    /\ owner = Idle
    /\ IsActive(i)
    /\ owner' = [Idle EXCEPT !.pc = "expiring", !.verdict = verdict, !.id = i]
    /\ Later(Op("expire", "owner", 0, clock))
    /\ UNCHANGED grantVars /\ OwnerRest

\* A decision made before, or one that cannot be made any more, ends here.
Look ==
    LET i == owner.id IN
    /\ owner.pc = "looking"
    /\ \/ /\ owner.verdict = "deny" /\ astate[i] # "denied"
          /\ owner' = [owner EXCEPT !.pc = "denying"]
          /\ Later(Op("deny", "owner", i, clock))
       \/ /\ owner.verdict = "approve" /\ agrant[i] = 0 /\ astate[i] \notin Terminal
          /\ owner' = [owner EXCEPT !.pc = "inspecting", !.at = clock]
          /\ UNCHANGED queue
       \/ /\ IF owner.verdict = "deny" THEN astate[i] = "denied"
             ELSE agrant[i] # 0 \/ astate[i] \in Terminal
          /\ owner' = Idle
          /\ UNCHANGED queue
    /\ UNCHANGED grantVars /\ OwnerRest

\* prepareApproval looks at the root the approval is for, and may refuse it.
Inspect ==
    /\ owner.pc = "inspecting"
    /\ \/ /\ owner' = [owner EXCEPT !.pc = "preparing"]
          /\ Later(Op("prepare", "owner", owner.id, owner.at))
       \/ owner' = Idle /\ UNCHANGED queue
    /\ UNCHANGED grantVars /\ OwnerRest

\* The grant is issued first; then the approval learns of it.  The approval has
\* not expired: prepare has just swept with the same time.
Issue ==
    LET g == Least({h \in Grants : issued[h] = 0}) IN
    /\ owner.pc = "issuing"
    /\ issued' = [issued EXCEPT ![g] = owner.id]
    /\ live' = live \cup {g}
    /\ owner' = [owner EXCEPT !.pc = "approving", !.grant = g]
    /\ Later(Op("approve", "owner", owner.id, owner.at))
    /\ UNCHANGED held /\ OwnerRest

\* approve was rejected: the grant is revoked.
Withdraw ==
    /\ owner.pc = "withdrawing"
    /\ Delete({owner.grant})
    /\ owner' = Idle
    /\ UNCHANGED <<issued, queue>> /\ OwnerRest

\* approvals.list and approvals.watch expire first.
List ==
    /\ \E i \in Ids : IsActive(i) /\ aexp[i] <= clock
    /\ \A k \in DOMAIN queue : queue[k].who # "reader"
    /\ Later(Op("expire", "reader", 0, clock))
    /\ UNCHANGED <<grantVars, owner>> /\ OwnerRest

Own ==
    \/ \E i \in Ids, verdict \in {"approve", "deny"} : TakeUp(i, verdict)
    \/ Look \/ Inspect \/ Issue \/ Withdraw \/ List

Tick ==
    /\ clock < limits.ticks
    /\ clock' = clock + 1
    /\ recent' = [s \in Sessions |-> 0]
    /\ UNCHANGED <<callFacts, faults, runtime, astate, abind, aexp, agrant, aholder, dedupe,
                   grantVars, queue, owner, callVars>>

\* close: nothing is accepted from here on; the approvals end, then the grants.
CloseApprovals ==
    /\ runtime = "open"
    /\ runtime' = "closing"
    /\ Later(Op("close", "runtime", 0, clock))
    /\ UNCHANGED <<callFacts, clock, faults, storeVars, grantVars, owner, callVars>>

ClearGrants ==
    /\ runtime = "swept"
    /\ runtime' = "closed"
    /\ live' = {}
    /\ held' = [g \in Grants |-> {}]
    /\ UNCHANGED <<callFacts, clock, faults, storeVars, issued, queue, owner, callVars>>

ApprovalNext == Operate \/ (\E c \in Calls : Kernel(c)) \/ Own \/ Tick \/ CloseApprovals \/ ClearGrants
=============================================================================
