--------------------------- MODULE ProcessManager ---------------------------
(***************************************************************************)
(* The persistent processes of one server (process/processManager.ts) and   *)
(* the places of its quota (process/outputQuota.ts).  Everything runs on    *)
(* one event loop: a step is what happens between two awaits.  For every    *)
(* process up to three asynchronous routines run at once and share one      *)
(* record: the call of start, the exit the host reports (#exit) and a       *)
(* termination (#terminate) asked by a user, the lifetime timer, the output *)
(* limit or a revocation.                                                    *)
(*                                                                          *)
(* Of a process we keep what these routines tell apart; output, cursors and *)
(* the bytes of the quota are left out.  All records have the same context, *)
(* so the limits per session and per server count the same processes.       *)
(***************************************************************************)
EXTENDS Naturals, FiniteSets

CONSTANTS
    Proc,         \* calls of start, numbered in the order of startedAt
    MaxActive,    \* the quota's places for processes that are not over
    MaxTerminal,  \* the quota's places for records of processes that are over
    MaxRevoke,    \* bound: revocations besides the one of close
    MaxFault      \* bound: failed answers of the host, the audit, the checks

ASSUME ManagerAssumption ==
    /\ Proc \subseteq Nat
    /\ IsFiniteSet(Proc)
    /\ MaxActive \in Nat \ {0}
    /\ MaxTerminal \in Nat \ {0}
    /\ MaxRevoke \in Nat
    /\ MaxFault \in Nat

VARIABLES
    state,       \* #state of the manager
    revoking,    \* #revoking
    generation,  \* #revocationGeneration
    joined,      \* the calls and endings the revocation under way waits for
    start,       \* where the call of start is
    admitted,    \* its admissionGeneration
    known,       \* #records: the processes that have a record there
    status,      \* record.status; of an ended process, what else is known tells which
    handle,      \* record.handle and handleReady
    exit,        \* lifecyclePromise: where #exit is
    term,        \* terminationPromise: where #terminate is
    refused,     \* terminations under way with a terminationError
    flagged,     \* records with verificationRevoked
    ready,       \* records with retentionReady
    receipt,     \* records with a verificationReceipt
    quota,       \* the process's place in the quota
    child,       \* the operating-system process the host runs
    loose,       \* terminations under way whose promise nobody handles
    uncaught,    \* such a promise was rejected, which ends the server process
    lost,        \* history: children the manager wrongly holds for ended
    faults       \* number of faults so far

manager == <<state, revoking, generation, joined>>
record == <<known, status, handle, exit, term, refused, flagged, ready, receipt,
            loose, uncaught>>
vars == <<state, revoking, generation, joined, start, admitted, known, status,
          handle, exit, term, refused, flagged, ready, receipt, loose, uncaught,
          quota, child, lost, faults>>

-----------------------------------------------------------------------------
(* The values *)

\* "spawning" waits for the backend, "recording" for the audit of the start,
\* "waiting" for the ending that overtook it, "killing" is the catch block's
\* own termination.
StartState == {"idle", "verifying", "spawning", "recording", "waiting",
               "killing", "returned", "failed"}
\* exited, failed and terminated are one: no condition of the code tells them apart.
Status == {"none", "starting", "running", "ended"}
\* "clean" holds the second verification of a candidate until the audit ends.
ExitState == {"none", "verifying", "recording", "clean", "over"}
TermState == {"none", "waiting", "killing", "recording", "over"}

TypeOK ==
    /\ state \in {"open", "closing", "closed"}
    /\ revoking \in BOOLEAN
    /\ generation \in 0..(MaxRevoke + 1)
    /\ joined \in [calls : SUBSET Proc, endings : SUBSET Proc]
    /\ start \in [Proc -> StartState]
    /\ admitted \in [Proc -> 0..MaxRevoke]
    /\ known \in SUBSET Proc
    /\ status \in [Proc -> Status]
    /\ handle \in [Proc -> {"unset", "live", "null"}]
    /\ exit \in [Proc -> ExitState]
    /\ term \in [Proc -> TermState]
    /\ refused \in SUBSET Proc
    /\ flagged \in SUBSET Proc
    /\ ready \in SUBSET Proc
    /\ receipt \in SUBSET Proc
    /\ quota \in [Proc -> {"none", "active", "terminal"}]
    /\ child \in [Proc -> {"none", "alive", "ended"}]
    /\ loose \in SUBSET Proc
    /\ uncaught \in BOOLEAN
    /\ lost \in SUBSET Proc
    /\ faults \in 0..MaxFault

Init ==
    /\ state = "open" /\ revoking = FALSE /\ generation = 0
    /\ joined = [calls |-> {}, endings |-> {}]
    /\ start = [p \in Proc |-> "idle"]
    /\ admitted = [p \in Proc |-> 0]
    /\ known = {}
    /\ status = [p \in Proc |-> "none"]
    /\ handle = [p \in Proc |-> "unset"]
    /\ exit = [p \in Proc |-> "none"]
    /\ term = [p \in Proc |-> "none"]
    /\ flagged = {} /\ ready = {} /\ receipt = {}
    /\ quota = [p \in Proc |-> "none"]
    /\ child = [p \in Proc |-> "none"]
    /\ refused = {} /\ loose = {} /\ uncaught = FALSE
    /\ lost = {} /\ faults = 0

-----------------------------------------------------------------------------
(* Conditions of the code *)

InCall(p) == start[p] \notin {"idle", "returned", "failed"}
Active(p) == status[p] \in {"starting", "running"}
SettledEarly(p) == exit[p] = "over" \/ term[p] # "none"  \* mutant: not awaited
\* lifecycleSettled or terminationSettled
Settled(p) == exit[p] = "over" \/ term[p] = "over"
Ending(p) == (exit[p] # "none" \/ term[p] # "none") /\ ~Settled(p)
OvertakenByExit(p) == exit[p] # "none"  \* mutant
Overtaken(p) == status[p] # "starting" \/ exit[p] # "none" \/ term[p] # "none"
Stopped(c) == IF c = "alive" THEN "ended" ELSE c

Fault == faults < MaxFault /\ faults' = faults + 1
NoFault == UNCHANGED <<faults, lost>>
Answer(ok) == IF ok THEN UNCHANGED faults ELSE Fault
\* The host does not end the child although the manager takes it for ended.
Lose(p) == Fault /\ lost' = lost \cup {p} /\ UNCHANGED child

-----------------------------------------------------------------------------
(* start *)

\* reserveProcess: a place, unless as many processes as allowed have one.
Start(p) ==
    /\ start[p] = "idle"
    /\ \A q \in Proc : q < p => start[q] # "idle"
    /\ IF /\ state = "open" /\ ~revoking
          /\ Cardinality({q \in Proc : quota[q] = "active"}) < MaxActive
       THEN /\ start' = [start EXCEPT ![p] = "verifying"]
            /\ admitted' = [admitted EXCEPT ![p] = generation]
            /\ quota' = [quota EXCEPT ![p] = "active"]
       ELSE start' = [start EXCEPT ![p] = "failed"] /\ UNCHANGED <<admitted, quota>>
    /\ UNCHANGED <<manager, record, child, lost, faults>>

VerifyFailsHolding(p) ==  \* mutant: the reservation is not released
    /\ start[p] = "verifying"
    /\ Fault
    /\ start' = [start EXCEPT ![p] = "failed"]
    /\ UNCHANGED <<manager, record, quota, admitted, child, lost>>
VerifyFails(p) ==
    /\ start[p] = "verifying"
    /\ Fault
    /\ start' = [start EXCEPT ![p] = "failed"]
    /\ quota' = [quota EXCEPT ![p] = "none"]
    /\ UNCHANGED <<manager, record, admitted, child, lost>>

StillOpen(p) == state = "open"  \* mutant
\* Verification took time: the admission is judged again before the record is
\* made and the backend called.
Admissible(p) == state = "open" /\ ~revoking /\ admitted[p] = generation

Verified(p) ==
    /\ start[p] = "verifying"
    /\ IF Admissible(p)
       THEN /\ start' = [start EXCEPT ![p] = "spawning"]
            /\ known' = known \cup {p}
            /\ status' = [status EXCEPT ![p] = "starting"]
            /\ UNCHANGED quota
       ELSE /\ start' = [start EXCEPT ![p] = "failed"]
            /\ quota' = [quota EXCEPT ![p] = "none"]
            /\ UNCHANGED <<known, status>>
    /\ UNCHANGED <<manager, admitted, handle, exit, term, refused,
                   flagged, ready, receipt, loose, uncaught, child, lost, faults>>

\* The host creates the child; the answer is still on its way.
Launch(p) ==
    /\ start[p] = "spawning" /\ child[p] = "none"
    /\ child' = [child EXCEPT ![p] = "alive"]
    /\ UNCHANGED <<manager, record, start, admitted, quota, lost, faults>>

SettleLiveOnly(p, h) ==  \* mutant
    handle' = [handle EXCEPT ![p] = IF h = "live" THEN h ELSE @]
\* A promise is settled once.
SettleHandle(p, h) == handle' = [handle EXCEPT ![p] = IF @ = "unset" THEN h ELSE @]

StartReturns(p) ==
    /\ start[p] = "spawning" /\ child[p] # "none"
    /\ SettleHandle(p, "live")
    /\ start' = [start EXCEPT ![p] = IF Overtaken(p) THEN "waiting" ELSE "recording"]
    /\ UNCHANGED <<manager, admitted, known, status, exit, term,
                   refused, flagged, ready, receipt, loose, uncaught, quota, child, lost, faults>>

\* The catch block of #start up to its await: the handle is settled, and the
\* child left to the ending under way or terminated here.
Abandon(p) ==
    /\ SettleHandle(p, "null")
    /\ start' = [start EXCEPT ![p] =
                    IF exit[p] # "none" \/ term[p] # "none" THEN "waiting" ELSE "killing"]
    /\ UNCHANGED <<manager, admitted, known, status, exit, term,
                   refused, flagged, ready, receipt, loose, uncaught, quota>>

\* The backend ends what it created, or its answer is lost and the child stays.
StartRejects(p) ==
    /\ start[p] = "spawning"
    /\ Abandon(p)
    /\ \/ child' = [child EXCEPT ![p] = Stopped(@)] /\ Fault /\ UNCHANGED lost
       \/ child[p] \in {"none", "alive"} /\ Fault
          /\ child' = [child EXCEPT ![p] = "alive"] /\ lost' = lost \cup {p}

Recorded(p) ==
    /\ start[p] = "recording"
    /\ IF Overtaken(p)
       THEN start' = [start EXCEPT ![p] = "waiting"] /\ UNCHANGED status
       ELSE /\ start' = [start EXCEPT ![p] = "returned"]
            /\ status' = [status EXCEPT ![p] = "running"]
    /\ UNCHANGED <<manager, admitted, known, handle, exit, term, refused,
                   flagged, ready, receipt, loose, uncaught, quota, child, lost, faults>>

RecordFails(p) ==
    /\ start[p] = "recording"
    /\ Abandon(p)
    /\ Fault
    /\ UNCHANGED <<child, lost>>

\* The end of the catch block.
Forget(p) ==
    /\ start' = [start EXCEPT ![p] = "failed"]
    /\ known' = known \ {p}
    /\ quota' = [quota EXCEPT ![p] = "none"]
    /\ UNCHANGED <<manager, admitted, status, handle, exit, term,
                   refused, flagged, ready, receipt, loose, uncaught>>

Joined(p) ==
    /\ start[p] = "waiting" /\ Settled(p)
    /\ Forget(p)
    /\ UNCHANGED <<child, lost, faults>>

\* The catch block swallows the failure of its termination.
CleanedUp(p) ==
    /\ start[p] = "killing"
    /\ Forget(p)
    /\ \/ handle[p] # "live" /\ NoFault /\ UNCHANGED child
       \/ handle[p] = "live" /\ NoFault /\ child' = [child EXCEPT ![p] = Stopped(@)]
       \/ handle[p] = "live" /\ child[p] = "alive" /\ Lose(p)

-----------------------------------------------------------------------------
(* The places of ended processes *)

Retained == {q \in Proc : quota[q] = "terminal"}
\* Records with retentionReady, but for p's own.
Evictable(p) == {q \in known \ {p} : q \in ready}

\* #reserveTerminal succeeds.  Every evictable record has a terminal place
\* (ReadyIsRetained), so one turn of its loop makes room: the oldest goes.
HasRoom(p) == quota[p] # "none" /\ (Cardinality(Retained) < MaxTerminal \/ Evictable(p) # {})
Victims(p) ==
    {q \in Evictable(p) : /\ quota[p] # "none" /\ Cardinality(Retained) >= MaxTerminal
                          /\ \A r \in Evictable(p) : q <= r}
ReserveTerminal(p) ==
    /\ known' = known \ Victims(p)
    /\ quota' = [q \in Proc |-> CASE q = p /\ HasRoom(p) -> "terminal"
                                  [] q \in Victims(p) -> "none"
                                  [] OTHER -> quota[q]]

\* The ending of p throws, after its audit did or did not succeed.
Throws(p, audited) == p \in refused \/ ~audited \/ ~HasRoom(p)

-----------------------------------------------------------------------------
(* Exit *)

\* The child ends by itself.
ChildEnds(p) ==
    /\ child[p] = "alive"
    /\ child' = [child EXCEPT ![p] = "ended"]
    /\ UNCHANGED <<manager, record, start, admitted, quota, lost, faults>>

\* #beginExit and #exit up to its first await: nothing if the record is past it.
BeginExit(p, x) ==
    /\ Active(p) /\ exit[p] = "none"
    /\ status' = [status EXCEPT ![p] = "ended"]
    /\ exit' = [exit EXCEPT ![p] = x]
    /\ UNCHANGED <<manager, start, admitted, known, handle, term, refused,
                   flagged, ready, receipt, loose, uncaught, quota>>

\* A poll finds the child ended.  The exit of a candidate with code 0 is verified
\* again, any other is only recorded; codes are not part of the model.
Report(p) ==
    /\ child[p] = "ended"
    /\ \E x \in {"verifying", "recording"} : BeginExit(p, x)
    /\ UNCHANGED <<child, lost, faults>>

\* A poll fails: the host is gone with its children, or only the call failed.
HostCrashed(p) ==
    /\ child[p] # "none"
    /\ BeginExit(p, "recording")
    /\ \/ Fault /\ child' = [child EXCEPT ![p] = Stopped(@)] /\ UNCHANGED lost
       \/ child[p] = "alive" /\ Lose(p)

\* It may find the candidate changed, and the receipt may be refused.
VerifiedAgain(p) ==
    /\ exit[p] = "verifying"
    /\ \/ exit' = [exit EXCEPT ![p] = "clean"] /\ UNCHANGED faults
       \/ exit' = [exit EXCEPT ![p] = "recording"] /\ Fault
    /\ UNCHANGED <<manager, start, admitted, known, status, handle, term,
                   refused, flagged, ready, receipt, loose, uncaught, quota, child, lost>>

EarnedAnyway(p, audited) ==  \* mutant
    exit[p] = "clean" /\ ~Throws(p, audited) /\ p \in known
\* A receipt needs a clean second verification, no failure and no revocation.
Earned(p, audited) ==
    exit[p] = "clean" /\ ~Throws(p, audited) /\ p \notin flagged /\ p \in known

\* #exit after its audit, and the continuation of #beginExit.
ExitOver(p) ==
    /\ exit[p] \in {"recording", "clean"}
    /\ \E audited \in BOOLEAN :
         /\ Answer(audited)
         /\ ReserveTerminal(p)
         /\ receipt' = IF Earned(p, audited) THEN receipt \cup {p} ELSE receipt
    /\ exit' = [exit EXCEPT ![p] = "over"]
    /\ ready' = ready \cup {p}
    /\ UNCHANGED <<manager, start, admitted, status, handle, term, refused, flagged,
                   loose, uncaught, child, lost>>

-----------------------------------------------------------------------------
(* Termination *)

TerminableRunning(p) == term[p] = "none" /\ status[p] = "running"  \* mutant
Terminable(p) == term[p] = "none" /\ Active(p)

\* #terminate of the processes S up to its first await.
BeginTerminate(S) ==
    /\ status' = [p \in Proc |-> IF p \in S THEN "ended" ELSE status[p]]
    /\ term' = [p \in Proc |-> IF p \notin S THEN term[p]
                               ELSE IF handle[p] = "live" THEN "killing" ELSE "waiting"]

\* The tool, or local control.
Terminate(p) ==
    /\ p \in known /\ Terminable(p)
    /\ BeginTerminate({p})
    /\ UNCHANGED <<manager, start, admitted, known, handle, exit, refused, flagged,
                   ready, receipt, loose, uncaught, quota, child, lost, faults>>

\* Output the quota has no bytes for, and the lifetime timer, which the catch block
\* of #start clears: nobody waits for these terminations.
LimitOrExpire(p) ==
    /\ p \in known /\ Terminable(p)
    /\ BeginTerminate({p})
    /\ loose' = loose \cup {p}
    /\ UNCHANGED <<manager, start, admitted, known, handle, exit, refused, flagged,
                   ready, receipt, uncaught, quota, child, lost, faults>>

LimitOutput(p) == child[p] # "none" /\ LimitOrExpire(p)
Expire(p) == start[p] # "killing" /\ LimitOrExpire(p)

\* drainActiveProcessesInRoot: all processes of one root, of which there are several.
Drain(S) ==
    /\ S \subseteq {p \in known : Terminable(p)}
    /\ BeginTerminate(S)
    /\ UNCHANGED <<manager, start, admitted, known, handle, exit, refused,
                   flagged, ready, receipt, loose, uncaught, quota, child, lost, faults>>

AfterHandleNothing(p) == "recording"  \* mutant: a late handle is left alone
AfterHandle(p) == IF handle[p] = "live" THEN "killing" ELSE "recording"

\* handleReady is settled: there is a child to end, or none.
HandleSettled(p) ==
    /\ term[p] = "waiting" /\ handle[p] # "unset"
    /\ term' = [term EXCEPT ![p] = AfterHandle(p)]
    /\ UNCHANGED <<manager, start, admitted, known, status, handle, exit,
                   refused, flagged, ready, receipt, loose, uncaught, quota, child, lost, faults>>

\* The host answers the termination, well or not; or the handle, closed by a poll
\* that failed, does not ask the host.
Killed(p) ==
    /\ term[p] = "killing"
    /\ term' = [term EXCEPT ![p] = "recording"]
    /\ \/ /\ child' = [child EXCEPT ![p] = Stopped(@)]
          /\ UNCHANGED refused /\ NoFault
       \/ child[p] = "alive" /\ Lose(p) /\ UNCHANGED refused
       \/ /\ refused' = refused \cup {p}
          /\ \/ child[p] = "alive" /\ Lose(p)
             \/ child[p] # "alive" /\ Fault /\ UNCHANGED <<child, lost>>
    /\ UNCHANGED <<manager, start, admitted, known, status, handle, exit, flagged,
                   ready, receipt, loose, uncaught, quota>>

\* #terminate after its audit.  An audit that fails under local control, where it
\* is best effort, goes on like one that succeeds.
TermOver(p) ==
    /\ term[p] = "recording"
    /\ \E audited \in BOOLEAN :
         /\ Answer(audited)
         /\ ReserveTerminal(p)
         /\ uncaught' = (uncaught \/ (p \in loose /\ Throws(p, audited)))
    /\ loose' = loose \ {p}
    /\ refused' = refused \ {p}
    /\ term' = [term EXCEPT ![p] = "over"]
    /\ ready' = ready \cup {p}
    /\ UNCHANGED <<manager, start, admitted, status, handle, exit, flagged,
                   receipt, child, lost>>

\* The five minutes of #retainTerminal, set when the ending settled.
Retire(p) ==
    /\ p \in known /\ Settled(p)
    /\ known' = known \ {p}
    /\ quota' = [quota EXCEPT ![p] = "none"]
    /\ UNCHANGED <<manager, start, admitted, status, handle, exit, term,
                   refused, flagged, ready, receipt, loose, uncaught, child, lost, faults>>

-----------------------------------------------------------------------------
(* Revocation and close *)

\* revokeAll up to its await.
BeginRevoke ==
    LET stopped == {p \in known : Terminable(p)} IN
    /\ revoking' = TRUE
    /\ generation' = generation + 1
    /\ flagged' = flagged \cup known
    /\ joined' = [calls |-> {p \in Proc : InCall(p)},
                  endings |-> stopped \cup {p \in known : Ending(p)}]
    /\ BeginTerminate(stopped)
    /\ UNCHANGED <<start, admitted, known, handle, exit, refused, ready,
                   receipt, loose, uncaught, quota, child, lost, faults>>

\* A call during a revocation joins it.
RevokeAll ==
    /\ ~revoking /\ generation < MaxRevoke
    /\ BeginRevoke
    /\ UNCHANGED state

RevokeOver ==
    /\ revoking
    /\ \A p \in joined.calls : ~InCall(p)
    /\ \A p \in joined.endings : Settled(p)
    /\ revoking' = FALSE
    /\ joined' = [calls |-> {}, endings |-> {}]
    /\ UNCHANGED <<state, generation, record, start, admitted, quota, child, lost, faults>>

\* A later close is given the promise of the first.
FirstClose == state = "open"

Close ==
    /\ FirstClose
    /\ state' = "closing"
    /\ \/ ~revoking /\ BeginRevoke
       \/ /\ revoking
          /\ UNCHANGED <<revoking, generation, joined, record, start, admitted, quota,
                         child, lost, faults>>

CloseOver ==
    /\ state = "closing" /\ ~revoking
    /\ state' = "closed"
    /\ known' = {}
    /\ quota' = [p \in Proc |-> IF p \in known THEN "none" ELSE quota[p]]
    /\ UNCHANGED <<revoking, generation, joined, start, admitted, status, handle, exit,
                   term, refused, flagged, ready, receipt, loose, uncaught, child, lost, faults>>

-----------------------------------------------------------------------------
(* The specification *)

StartStep(p) ==
    \/ VerifyFails(p) \/ Verified(p) \/ StartReturns(p) \/ StartRejects(p)
    \/ Recorded(p) \/ RecordFails(p) \/ Joined(p) \/ CleanedUp(p)
EndStep(p) ==
    \/ VerifiedAgain(p) \/ ExitOver(p) \/ HandleSettled(p) \/ Killed(p) \/ TermOver(p)

\* An uncaught rejection ends the server process, and with it the host's children.
Next ==
    /\ ~uncaught
    /\ \/ \E p \in Proc :
            \/ Start(p) \/ Launch(p) \/ StartStep(p) \/ EndStep(p)
            \/ ChildEnds(p) \/ Report(p) \/ HostCrashed(p)
            \/ Terminate(p) \/ LimitOutput(p) \/ Expire(p) \/ Retire(p)
       \/ \E S \in SUBSET Proc : Cardinality(S) > 1 /\ Drain(S)
       \/ RevokeAll \/ RevokeOver \/ Close \/ CloseOver

\* What has been asked for goes on: the host, the audit and the verification
\* answer, the poll sees every end, the lifetime timer fires.  Nobody has to start,
\* stop or revoke.  One condition for all of it is enough, and the weakest, because
\* each of these steps can be taken only finitely often.
Progress ==
    /\ ~uncaught
    /\ \/ \E p \in Proc : Launch(p) \/ StartStep(p) \/ EndStep(p) \/ Report(p) \/ Expire(p)
       \/ RevokeOver \/ CloseOver

Spec == Init /\ [][Next]_vars /\ WF_vars(Progress)

-----------------------------------------------------------------------------
(* Safety *)

\* A process holds a place of the quota exactly while its start is being
\* verified or the manager keeps its record: no path through the three routines
\* gives a place back twice, early or never.
Accounted ==
    \A p \in Proc : quota[p] # "none" <=> p \in known \/ start[p] = "verifying"

\* A child runs only on an active place, so that at most MaxActive run at once,
\* except those the manager was told, wrongly, had ended.
AliveIsCounted ==
    \A p \in Proc : child[p] = "alive" /\ p \notin lost => quota[p] = "active" /\ p \in known

\* When a revocation has ended no child whose start was admitted before it runs,
\* wherever that start, its exit or its termination was at the time.
RevokedIsGone ==
    \A p \in Proc :
        ~revoking /\ admitted[p] < generation /\ p \notin lost => child[p] # "alive"

\* Nor has a closed manager a child, a record or a place that is taken.
ClosedIsEmpty ==
    state = "closed" =>
        /\ known = {} /\ \A p \in Proc : quota[p] = "none"
        /\ \A p \in Proc : child[p] = "alive" => p \in lost

\* Records ready for retention hold the terminal places and nothing else does:
\* this is what lets #reserveTerminal always find a record to evict, and why it
\* never takes one whose cleanup is in flight.
ReadyIsRetained ==
    \A p \in Proc : quota[p] = "terminal" <=> p \in known /\ p \in ready

\* The quota is kept: at most MaxActive processes that are not over and at most
\* MaxTerminal records of processes that are, also when an ending finds the
\* terminal places taken.
PlacesBounded ==
    /\ Cardinality({p \in Proc : quota[p] = "active"}) <= MaxActive
    /\ Cardinality(Retained) <= MaxTerminal

\* A record is ended once: by an exit or by a termination, never by both.
OneEnding == \A p \in Proc : exit[p] = "none" \/ term[p] = "none"

-----------------------------------------------------------------------------
(* Action properties *)

\* A start that returns successfully was not revoked, closed, terminated or
\* ended in the meantime.
NoFalseSuccess ==
    [][\A p \in Proc : start[p] # "returned" /\ start'[p] = "returned" =>
          /\ admitted[p] = generation /\ state = "open"
          /\ exit[p] = "none" /\ term[p] = "none" /\ p \in known]_vars

\* No receipt is issued for a process a revocation has met, even if its exit was
\* being verified when the revocation came.
NoReceiptAfterRevocation ==
    [][\A p \in receipt' \ receipt : admitted[p] = generation]_vars

\* An ending fails for want of a place only when the start that failed took the
\* record away from under it: at the limit there is always a record to evict.
RoomIsFound ==
    [][\A p \in Proc : ~Settled(p) /\ Settled(p)' => HasRoom(p) \/ start[p] = "failed"]_vars

\* A process that has stopped being active never becomes active again.
NeverRunsAgain ==
    [][\A p \in Proc : status[p] # "none" /\ ~Active(p) => ~Active(p)']_vars

-----------------------------------------------------------------------------
(* Liveness *)

Quiet ==
    /\ \A p \in Proc : ~InCall(p) /\ ~Ending(p)
    /\ ~revoking /\ state # "closing"

\* Every start, exit, termination, revocation and close comes to its end: no two
\* of them wait for each other.
EverythingEnds == []<>(Quiet \/ uncaught)

\* No child outlives its lifetime, unless it was lost.
LifetimeEnforced ==
    []<>(uncaught \/ \A p \in Proc : child[p] = "alive" => p \in lost)
=============================================================================
