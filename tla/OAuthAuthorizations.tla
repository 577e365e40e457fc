------------------------- MODULE OAuthAuthorizations -------------------------
(***************************************************************************)
(* The authorizations a server keeps in memory (auth/authorizationStore.ts  *)
(* and the owner's approval, auth/ownerApproval.ts).  Every operation runs  *)
(* alone on one promise chain; the exchange of a code too, with all that    *)
(* the token service does for it.                                           *)
(***************************************************************************)
EXTENDS OAuthState

Recorded == {"pending", "approved", "denied", "expired"}     \* the states of #pending
PendingOf(e) == {x \in Codes : auth[x] \in Recorded /\ ClientOf[x] = e}

\* #mutate: the operation waits for those before it
Enqueue(c) ==
    /\ chain' = Append(chain, c)
    /\ pc' = [pc EXCEPT ![c] = "queued"]
    /\ UNCHANGED <<disk, job, token, effect, answer, faults, memoryVars, clockVars, worldVars>>

Request(c) ==
    /\ pc[c] = "new" /\ ask[c].kind \in {"authorize", "approve", "deny", "continue"}
    /\ c \in Owners => OwnerFree
    /\ ask[c].kind = "authorize" => auth[ask[c].of] = "none"
    /\ Enqueue(c)

\* #expireInternal: an authorization that was not decided in time becomes expired,
\* which is audited; decided ones and codes go when their time is over.
SweptTo(T) ==
    [x \in Codes |-> IF x \in T THEN "expired"
                     ELSE IF x \in late /\ auth[x] \notin {"none", "pending"} THEN "gone" ELSE auth[x]]
LatePending == {x \in late : auth[x] = "pending"}
Sweep(c) ==
    /\ pc[c] = "queued" /\ Turn(c) /\ ask[c].kind # "exchange"
    /\ auth' = SweptTo(LatePending)
    /\ late' = {}
    /\ pc' = [pc EXCEPT ![c] = "swept"]
    /\ UNCHANGED <<disk, signer, job, chain, refused, token, effect, answer, faults, lapsed, worldVars>>

\* The audit log does not take one of them: the operation, whatever it is for, fails.
SweepFails(c) ==
    /\ pc[c] = "queued" /\ Turn(c) /\ ask[c].kind # "exchange"
    /\ faults > 0 /\ faults' = faults - 1
    /\ \E T \in SUBSET LatePending :
         /\ T # LatePending
         /\ auth' = [x \in Codes |-> IF x \in T THEN "expired" ELSE auth[x]]
         /\ late' = late \ T
    /\ Answer(c, "unavailable")
    /\ UNCHANGED <<disk, signer, job, refused, token, effect, lapsed, worldVars>>

-----------------------------------------------------------------------------
(* What an operation decides before its audit event.                        *)

Create(c, x) ==
    \/ /\ ClientOf[x] \notin Known(disk)
       /\ Told(c, "invalid")
    \/ /\ ClientOf[x] \in Known(disk) /\ Cardinality(PendingOf(ClientOf[x])) >= MaxPending
       /\ Told(c, "unavailable")
    \/ /\ ClientOf[x] \in Known(disk) /\ Cardinality(PendingOf(ClientOf[x])) < MaxPending
       /\ Goes(c, "auditing") /\ UNCHANGED memoryVars

\* markApproved is part of the decision: the client is approved before the event.
Approve(c, x) ==
    \/ auth[x] = "approved" /\ Told(c, "ok")
    \/ auth[x] \notin {"pending", "approved"} /\ Told(c, "invalid")
    \/ /\ auth[x] = "pending"
       /\ \/ Busy /\ Told(c, "unavailable")
          \/ ~Busy /\ ClientOf[x] \notin Known(disk) /\ Told(c, "invalid")
          \/ ~Busy /\ ClientOf[x] \in Trusted(disk) /\ Goes(c, "auditing") /\ UNCHANGED memoryVars
          \/ /\ ~Busy /\ ClientOf[x] \in Known(disk) \ Trusted(disk)
             /\ IF Cardinality(Trusted(disk)) >= MaxApproved
                THEN Told(c, "unavailable")
                ELSE Acquire(c, Approved(disk, ClientOf[x]), "none", "auditing")

Deny(c, x) ==
    \/ auth[x] = "denied" /\ Told(c, "ok")
    \/ auth[x] \notin {"pending", "denied"} /\ Told(c, "invalid")
    \/ auth[x] = "pending" /\ Goes(c, "auditing") /\ UNCHANGED memoryVars

Continue(c, x) ==
    \/ (auth[x] \notin Recorded \ {"pending"} \/ x \in late) /\ Told(c, "invalid")
    \/ auth[x] = "approved" /\ x \notin late /\ Goes(c, "auditing") /\ UNCHANGED memoryVars
    \/ /\ auth[x] \in {"denied", "expired"} /\ x \notin late
       /\ auth' = [auth EXCEPT ![x] = "gone"]
       /\ Answer(c, "ok")
       /\ UNCHANGED <<disk, signer, job, refused, effect, faults, clockVars, worldVars>>

Decide(c) ==
    /\ pc[c] = "swept"
    /\ LET x == ask[c].of IN
         \/ ask[c].kind = "authorize" /\ Create(c, x)
         \/ ask[c].kind = "approve" /\ Approve(c, x)
         \/ ask[c].kind = "deny" /\ Deny(c, x)
         \/ ask[c].kind = "continue" /\ Continue(c, x)
    /\ UNCHANGED token

-----------------------------------------------------------------------------
(* The audit event, and what it makes true.                                 *)

Outcome(kind) ==
    CASE kind = "authorize" -> "pending"
      [] kind = "approve" -> "approved"
      [] kind = "deny" -> "denied"
      [] kind = "continue" -> "code"

Audited(c) ==
    /\ pc[c] = "auditing"
    /\ auth' = [auth EXCEPT ![ask[c].of] = Outcome(ask[c].kind)]
    /\ late' = late \ {ask[c].of}
    /\ Answer(c, "ok")
    /\ UNCHANGED <<disk, signer, job, refused, token, effect, faults, lapsed, worldVars>>

\* mutant: the decision stands although its event was not written
AuditFailsLate(c) ==
    /\ pc[c] = "auditing"
    /\ faults > 0 /\ faults' = faults - 1
    /\ auth' = [auth EXCEPT ![ask[c].of] = Outcome(ask[c].kind)]
    /\ late' = late \ {ask[c].of}
    /\ Answer(c, "unavailable")
    /\ UNCHANGED <<disk, signer, job, refused, token, effect, lapsed, worldVars>>

AuditFails(c) ==
    /\ pc[c] = "auditing"
    /\ faults > 0 /\ faults' = faults - 1
    /\ Answer(c, "unavailable")
    /\ UNCHANGED <<disk, job, token, effect, memoryVars, clockVars, worldVars>>

Authorization(c) ==
    Request(c) \/ Sweep(c) \/ SweepFails(c) \/ Decide(c) \/ Audited(c) \/ AuditFails(c)
=============================================================================
