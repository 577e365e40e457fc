----------------------------- MODULE OAuthState -----------------------------
(***************************************************************************)
(* The state of an OAuth deployment and of the server that serves it, and   *)
(* the one way its durable part changes (auth/stateStore.ts, #mutate of     *)
(* auth/grantStore.ts and of auth/clientStore.ts): take the deployment      *)
(* lock, which never waits; read; decide; have the audit log take the       *)
(* change, which needs time and may fail; write; let the lock go.           *)
(***************************************************************************)
EXTENDS Naturals, Sequences, FiniteSets

CONSTANTS
    Calls,          \* the requests of the clients and the decisions of the owner
    Clients,
    Codes,          \* the authorizations, each with the code it may turn into
    ClientOf,       \* Codes -> the client an authorization is for
    Grants,
    MaxUnapproved,  \* DCR_UNAPPROVED_LIMIT
    MaxApproved,    \* DCR_APPROVED_LIMIT
    MaxPending,     \* OAUTH_PENDING_CLIENT_LIMIT
    MaxActive       \* OAUTH_ACTIVE_GRANT_CLIENT_LIMIT

ASSUME StateAssumption ==
    /\ ClientOf \in [Codes -> Clients]
    /\ IsFiniteSet(Grants)
    /\ IsFiniteSet(Clients)
    /\ {MaxUnapproved, MaxApproved, MaxPending, MaxActive} \subseteq Nat

VARIABLES
    disk,       \* the durable state: client and grant records, the kid of the signing key
    signer,     \* the kid the running server signs with: #activeKid
    job,        \* the change that is being written; its maker holds the lock
    auth,       \* authorization -> its record: pending, decided, or turned into a code
    chain,      \* the calls on the promise chain of the authorization store
    refused,    \* the negative cache: access tokens not accepted a moment ago
    given,      \* the tokens the clients hold: <<grant, refresh generation>>
    lapsed,     \* the grants whose idle or absolute lifetime is over
    late,       \* the authorizations whose record or code has outlived its lifetime
    ask,        \* what each call is for; never changes
    pc,         \* call -> where it is
    token,      \* call -> the token it is about
    effect,     \* call -> what it has changed
    answer,     \* call -> what it was told
    faults,     \* bound: the writes and answers that may still fail
    crashes     \* bound: the restarts that may still come

memoryVars == <<signer, auth, refused>>
clockVars  == <<lapsed, late>>
worldVars  == <<given, ask, crashes>>
stateVars  == <<disk, job, chain, pc, token, effect, answer, faults, memoryVars, clockVars, worldVars>>

NoToken == <<>>
NoJob   == [who |-> {}]
Busy    == job # NoJob

Active(d)      == {g \in Grants : d.status[g] = "active"}
ActiveOf(d, c) == {g \in Active(d) : d.owner[g] = {c}}
Unused(d)      == {g \in Grants : d.status[g] = "none"}
Known(d)       == {c \in Clients : d.client[c] \in {"unapproved", "approved"}}
Trusted(d)     == {c \in Clients : d.client[c] = "approved"}
PastApproval(d) == {c \in Clients : d.client[c] \in {"approved", "revoked", "gone"}}  \* approved, or no more to be

\* mutant: an active grant counts, whatever its client is
UsableIfActive(d) == Active(d)

\* #clientApproved: what validateAccess and rotateRefresh ask of a grant
Usable(d) == {g \in Active(d) : d.owner[g] \subseteq Trusted(d)}

\* The control channel takes the owner's decisions one by one.
Owners    == {c \in Calls : ask[c].kind \notin {"register", "authorize", "continue", "exchange",
                                           "refresh", "revoke", "revokeAccess", "use"}}
OwnerFree == \A c \in Owners : pc[c] \in {"new", "over"}

Turn(c)   == chain # <<>> /\ Head(chain) = c
Writes(c) == Busy /\ job.who = {c}

-----------------------------------------------------------------------------
(* What the stores make of a state.  The owner and the code of a grant are  *)
(* sets of at most one: the code of a grant from before is not among Codes. *)
(* A client that is gone has no record any more, and its id is not reused.  *)

\* register keeps the clients that are not revoked
Registered(d, c) ==
    [d EXCEPT !.client = [e \in Clients |->
        IF e = c THEN "unapproved" ELSE IF d.client[e] = "revoked" THEN "gone" ELSE d.client[e]]]
Pruned(d) ==
    [d EXCEPT !.client = [e \in Clients |-> IF d.client[e] = "unapproved" THEN "gone" ELSE d.client[e]]]
Approved(d, c) == [d EXCEPT !.client[c] = "approved"]
Removed(d, c)  == [d EXCEPT !.client[c] = "revoked"]

Created(d, g, x) ==
    [d EXCEPT !.status[g] = "active", !.owner[g] = {ClientOf[x]}, !.code[g] = {x}]
Rotated(d, g) == [d EXCEPT !.gen[g] = @ + 1]
Ended(d, S) ==
    [d EXCEPT !.status = [g \in Grants |-> IF g \in S THEN "ended" ELSE d.status[g]]]
Rekeyed(d) == [d EXCEPT !.key = @ + 1]

\* The schema every state must pass before it is written.
Valid(d) ==
    /\ \A g \in Active(d) : \A c \in d.owner[g] : d.client[c] \notin {"none", "gone"}
    /\ \A g, h \in Grants : g # h => d.code[g] \cap d.code[h] = {}
    /\ \A c \in Clients : Cardinality(ActiveOf(d, c)) <= MaxActive

-----------------------------------------------------------------------------
(* The steps of a call.                                                     *)

\* mutant: a call that fails keeps its place on the promise chain
AnswerInPlace(c, say) ==
    /\ pc' = [pc EXCEPT ![c] = "over"]
    /\ answer' = [answer EXCEPT ![c] = say]
    /\ chain' = IF Turn(c) /\ say \notin {"unavailable", "invalid"} THEN Tail(chain) ELSE chain

\* The call is over; the next one on the chain takes its turn, whatever came of this one.
Answer(c, say) ==
    /\ pc' = [pc EXCEPT ![c] = "over"]
    /\ answer' = [answer EXCEPT ![c] = say]
    /\ chain' = IF Turn(c) THEN Tail(chain) ELSE chain

\* An answer that goes with no change; the caller says what becomes of the token.
Told(c, say) ==
    /\ Answer(c, say)
    /\ UNCHANGED <<disk, job, effect, faults, memoryVars, clockVars, worldVars>>

\* A call that goes on in memory only.
Goes(c, where) ==
    /\ pc' = [pc EXCEPT ![c] = where]
    /\ UNCHANGED <<disk, job, chain, effect, answer, faults, clockVars, worldVars>>

\* mutant: the lock of a living process is taken over as well
AcquireAnyway(c, next, what, then) ==
    /\ Valid(next)
    /\ job' = [who |-> {c}, next |-> next, what |-> what, then |-> then]
    /\ pc' = [pc EXCEPT ![c] = "writing"]
    /\ UNCHANGED <<disk, chain, effect, answer, faults, memoryVars, clockVars, worldVars>>

\* #mutate up to the audit log: next is to be written, and the call goes on with
\* then or, if then is an answer, is over with it.
Acquire(c, next, what, then) ==
    /\ ~Busy /\ Valid(next)
    /\ job' = [who |-> {c}, next |-> next, what |-> what, then |-> then]
    /\ pc' = [pc EXCEPT ![c] = "writing"]
    /\ UNCHANGED <<disk, chain, effect, answer, faults, memoryVars, clockVars, worldVars>>

\* The lock is taken, or the new state is not valid: the call fails.
Change(c, next, what, then) ==
    \/ Acquire(c, next, what, then)
    \/ (Busy \/ ~Valid(next)) /\ Told(c, "unavailable")
=============================================================================
