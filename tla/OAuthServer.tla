----------------------------- MODULE OAuthServer -----------------------------
(***************************************************************************)
(* An OAuth deployment at work: the clients' requests, the decisions the    *)
(* owner sends over the control channel (control/localApprovalServer.ts,    *)
(* auth/ownerApproval.ts, auth/recovery.ts), the lifetimes that pass, and   *)
(* restarts of the server.                                                  *)
(***************************************************************************)
EXTENDS OAuthTokens

vars == stateVars

-----------------------------------------------------------------------------
(* A client registers, clientStore.ts.                                      *)

Register(c) ==
    /\ pc[c] = "new" /\ ask[c].kind = "register"
    /\ disk.client[ask[c].of] = "none"
    /\ \/ Busy /\ Told(c, "unavailable")
       \/ /\ ~Busy
          /\ IF Cardinality(Known(disk) \ Trusted(disk)) >= MaxUnapproved
             THEN Told(c, "unavailable")
             ELSE Change(c, Registered(disk, ask[c].of), "none", "ok")
    /\ UNCHANGED token

-----------------------------------------------------------------------------
(* The owner's other decisions.  Each backs the state up first, which takes *)
(* the lock and an audit event of its own; two of them write twice.         *)

\* The owner picks from a list.
Listed(c) ==
    /\ ask[c].kind = "end" => disk.status[ask[c].of] # "none"
    /\ ask[c].kind = "remove" => disk.client[ask[c].of] # "none"

Backup(c) ==
    /\ pc[c] = "new" /\ c \in Owners /\ ask[c].kind \notin {"approve", "deny"}
    /\ OwnerFree /\ Listed(c)
    /\ Change(c, disk, "none", "backed")
    /\ UNCHANGED token

\* What a decision writes first, and whether another write follows.
FirstOf(c) ==
    CASE ask[c].kind = "end"       -> Ended(disk, {ask[c].of})
      [] ask[c].kind = "endAll"    -> Ended(disk, Active(disk))
      [] ask[c].kind = "rotateAll" -> Ended(disk, Active(disk))
      [] ask[c].kind = "remove"    -> Removed(disk, ask[c].of)
      [] ask[c].kind = "prune"     -> Pruned(disk)
      [] ask[c].kind = "rotate"    -> Rekeyed(disk)
FirstChanges(c) ==
    CASE ask[c].kind = "end"       -> ask[c].of \in Active(disk)
      [] ask[c].kind = "endAll"    -> Active(disk) # {}
      [] ask[c].kind = "rotateAll" -> Active(disk) # {}
      [] ask[c].kind = "remove"    -> ask[c].of \in Known(disk)
      [] ask[c].kind = "prune"     -> Known(disk) # Trusted(disk)
      [] ask[c].kind = "rotate"    -> TRUE
After(c) == IF ask[c].kind \in {"remove", "rotateAll"} THEN "second" ELSE "ok"

SecondOf(c) ==
    IF ask[c].kind = "remove" THEN Ended(disk, ActiveOf(disk, ask[c].of)) ELSE Rekeyed(disk)
SecondChanges(c) == ask[c].kind = "remove" => ActiveOf(disk, ask[c].of) # {}

First(c) ==
    /\ pc[c] = "backed"
    /\ \/ Busy /\ Told(c, "unavailable")
       \/ ~Busy /\ FirstChanges(c) /\ Change(c, FirstOf(c), "decided", After(c))
       \/ ~Busy /\ ~FirstChanges(c) /\ After(c) = "ok" /\ Told(c, "ok")
       \/ ~Busy /\ ~FirstChanges(c) /\ After(c) = "second" /\ Goes(c, "second") /\ UNCHANGED memoryVars
    /\ UNCHANGED token

Second(c) ==
    /\ pc[c] = "second"
    /\ \/ Busy /\ Told(c, "unavailable")
       \/ ~Busy /\ SecondChanges(c) /\ Change(c, SecondOf(c), "decided", "ok")
       \/ ~Busy /\ ~SecondChanges(c) /\ Told(c, "ok")
    /\ UNCHANGED token

-----------------------------------------------------------------------------
(* Time and restarts.                                                       *)

Lapse(g) ==
    /\ g \in Active(disk) \ lapsed
    /\ lapsed' = lapsed \cup {g}
    /\ UNCHANGED <<disk, job, chain, pc, token, effect, answer, faults, memoryVars, late, worldVars>>

Age(x) ==
    /\ auth[x] \notin {"none", "gone"} /\ x \notin late
    /\ late' = late \cup {x}
    /\ UNCHANGED <<disk, job, chain, pc, token, effect, answer, faults, memoryVars, lapsed, worldVars>>

Forget(t) ==
    /\ t \in refused
    /\ refused' = refused \ {t}
    /\ UNCHANGED <<disk, job, chain, pc, token, effect, answer, faults, signer, auth, clockVars, worldVars>>

\* The server ends and another one starts.  What was being written may be there; the
\* dead process's lock is taken over; what was only in memory is gone.
Restart ==
    /\ crashes > 0 /\ crashes' = crashes - 1
    /\ \E wrote \in BOOLEAN :
         /\ wrote => Busy
         /\ disk' = IF wrote THEN job.next ELSE disk
         /\ effect' = [c \in Calls |-> IF wrote /\ Writes(c) /\ job.what # "none" THEN job.what ELSE effect[c]]
    /\ signer' = disk'.key
    /\ job' = NoJob /\ chain' = <<>> /\ refused' = {} /\ late' = {}
    /\ auth' = [x \in Codes |-> IF auth[x] = "none" THEN "none" ELSE "gone"]
    /\ pc' = [c \in Calls |-> IF pc[c] = "new" THEN "new" ELSE "over"]
    /\ answer' = [c \in Calls |-> IF pc[c] \in {"new", "over"} THEN answer[c] ELSE "lost"]
    /\ UNCHANGED <<token, faults, lapsed, given, ask>>

-----------------------------------------------------------------------------
Targets(kind) ==
    CASE kind \in {"register", "remove", "revoke", "revokeAccess"} -> Clients
      [] kind = "end" -> Grants
      [] kind \in {"authorize", "approve", "deny", "continue", "exchange"} -> Codes
      [] OTHER -> {"all"}
Kinds == {"register", "authorize", "continue", "exchange", "refresh", "revoke", "revokeAccess", "use",
          "approve", "deny", "end", "endAll", "remove", "prune", "rotate", "rotateAll"}

\* Every authorization has an id of its own.
AskOK ==
    /\ ask \in [Calls -> UNION {[kind : {k}, of : Targets(k)] : k \in Kinds}]
    /\ \A c, d \in Calls : ask[c] = ask[d] /\ ask[c].kind = "authorize" => c = d

Disks ==
    [client : [Clients -> {"none", "unapproved", "approved", "revoked", "gone"}],
     status : [Grants -> {"none", "active", "ended"}],
     owner  : [Grants -> SUBSET Clients],
     code   : [Grants -> SUBSET Codes],
     gen    : [Grants -> Nat],
     key    : Nat]

\* A server starts over any valid state a deployment gets to; the clients hold tokens
\* from before.
Init ==
    /\ AskOK
    /\ disk \in Disks /\ Valid(disk)
    /\ \A g \in Grants :
         /\ disk.code[g] = {}
         /\ disk.status[g] = "none" => disk.gen[g] = 0
         /\ disk.status[g] # "none" => \E e \in PastApproval(disk) : disk.owner[g] = {e}
    /\ given \in SUBSET (Grants \X Nat)
    /\ \A t \in given : disk.status[t[1]] # "none" /\ t[2] <= disk.gen[t[1]]
    /\ signer = disk.key /\ job = NoJob /\ chain = <<>> /\ refused = {}
    /\ auth = [x \in Codes |-> "none"]
    /\ lapsed = {} /\ late = {}
    /\ pc = [c \in Calls |-> "new"] /\ token = [c \in Calls |-> NoToken]
    /\ effect = [c \in Calls |-> "none"] /\ answer = [c \in Calls |-> "none"]
    /\ faults \in Nat /\ crashes \in Nat

Step(c) ==
    Register(c) \/ Backup(c) \/ First(c) \/ Second(c) \/ Authorization(c) \/ Tokens(c) \/ Writing(c)

Next ==
    \/ \E c \in Calls : Step(c)
    \/ \E g \in Grants : Lapse(g)
    \/ \E x \in Codes : Age(x)
    \/ \E t \in refused : Forget(t)
    \/ Restart

\* A request that came goes on: nothing in the server waits for anything but the
\* disk and the audit log, which answer.
Going(c) == pc[c] # "new" /\ Step(c)
Fairness == \A c \in Calls : WF_vars(Going(c))

Spec == Init /\ [][Next]_vars /\ Fairness

-----------------------------------------------------------------------------
(* Properties.                                                              *)

\* Every grant goes back to an authorization that the owner was told is approved, and
\* none to one the owner was told is denied: a decision whose audit event failed counts
\* as not made, although the client is approved by then (authorizationStore.ts:244-283).
ConsentBacked ==
    \A x \in Codes :
        (auth[x] \in {"approved", "code"} \/ \E g \in Grants : x \in disk.code[g]) =>
            /\ \E c \in Calls : ask[c] = [kind |-> "approve", of |-> x] /\ answer[c] = "ok"
            /\ ~ \E c \in Calls : ask[c] = [kind |-> "deny", of |-> x] /\ answer[c] = "ok"

\* A revocation that was acknowledged is never undone by a change that was under way
\* next to it: the client's own with its refresh token, the owner's for a grant, and the
\* removal of a client, which also covers the grant of a code that was being redeemed
\* (grantStore.ts:257-296, ownerApproval.ts:68-72).  An access token or the token of
\* another client is acknowledged whether or not anything ended (tokenService.ts:446);
\* what a call did end stays ended, and a client ends no grant but its own.
RevokedStaysOut ==
    \A c \in Calls :
        /\ answer[c] = "ok" =>
             /\ ask[c].kind = "revoke" /\ OwnerOf(token[c]) = {ask[c].of} =>
                  token[c][1] \notin Usable(disk)
             /\ ask[c].kind = "end" => ask[c].of \notin Usable(disk)
             /\ ask[c].kind = "remove" => \A g \in Usable(disk) : disk.owner[g] # {ask[c].of}
        /\ effect[c] = "ended" =>
             /\ token[c][1] \notin Usable(disk)
             /\ ask[c].kind \in {"revoke", "revokeAccess"} => OwnerOf(token[c]) = {ask[c].of}

\* A code that will not be redeemed any more.
Spent(x) ==
    \/ auth[x] = "gone" \/ x \in late
    \/ ClientOf[x] \notin Trusted(disk)
    \/ \E g \in Grants : x \in disk.code[g]

\* What a client can rely on.  "ok" is true.  Told "invalid", it has nothing left to lose
\* by starting over: its grant is dead, its code worth nothing.  "unavailable" does not
\* say whether the change was made - it is the same 503 when it was (stateStore.ts:310,
\* oauthProvider.ts:609) - and an answer may be lost; but a refresh token that was made
\* and given to nobody is the last of its grant: nothing goes on behind the client's
\* back (tokenService.ts:336-355, grantStore.ts:156-218).
AnswersAreHonest ==
    \A c \in Calls :
        /\ answer[c] = "ok" /\ ask[c].kind = "refresh" => effect[c] = "rotated"
        /\ answer[c] = "ok" /\ ask[c].kind = "exchange" => effect[c] = "issued"
        /\ answer[c] = "invalid" =>
             /\ ask[c].kind = "refresh" => token[c][1] \notin Usable(disk)
             /\ ask[c].kind \in {"revoke", "revokeAccess"} =>
                  \/ token[c][1] \notin Usable(disk)
                  \/ OwnerOf(token[c]) # {ask[c].of}
             /\ ask[c].kind = "exchange" => Spent(ask[c].of)
        /\ effect[c] \in {"issued", "rotated"} /\ Minted(c, effect[c]) \notin given =>
             disk.gen[token[c][1]] = Minted(c, effect[c])[2]

\* Every request and every decision is answered, whatever fails and whoever holds the
\* promise chain (authorizationStore.ts:462-466, deploymentLock.ts:150-187).
AllAnswered == \A c \in Calls : (pc[c] # "new") ~> (pc[c] = "over")

\* The deployment as the authority over its grants.
Standing(g) ==
    IF disk.status[g] = "none" THEN "none" ELSE IF g \in Usable(disk) THEN "live" ELSE "dead"
Authority == INSTANCE TokenAuthority WITH
    Uses     <- Calls,
    grant    <- [g \in Grants |-> Standing(g)],
    gen      <- disk.gen,
    bearer   <- [c \in Calls |-> IF token[c] = NoToken THEN {} ELSE {token[c][1]}],
    accepted <- {c \in Calls : answer[c] = "accepted"}

\* Ending is final, generations go one by one, and an access token is accepted only
\* while its grant is active, its client approved and its lifetime not over, however
\* often it was verified before (tokenService.ts:357-430, grantStore.ts:220-255).
ImplementsAuthority == Authority!Spec
=============================================================================
