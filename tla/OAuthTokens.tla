----------------------------- MODULE OAuthTokens -----------------------------
(***************************************************************************)
(* What a client does with tokens: the token, revocation and resource       *)
(* endpoints (auth/oauthProvider.ts, auth/resourceMiddleware.ts) over the   *)
(* token service and the grant store (auth/tokenService.ts,                 *)
(* auth/grantStore.ts).                                                     *)
(***************************************************************************)
EXTENDS OAuthAuthorizations

\* approvedClient
ClientServed(e) == e \in Trusted(disk)
OwnerOf(t) == disk.owner[t[1]]

-----------------------------------------------------------------------------
(* A code for a grant.                                                      *)

Exchange(c) ==
    /\ pc[c] = "new" /\ ask[c].kind = "exchange" /\ auth[ask[c].of] \in {"code", "gone"}
    /\ \/ ClientServed(ClientOf[ask[c].of]) /\ Enqueue(c)
       \/ ~ClientServed(ClientOf[ask[c].of]) /\ Told(c, "invalid") /\ UNCHANGED token

\* The access token is signed before the grant exists.
Redeem(c) ==
    LET x == ask[c].of
        here == auth[x] = "code" /\ x \notin late IN
    /\ pc[c] = "queued" /\ Turn(c) /\ ask[c].kind = "exchange"
    /\ \/ ~here /\ Told(c, "invalid")
       \/ here /\ disk.key # signer /\ Told(c, "unavailable")
       \/ here /\ disk.key = signer /\ Goes(c, "signing") /\ UNCHANGED memoryVars
    /\ UNCHANGED token

\* create: the client is not looked at again.
CreateGrant(c) ==
    LET x == ask[c].of
        spent == \E g \in Grants : x \in disk.code[g]
        full == Cardinality(ActiveOf(disk, ClientOf[x])) >= MaxActive IN
    /\ pc[c] = "signing"
    /\ \/ Busy /\ Told(c, "unavailable") /\ UNCHANGED token
       \/ ~Busy /\ spent /\ Told(c, "invalid") /\ UNCHANGED token
       \/ ~Busy /\ ~spent /\ full /\ Told(c, "unavailable") /\ UNCHANGED token
       \/ /\ ~Busy /\ ~spent /\ ~full
          /\ \E g \in Unused(disk) :
               /\ Change(c, Created(disk, g, x), "issued", "ok")
               /\ token' = [token EXCEPT ![c] = <<g, 0>>]

-----------------------------------------------------------------------------
(* The next generation of a refresh token, rotateRefresh.  A refresh token  *)
(* that was used before ends its grant, and so does one that comes late.    *)

\* mutant: an old refresh token is refused and nothing more
RotateLeniently(c, t) ==
    LET g == t[1] IN
    \/ Busy /\ Told(c, "unavailable")
    \/ ~Busy /\ (g \notin Usable(disk) \/ t[2] # disk.gen[g]) /\ Told(c, "invalid")
    \/ ~Busy /\ g \in Usable(disk) /\ t[2] = disk.gen[g] /\ g \notin lapsed
       /\ Acquire(c, Rotated(disk, g), "rotated", "ok")

Rotate(c, t) ==
    LET g == t[1] IN
    \/ Busy /\ Told(c, "unavailable")
    \/ ~Busy /\ g \notin Usable(disk) /\ Told(c, "invalid")
    \/ /\ ~Busy /\ g \in Usable(disk)
       /\ IF g \in lapsed \/ t[2] < disk.gen[g]
          THEN Acquire(c, Ended(disk, {g}), "ended", "invalid")
          ELSE Acquire(c, Rotated(disk, g), "rotated", "ok")

Refresh(c) ==
    /\ pc[c] = "new" /\ ask[c].kind = "refresh"
    /\ \E t \in given :
         /\ token' = [token EXCEPT ![c] = t]
         /\ \/ OwnerOf(t) \subseteq Trusted(disk) /\ Rotate(c, t)
            \/ ~(OwnerOf(t) \subseteq Trusted(disk)) /\ Told(c, "invalid")

-----------------------------------------------------------------------------
(* The revocation endpoint.  Whoever asks is told ok, whatever the token is *)
(* worth, and only the client's own grants end.                             *)

\* mutant: whoever has the token ends the grant
RevokeAnyFamily(c, t) ==
    \/ Busy /\ Told(c, "unavailable")
    \/ ~Busy /\ t[1] \in Active(disk) /\ Acquire(c, Ended(disk, {t[1]}), "ended", "ok")
    \/ ~Busy /\ t[1] \notin Active(disk) /\ Told(c, "ok")

RevokeFamily(c, t) ==
    LET own == t[1] \in Active(disk) /\ OwnerOf(t) = {ask[c].of} IN
    \/ Busy /\ Told(c, "unavailable")
    \/ ~Busy /\ own /\ Acquire(c, Ended(disk, {t[1]}), "ended", "ok")
    \/ ~Busy /\ ~own /\ Told(c, "ok")

\* With a refresh token, or an access token, which has to be verified first.
Revoke(c) ==
    /\ pc[c] = "new" /\ ask[c].kind \in {"revoke", "revokeAccess"}
    /\ \E t \in given :
         /\ token' = [token EXCEPT ![c] = t]
         /\ \/ ask[c].of \notin Trusted(disk) /\ Told(c, "invalid")
            \/ /\ ask[c].of \in Trusted(disk) /\ ask[c].kind = "revoke"
               /\ RevokeFamily(c, t)
            \/ /\ ask[c].of \in Trusted(disk) /\ ask[c].kind = "revokeAccess"
               /\ Goes(c, "verifying") /\ UNCHANGED memoryVars

\* An access token that cannot be verified - its own lifetime is over, its key is
\* retired, the state cannot be read - is acknowledged without a look at its grant.
RevokeVerified(c) ==
    /\ pc[c] = "verifying" /\ ask[c].kind = "revokeAccess"
    /\ \/ Told(c, "ok")
       \/ OwnerOf(token[c]) = {ask[c].of} /\ RevokeFamily(c, token[c])
    /\ UNCHANGED token

-----------------------------------------------------------------------------
(* An access token at the resource, verifyAccessToken.                      *)

Use(c) ==
    /\ pc[c] = "new" /\ ask[c].kind = "use"
    /\ \E t \in given :
         /\ token' = [token EXCEPT ![c] = t]
         /\ \/ t \in refused /\ Told(c, "refused")
            \/ t \notin refused /\ Goes(c, "verifying") /\ UNCHANGED memoryVars

\* An access token that was not accepted, for whatever reason, is refused, and for a
\* minute every other time as well.
NotAccepted(c) ==
    /\ Answer(c, "refused")
    /\ refused' = refused \cup {token[c]}
    /\ UNCHANGED <<disk, signer, auth, job, effect, faults, clockVars, worldVars>>

\* mutant: a grant is looked at, its client is not
ValidateOnlyGrant(c) ==
    LET g == token[c][1] IN
    /\ pc[c] = "verifying" /\ ask[c].kind = "use"
    /\ \/ Busy /\ NotAccepted(c)
       \/ ~Busy /\ g \notin Active(disk) /\ NotAccepted(c)
       \/ /\ ~Busy /\ g \in Active(disk) /\ g \in lapsed
          /\ Acquire(c, Ended(disk, {g}), "ended", "refused")
       \/ ~Busy /\ g \in Active(disk) /\ g \notin lapsed /\ Told(c, "accepted")
    /\ UNCHANGED token

\* validateAccess: every use asks the durable state, however often the token was
\* verified before.
Validate(c) ==
    LET g == token[c][1] IN
    /\ pc[c] = "verifying" /\ ask[c].kind = "use"
    /\ \/ Busy /\ NotAccepted(c)
       \/ ~Busy /\ g \notin Usable(disk) /\ NotAccepted(c)
       \/ /\ ~Busy /\ g \in Usable(disk) /\ g \in lapsed
          /\ Acquire(c, Ended(disk, {g}), "ended", "refused")
       \/ ~Busy /\ g \in Usable(disk) /\ g \notin lapsed /\ Told(c, "accepted")
    /\ UNCHANGED token

-----------------------------------------------------------------------------
(* How a write ends, for whichever call took the lock.                      *)

Answers == {"ok", "invalid", "refused"}

Remember(c) == refused' = IF ask[c].kind = "use" THEN refused \cup {token[c]} ELSE refused

\* The refresh token that comes of a code or of its predecessor.
Minted(c, what) == IF what = "issued" THEN token[c] ELSE <<token[c][1], token[c][2] + 1>>

\* What becomes durable.
Lasts(c) ==
    /\ disk' = job.next
    /\ effect' = [effect EXCEPT ![c] = IF job.what = "none" THEN @ ELSE job.what]

\* The change is audited and written, and the answer is sent.  A refresh signs only
\* now, which the server can no longer do once the owner has rotated the key.
Written(c) ==
    LET unsigned == job.what = "rotated" /\ disk.key # signer
        told == job.then = "ok" /\ job.what \in {"issued", "rotated"} /\ ~unsigned IN
    /\ Writes(c)
    /\ Lasts(c)
    /\ job' = NoJob
    /\ auth' = IF job.what = "issued" THEN [auth EXCEPT ![ask[c].of] = "gone"] ELSE auth
    /\ \/ job.then \in Answers /\ Answer(c, IF unsigned THEN "unavailable" ELSE job.then)
       \/ job.then \notin Answers /\ pc' = [pc EXCEPT ![c] = job.then] /\ UNCHANGED <<answer, chain>>
    /\ \/ /\ told
          /\ given' = given \cup {Minted(c, job.what)}
          /\ UNCHANGED faults
       \/ told /\ faults > 0 /\ faults' = faults - 1 /\ UNCHANGED given    \* the answer is lost
       \/ ~told /\ UNCHANGED <<given, faults>>
    /\ Remember(c)
    /\ UNCHANGED <<signer, clockVars, ask, crashes, token>>

\* A change that fails: 503, or a token that is not accepted.
Failed(c) ==
    /\ Writes(c)
    /\ faults > 0 /\ faults' = faults - 1
    /\ job' = NoJob
    /\ Answer(c, IF ask[c].kind = "use" THEN "refused" ELSE "unavailable")
    /\ Remember(c)
    /\ UNCHANGED <<signer, auth, clockVars, worldVars, token>>

\* The audit log does not take it: nothing changes.
NotAudited(c) == Failed(c) /\ UNCHANGED <<disk, effect>>

\* It is written, but its directory could not be synced: the answer is the same,
\* although every later call reads the change.
Unproven(c) == Failed(c) /\ Lasts(c)

Tokens(c) ==
    \/ Exchange(c) \/ Redeem(c) \/ CreateGrant(c) \/ Refresh(c)
    \/ Revoke(c) \/ RevokeVerified(c) \/ Use(c) \/ Validate(c)
Writing(c) == Written(c) \/ NotAudited(c) \/ Unproven(c)
=============================================================================
