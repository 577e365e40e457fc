--------------------------- MODULE OAuthInvariant ---------------------------
(* The invariant of an OAuth deployment: what every step preserves, and what  *)
(* the answers given to clients and to the owner rest on.                     *)
EXTENDS OAuthServer

Held   == Grants \X Nat
Says   == {"ok", "invalid", "refused", "accepted", "unavailable", "lost"}
Where  == {"new", "queued", "swept", "auditing", "signing", "verifying", "writing", "backed", "second", "over"}

TypeOK ==
    /\ disk \in Disks
    /\ signer \in Nat
    /\ job \in {NoJob} \cup [who : {{c} : c \in Calls}, next : Disks,
                             what : {"none", "issued", "rotated", "ended", "decided"},
                             then : {"ok", "invalid", "refused", "auditing", "backed", "second"}]
    /\ auth \in [Codes -> {"none", "pending", "approved", "denied", "expired", "code", "gone"}]
    /\ chain \in Seq(Calls)
    /\ refused \subseteq Held
    /\ given \subseteq Held
    /\ lapsed \subseteq Grants
    /\ late \subseteq Codes
    /\ pc \in [Calls -> Where]
    /\ token \in [Calls -> Held \cup {NoToken}]
    /\ effect \in [Calls -> {"none", "issued", "rotated", "ended", "decided"}]
    /\ answer \in [Calls -> Says \cup {"none"}]
    /\ faults \in Nat /\ crashes \in Nat

\* A grant has one owner, who is not still to be approved, and, if its
\* code is known here, is the only one of that code.
RecordsOK ==
    /\ Valid(disk)
    /\ \A g \in Grants :
         /\ disk.status[g] # "none" => \E e \in PastApproval(disk) : disk.owner[g] = {e}
         /\ disk.status[g] = "none" => disk.code[g] = {} /\ disk.gen[g] = 0
         /\ \A x \in disk.code[g] : auth[x] \in {"code", "gone"}
    /\ \A x \in Codes : auth[x] \in {"approved", "code"} => ClientOf[x] \in PastApproval(disk)

Revoking == {"revoke", "revokeAccess"}
Bearer == {"refresh", "use"} \cup Revoking

\* Every token stands for a grant there is, in a generation it has reached.
TokensOK ==
    /\ \A t \in given : disk.status[t[1]] # "none" /\ t[2] <= disk.gen[t[1]]
    /\ \A c \in Calls : ask[c].kind \in Bearer =>
         /\ pc[c] # "new" => token[c] \in Held
         /\ token[c] # NoToken => token[c] \in given

\* What is being written is one step from what is there.
NextOK(c, next) ==
    LET t == token[c] IN
    CASE job.what = "issued" ->
           /\ ask[c].kind = "exchange" /\ job.then = "ok"
           /\ auth[ask[c].of] = "code" /\ t \in Held /\ t[2] = 0
           /\ \A g \in Grants : ask[c].of \notin disk.code[g]
           /\ t[1] \in Unused(disk) /\ next = Created(disk, t[1], ask[c].of)
      [] job.what = "rotated" ->
           /\ ask[c].kind = "refresh" /\ job.then = "ok"
           /\ t[2] = disk.gen[t[1]] /\ next = Rotated(disk, t[1])
      [] job.what = "ended" ->
           /\ ask[c].kind \in Bearer /\ next = Ended(disk, {t[1]})
           /\ job.then = (CASE ask[c].kind = "refresh" -> "invalid"
                            [] ask[c].kind \in Revoking -> "ok"
                            [] ask[c].kind = "use" -> "refused")
           /\ ask[c].kind \in Revoking => OwnerOf(t) = {ask[c].of}
      [] job.what = "decided" ->
           /\ c \in Owners /\ ask[c].kind \notin {"approve", "deny"}
           /\ \/ next = FirstOf(c) /\ FirstChanges(c) /\ job.then = After(c)
              \/ ask[c].kind \in {"remove", "rotateAll"} /\ next = SecondOf(c) /\ job.then = "ok"
                 /\ (ask[c].kind = "remove" => ask[c].of \notin Known(disk))
      [] job.what = "none" ->
           \/ ask[c].kind = "register" /\ disk.client[ask[c].of] = "none"
              /\ next = Registered(disk, ask[c].of) /\ job.then = "ok"
           \/ c \in Owners /\ ask[c].kind \notin {"approve", "deny"} /\ next = disk /\ job.then = "backed"
           \/ ask[c].kind = "approve" /\ auth[ask[c].of] = "pending"
              /\ ClientOf[ask[c].of] \in Known(disk)
              /\ next = Approved(disk, ClientOf[ask[c].of]) /\ job.then = "auditing"

JobOK ==
    /\ \A c \in Calls : pc[c] = "writing" <=> Writes(c)
    /\ \A c \in Calls : Writes(c) => Valid(job.next) /\ NextOK(c, job.next)

\* One call works on the authorizations at a time, and nothing moves under it.
ChainKinds == {"authorize", "approve", "deny", "continue", "exchange"}
ChainOK ==
    \A c \in Calls :
        /\ pc[c] \in {"queued", "swept", "auditing", "signing"} => ask[c].kind \in ChainKinds
        /\ pc[c] \in {"swept", "auditing", "signing"} => Turn(c)
        /\ pc[c] = "writing" /\ ask[c].kind \in ChainKinds => Turn(c)
        /\ pc[c] = "signing" => ask[c].kind = "exchange" /\ auth[ask[c].of] = "code"
        /\ pc[c] \in {"swept", "auditing"} => ask[c].kind # "exchange"
        /\ pc[c] = "auditing" =>
             auth[ask[c].of] = (CASE ask[c].kind = "authorize" -> "none"
                                  [] ask[c].kind \in {"approve", "deny"} -> "pending"
                                  [] ask[c].kind = "continue" -> "approved")
        /\ pc[c] = "auditing" /\ ask[c].kind = "approve" => ClientOf[ask[c].of] \in PastApproval(disk)
        /\ ask[c].kind = "authorize" /\ pc[c] \in {"queued", "swept"} => auth[ask[c].of] = "none"

\* Who is where.
PlacesOK ==
    \A c \in Calls :
        /\ pc[c] = "new" => answer[c] = "none" /\ effect[c] = "none" /\ token[c] = NoToken
        /\ pc[c] = "verifying" => ask[c].kind \in {"use", "revokeAccess"}
        /\ pc[c] \in {"backed", "second"} => c \in Owners /\ ask[c].kind \notin {"approve", "deny"}
        /\ pc[c] = "second" => ask[c].kind \in {"remove", "rotateAll"}
        /\ pc[c] = "second" /\ ask[c].kind = "remove" => ask[c].of \notin Known(disk) /\ disk.client[ask[c].of] # "none"
        /\ pc[c] = "over" <=> answer[c] # "none"
        /\ c \notin Owners /\ pc[c] # "over" => effect[c] = "none"
        /\ effect[c] = "rotated" => ask[c].kind = "refresh" /\ token[c] \in Held
        /\ effect[c] = "issued" => ask[c].kind = "exchange" /\ token[c] \in Held /\ token[c][2] = 0
        /\ effect[c] = "ended" => ask[c].kind \in Bearer /\ token[c] \in Held
        /\ ask[c].kind = "exchange" /\ pc[c] # "new" => auth[ask[c].of] \in {"code", "gone"}
        /\ answer[c] \in {"accepted", "refused"} => ask[c].kind = "use"
        /\ ask[c].kind = "remove" /\ pc[c] # "new" => disk.client[ask[c].of] # "none"
        /\ ask[c].kind = "end" /\ pc[c] # "new" => disk.status[ask[c].of] # "none"

\* Every generation of a refresh token is turned into the next one by one call only.
NoDoubleSpend ==
    /\ \A c \in Calls : effect[c] = "rotated" => token[c][2] < disk.gen[token[c][1]]
    /\ \A c, d \in Calls : c # d /\ effect[c] = "rotated" /\ effect[d] = "rotated" => token[c] # token[d]

\* An authorization that was denied does not come back.
DenyFinal ==
    /\ \A c \in Calls : ask[c].kind = "deny" /\ answer[c] = "ok" => auth[ask[c].of] \in {"denied", "gone"}
    /\ \A x \in Codes : auth[x] = "gone" /\ (\E c \in Calls : ask[c] = [kind |-> "deny", of |-> x] /\ answer[c] = "ok") =>
         \A g \in Grants : x \notin disk.code[g]

\* A client whose removal was acknowledged is removed.
RemovedOK ==
    \A c \in Calls : ask[c].kind = "remove" /\ answer[c] = "ok" => ask[c].of \notin Known(disk)

\* The key only changes by a decision of the owner.
KeyOK ==
    disk.key # signer =>
        \E d \in Calls : ask[d].kind \in {"rotate", "rotateAll"} /\ effect[d] = "decided"

\* All of it: each part is one that some other one needs to be preserved.  Among it,
\* that a refresh token is spent by one call and a code makes one grant, whatever runs
\* next to it and wherever a crash falls (grantStore.ts:112-218, deploymentLock.ts:150-187).
OAuthInv ==
    /\ AskOK /\ TypeOK /\ RecordsOK /\ TokensOK /\ JobOK /\ ChainOK /\ PlacesOK
    /\ NoDoubleSpend /\ DenyFinal /\ RemovedOK /\ KeyOK
    /\ ConsentBacked /\ RevokedStaysOut /\ AnswersAreHonest
=============================================================================
