----------------------------- MODULE OAuthProofs -----------------------------
(***************************************************************************)
(* Proofs about OAuthServer, for any number of clients, authorizations,     *)
(* grants and calls: OAuthInv is an invariant, and the deployment           *)
(* implements TokenAuthority.                                               *)
(***************************************************************************)
EXTENDS OAuthInvariant, TLAPS

-----------------------------------------------------------------------------
(* What the stores make of a state: the fields an operation changes.        *)

\* A registration adds a client, and forgets those that are revoked.
LEMMA RegisteredIs ==
    ASSUME NEW d \in Disks, NEW e \in Clients
    PROVE  LET n == Registered(d, e) IN
           /\ n \in Disks
           /\ n.status = d.status /\ n.owner = d.owner /\ n.code = d.code /\ n.gen = d.gen /\ n.key = d.key
           /\ \A x \in Clients : n.client[x] = IF x = e THEN "unapproved" 
               ELSE IF d.client[x] = "revoked" THEN "gone" ELSE d.client[x]
BY DEF Registered, Disks

\* An approval changes one client.
LEMMA ApprovedIs ==
    ASSUME NEW d \in Disks, NEW e \in Clients
    PROVE  LET n == Approved(d, e) IN
           /\ n \in Disks
           /\ n.status = d.status /\ n.owner = d.owner /\ n.code = d.code /\ n.gen = d.gen /\ n.key = d.key
           /\ \A x \in Clients : n.client[x] = IF x = e THEN "approved" ELSE d.client[x]
BY DEF Approved, Disks

\* A grant that is issued leaves the others alone.
LEMMA CreatedIs ==
    ASSUME NEW d \in Disks, NEW g \in Grants, NEW x \in Codes
    PROVE  LET n == Created(d, g, x) IN
           /\ n \in Disks
           /\ n.client = d.client /\ n.gen = d.gen /\ n.key = d.key
           /\ n.status[g] = "active" /\ n.owner[g] = {ClientOf[x]} /\ n.code[g] = {x}
           /\ \A h \in Grants \ {g} :
                n.status[h] = d.status[h] /\ n.owner[h] = d.owner[h] /\ n.code[h] = d.code[h]
BY ZenonT(60), StateAssumption DEF Created, Disks

\* A refresh changes one generation.
LEMMA RotatedIs ==
    ASSUME NEW d \in Disks, NEW g \in Grants
    PROVE  LET n == Rotated(d, g) IN
           /\ n \in Disks
           /\ n.client = d.client /\ n.status = d.status /\ n.owner = d.owner /\ n.code = d.code /\ n.key = d.key
           /\ n.gen[g] = d.gen[g] + 1 /\ \A h \in Grants \ {g} : n.gen[h] = d.gen[h]
BY DEF Rotated, Disks

\* Ending grants changes their status and nothing else.
LEMMA EndedIs ==
    ASSUME NEW d \in Disks, NEW S
    PROVE  LET n == Ended(d, S) IN
           /\ n \in Disks
           /\ n.client = d.client /\ n.gen = d.gen /\ n.owner = d.owner /\ n.code = d.code /\ n.key = d.key
           /\ \A g \in Grants : n.status[g] = IF g \in S THEN "ended" ELSE d.status[g]
BY DEF Ended, Disks

\* The clients that were never approved go.
LEMMA PrunedIs ==
    ASSUME NEW d \in Disks
    PROVE  LET n == Pruned(d) IN
           /\ n \in Disks
           /\ n.status = d.status /\ n.owner = d.owner /\ n.code = d.code /\ n.gen = d.gen /\ n.key = d.key
           /\ \A x \in Clients : n.client[x] = IF d.client[x] = "unapproved" THEN "gone" ELSE d.client[x]
BY DEF Pruned, Disks

\* A removal changes one client, and none of its grants.
LEMMA RemovedIs ==
    ASSUME NEW d \in Disks, NEW e \in Clients
    PROVE  LET n == Removed(d, e) IN
           /\ n \in Disks
           /\ n.status = d.status /\ n.owner = d.owner /\ n.code = d.code /\ n.gen = d.gen /\ n.key = d.key
           /\ \A x \in Clients : n.client[x] = IF x = e THEN "revoked" ELSE d.client[x]
BY DEF Removed, Disks

\* The key changes and nothing else.
LEMMA RekeyedIs ==
    ASSUME NEW d \in Disks
    PROVE  LET n == Rekeyed(d) IN
           /\ n \in Disks
           /\ n.client = d.client /\ n.status = d.status /\ n.owner = d.owner /\ n.code = d.code /\ n.gen = d.gen
           /\ n.key = d.key + 1
BY DEF Rekeyed, Disks

-----------------------------------------------------------------------------
(* What is written.                                                         *)

\* The target of a request is of the sort its kind asks for.
LEMMA Asks ==
    ASSUME AskOK, NEW c \in Calls
    PROVE  /\ ask[c].kind \in Kinds
           /\ ask[c].kind \in {"register", "remove"} => ask[c].of \in Clients
           /\ ask[c].kind = "end" => ask[c].of \in Grants
           /\ ask[c].kind \in ChainKinds => ask[c].of \in Codes
           /\ ask[c] = [kind |-> ask[c].kind, of |-> ask[c].of]
BY DEF AskOK, Kinds, Targets, ChainKinds

\* A state and one that a change makes of it.
Onward(d, n) ==
    /\ n \in Disks
    /\ \A g \in Grants :
         /\ \/ n.status[g] = d.status[g]
            \/ d.status[g] = "none" /\ n.status[g] = "active"
            \/ d.status[g] = "active" /\ n.status[g] = "ended"
         /\ d.status[g] # "none" => n.owner[g] = d.owner[g] /\ n.code[g] = d.code[g]
         /\ n.gen[g] \in {d.gen[g], d.gen[g] + 1}
    /\ \A e \in Clients :
         \/ n.client[e] = d.client[e]
         \/ d.client[e] = "none" /\ n.client[e] = "unapproved"
         \/ d.client[e] = "unapproved" /\ n.client[e] \in {"approved", "revoked", "gone"}
         \/ d.client[e] = "approved" /\ n.client[e] = "revoked"
         \/ d.client[e] = "revoked" /\ n.client[e] = "gone"

\* What the change of call c, of the sort what, comes to.
Comes(c, d, n, what) ==
    LET g == token[c][1]
        x == ask[c].of IN
    /\ what = "issued" =>
         /\ g \in Grants /\ x \in Codes
         /\ d.status[g] = "none" /\ n.status[g] = "active"
         /\ n.owner[g] = {ClientOf[x]} /\ n.code[g] = {x}
    /\ what = "rotated" => g \in Grants /\ d.gen[g] = token[c][2] /\ n.gen[g] = token[c][2] + 1
    /\ what = "ended" => g \in Grants /\ n.status[g] # "active"
    /\ \A h \in Grants :
         /\ ~(what = "issued" /\ h = g) =>
              n.code[h] = d.code[h] /\ n.owner[h] = d.owner[h] /\ (d.status[h] = "none" => n.status[h] = "none")
         /\ ~(what = "rotated" /\ h = g) => n.gen[h] = d.gen[h]
    /\ n.key # d.key => what = "decided" /\ ask[c].kind \in {"rotate", "rotateAll"}

\* Whatever is being written, NextOK says what comes of it.
LEMMA Reaches ==
    ASSUME AskOK, TypeOK, TokensOK, JobOK, PlacesOK, NEW c \in Calls, Writes(c)
    PROVE  Onward(disk, job.next) /\ Comes(c, disk, job.next, job.what)
<1> DEFINE g == token[c][1]
           x == ask[c].of
           n == job.next
<1> USE StateAssumption
<1>0. /\ disk \in Disks /\ NextOK(c, n) /\ pc[c] = "writing"
      /\ job.what \in {"none", "issued", "rotated", "ended", "decided"}
      /\ n \in Disks
  BY DEF JobOK, TypeOK, Writes, Busy, NoJob
<1>00. ask[c].kind \in Bearer => token[c] \in Held BY <1>0 DEF TokensOK
<1>1. CASE job.what = "issued"
  <2>1. /\ g \in Unused(disk) /\ n = Created(disk, g, x) /\ x \in Codes
    BY <1>0, <1>1, Asks DEF NextOK, ChainKinds
  <2>2. g \in Grants /\ disk.status[g] = "none" BY <2>1 DEF Unused
  <2>3. Onward(disk, n) BY <1>0, <2>1, <2>2, CreatedIs DEF Onward
  <2>4. Comes(c, disk, n, job.what) BY <1>0, <1>1, <2>1, <2>2, CreatedIs DEF Comes
  <2> QED BY <2>3, <2>4
<1>2. CASE job.what = "rotated"
  <2>1. n = Rotated(disk, g) /\ token[c][2] = disk.gen[g] /\ g \in Grants
    BY <1>0, <1>00, <1>2 DEF NextOK, Bearer, Held
  <2>2. Onward(disk, n) BY <1>0, <2>1, RotatedIs DEF Onward
  <2>3. Comes(c, disk, n, job.what) BY <1>0, <1>2, <2>1, RotatedIs DEF Comes
  <2> QED BY <2>2, <2>3
<1>3. CASE job.what = "ended"
  <2>1. n = Ended(disk, {g}) /\ g \in Grants /\ disk.status[g] # "none"
    BY <1>0, <1>00, <1>3 DEF NextOK, Bearer, Revoking, Held, TokensOK, NoToken
  <2>2. /\ n \in Disks
        /\ n.client = disk.client /\ n.gen = disk.gen /\ n.owner = disk.owner /\ n.code = disk.code /\ n.key = disk.key
        /\ \A h \in Grants : n.status[h] = IF h \in {g} THEN "ended" ELSE disk.status[h]
    BY <1>0, <2>1, EndedIs
  <2>3. \A h \in Grants : disk.status[h] \in {"none", "active", "ended"} BY <1>0 DEF Disks
  <2>4. \A h \in Grants :
           \/ n.status[h] = disk.status[h]
           \/ disk.status[h] = "active" /\ n.status[h] = "ended"
    <3>1. \A h \in Grants : h # g => n.status[h] = disk.status[h] BY <2>2
    <3>2. n.status[g] = "ended" /\ disk.status[g] \in {"active", "ended"} BY <2>1, <2>2, <2>3
    <3> QED BY <3>1, <3>2
  <2>5. n.status[g] = "ended" BY <2>1, <2>2
  <2>6. Onward(disk, n) BY ONLY <2>2, <2>4 DEF Onward
  <2>7. Comes(c, disk, n, job.what) BY ONLY <1>3, <2>1, <2>2, <2>4, <2>5 DEF Comes
  <2> QED BY <2>6, <2>7
<1>4. ASSUME NEW S \in SUBSET Grants, \A h \in S : disk.status[h] # "none",
             n = Ended(disk, S), job.what = "decided"
      PROVE  Onward(disk, n) /\ Comes(c, disk, n, job.what)
  BY <1>0, <1>4, EndedIs DEF Onward, Comes, Disks
<1>5. ASSUME n = Rekeyed(disk), job.what = "decided", ask[c].kind \in {"rotate", "rotateAll"}
      PROVE  Onward(disk, n) /\ Comes(c, disk, n, job.what)
  BY <1>0, <1>5, RekeyedIs DEF Onward, Comes, Disks
<1>6. ASSUME job.what = "decided", n = FirstOf(c), FirstChanges(c)
      PROVE  Onward(disk, n) /\ Comes(c, disk, n, job.what)
  <2>1. CASE ask[c].kind = "end"
    <3>1. n = Ended(disk, {x}) /\ x \in Grants BY <1>6, <2>1, Asks DEF FirstOf
    <3>2. disk.status[x] # "none" BY <1>0, <2>1 DEF PlacesOK
    <3> QED BY <1>4, <1>6, <3>1, <3>2
  <2>2. CASE ask[c].kind \in {"endAll", "rotateAll"}
    BY <1>0, <1>4, <1>6, <2>2 DEF FirstOf, Active
  <2>3. CASE ask[c].kind = "remove"
    <3>1. n = Removed(disk, x) /\ x \in Clients BY <1>6, <2>3, Asks DEF FirstOf
    <3>2. disk.client[x] \in {"unapproved", "approved"} BY <1>6, <2>3 DEF FirstChanges, Known
    <3>3. Onward(disk, n) BY <1>0, <3>1, <3>2, RemovedIs DEF Onward
    <3>4. Comes(c, disk, n, job.what) BY <1>0, <1>6, <3>1, RemovedIs DEF Comes
    <3> QED BY <3>3, <3>4
  <2>4. CASE ask[c].kind = "prune"
    <3>1. n = Pruned(disk) BY <1>6, <2>4 DEF FirstOf
    <3> QED BY <1>0, <1>6, <3>1, PrunedIs DEF Onward, Comes, Disks
  <2>5. CASE ask[c].kind = "rotate" BY <1>5, <1>6, <2>5 DEF FirstOf
  <2> QED BY <1>0, <1>6, <2>1, <2>2, <2>3, <2>4, <2>5, Asks DEF NextOK, Owners, Kinds
<1>7. ASSUME job.what = "decided", n = SecondOf(c), ask[c].kind \in {"remove", "rotateAll"}
      PROVE  Onward(disk, n) /\ Comes(c, disk, n, job.what)
  <2>1. CASE ask[c].kind = "remove"
    BY <1>0, <1>4, <1>7, <2>1 DEF SecondOf, ActiveOf, Active
  <2>2. CASE ask[c].kind = "rotateAll" BY <1>5, <1>7, <2>2 DEF SecondOf
  <2> QED BY <1>7, <2>1, <2>2
<1>8. CASE job.what = "none"
  <2>1. CASE ask[c].kind = "register" /\ disk.client[x] = "none" /\ n = Registered(disk, x)
    <3>1. x \in Clients BY <2>1, Asks
    <3>2. Onward(disk, n) BY <1>0, <2>1, <3>1, RegisteredIs DEF Onward
    <3>3. Comes(c, disk, n, job.what) BY <1>0, <1>8, <2>1, <3>1, RegisteredIs DEF Comes
    <3> QED BY <3>2, <3>3
  <2>2. CASE n = disk BY <1>0, <1>8, <2>2 DEF Onward, Comes, Disks
  <2>3. CASE ask[c].kind = "approve" /\ ClientOf[x] \in Known(disk) /\ n = Approved(disk, ClientOf[x])
    <3>1. ClientOf[x] \in Clients /\ disk.client[ClientOf[x]] \in {"unapproved", "approved"}
      BY <2>3 DEF Known
    <3>2. Onward(disk, n)
      <4>1. /\ n \in Disks
            /\ n.status = disk.status /\ n.owner = disk.owner /\ n.code = disk.code /\ n.gen = disk.gen
            /\ \A e \in Clients : n.client[e] = IF e = ClientOf[x] THEN "approved" ELSE disk.client[e]
        BY <1>0, <2>3, <3>1, ApprovedIs
      <4> QED BY ONLY <3>1, <4>1 DEF Onward
    <3>3. Comes(c, disk, n, job.what) BY <1>0, <1>8, <2>3, <3>1, ApprovedIs DEF Comes
    <3> QED BY <3>2, <3>3
  <2> QED BY <1>0, <1>8, <2>1, <2>2, <2>3 DEF NextOK
<1> QED BY <1>0, <1>1, <1>2, <1>3, <1>6, <1>7, <1>8 DEF NextOK

\* Nothing has to be written for that.
LEMMA StandsStill == ASSUME disk \in Disks PROVE Onward(disk, disk)
BY DEF Onward

\* What stays true of grants and clients, whatever is written.
LEMMA Stays ==
    ASSUME disk \in Disks, RecordsOK, NEW n, Onward(disk, n)
    PROVE  /\ \A g \in Usable(n) : disk.status[g] # "none" => g \in Usable(disk)
           /\ PastApproval(disk) \subseteq PastApproval(n)
           /\ \A e \in Clients : disk.client[e] # "none" =>
                n.client[e] # "none" /\ (e \notin Known(disk) => e \notin Known(n))
<1>1. PastApproval(disk) \subseteq PastApproval(n) BY DEF Onward, PastApproval
<1>2. \A e \in Clients : disk.client[e] # "none" =>
          n.client[e] # "none" /\ (e \notin Known(disk) => e \notin Known(n))
  BY DEF Onward, Known, Disks
<1>3. ASSUME NEW g \in Usable(n), disk.status[g] # "none" PROVE g \in Usable(disk)
  <2>1. g \in Grants /\ n.status[g] = "active" BY DEF Usable, Active
  <2>2. disk.status[g] = "active" /\ n.owner[g] = disk.owner[g] BY <1>3, <2>1 DEF Onward
  <2>3. PICK e \in PastApproval(disk) : disk.owner[g] = {e} BY <1>3, <2>1 DEF RecordsOK
  <2>4. n.client[e] = "approved" BY <2>2, <2>3 DEF Usable, Trusted
  <2>5. disk.client[e] = "approved" BY <2>3, <2>4 DEF Onward, PastApproval
  <2> QED BY <2>1, <2>2, <2>3, <2>5 DEF Usable, Active, Trusted, PastApproval
<1> QED BY <1>1, <1>2, <1>3

-----------------------------------------------------------------------------
(* What was answered stays true.                                            *)

\* A code whose time is over stays one, or is gone.
LateStays == \A x \in late : auth[x] = "code" => x \in late' \/ auth'[x] = "gone"

\* A code that will not be redeemed any more never will be.
LEMMA SpentStays ==
    ASSUME OAuthInv, NEW x \in Codes, Spent(x), auth[x] \in {"code", "gone"},
           auth'[x] = auth[x] \/ auth'[x] = "gone", LateStays, Onward(disk, disk')
    PROVE  Spent(x)'
<1> USE StateAssumption
<1>1. CASE auth'[x] = "gone" BY <1>1 DEF Spent
<1>2. CASE auth'[x] # "gone" /\ x \in late BY <1>2 DEF Spent, LateStays
<1>3. CASE auth[x] = "code" /\ ClientOf[x] \notin Trusted(disk)
  <2>1. ClientOf[x] \in Clients /\ disk.client[ClientOf[x]] \in {"revoked", "gone"}
    BY <1>3 DEF OAuthInv, RecordsOK, PastApproval, Trusted
  <2>2. disk'.client[ClientOf[x]] # "approved" BY <2>1 DEF Onward
  <2> QED BY <2>2 DEF Spent, Trusted
<1>4. ASSUME NEW g \in Grants, x \in disk.code[g] PROVE Spent(x)'
  <2>1. disk.status[g] # "none" BY <1>4 DEF OAuthInv, RecordsOK
  <2>2. x \in disk'.code[g] BY <1>4, <2>1 DEF Onward
  <2> QED BY <2>2 DEF Spent
<1> QED BY <1>1, <1>2, <1>3, <1>4 DEF Spent

\* What a call was told stays true while it is told nothing else: grants only end, and
\* a generation is over only when its token was given.
LEMMA HonestStays ==
    ASSUME OAuthInv, NEW d \in Calls, Onward(disk, disk'), ask' = ask, given \subseteq given', LateStays,
           answer'[d] = answer[d] \/ answer'[d] \notin {"ok", "invalid"}, effect'[d] = effect[d],
           answer[d] # "none" \/ effect[d] # "none" => token'[d] = token[d],
           ask[d].kind = "exchange" /\ answer[d] = "invalid" =>
               auth'[ask[d].of] = auth[ask[d].of] \/ auth'[ask[d].of] = "gone",
           \A g \in Grants : disk'.gen[g] = disk.gen[g] \/ <<g, disk.gen[g]>> \in given
    PROVE  AnswersAreHonest!(d)'
<1> USE StateAssumption
<1>1. AnswersAreHonest!(d) /\ PlacesOK!(d) BY DEF OAuthInv, AnswersAreHonest, PlacesOK
<1>2. disk \in Disks /\ RecordsOK BY DEF OAuthInv, TypeOK
<1>3. ASSUME answer[d] = "invalid", ask[d].kind \in {"refresh", "revoke", "revokeAccess"}
      PROVE  /\ token'[d] = token[d] /\ token[d][1] \in Grants /\ disk'.owner[token[d][1]] = disk.owner[token[d][1]]
             /\ token[d][1] \notin Usable(disk) => token[d][1] \notin Usable(disk')
  <2>1. pc[d] # "new" BY <1>1, <1>3
  <2>2. token[d] \in Held /\ token[d] \in given BY <1>3, <2>1 DEF OAuthInv, TokensOK, Bearer, Revoking, Held, NoToken
  <2>3. token[d][1] \in Grants /\ disk.status[token[d][1]] # "none" BY <2>2 DEF OAuthInv, TokensOK, Held
  <2> QED BY <1>2, <1>3, <2>3, Stays DEF Onward
<1>4. ASSUME answer[d] = "invalid", ask[d].kind = "exchange" PROVE Spent(ask[d].of)'
  <2>1. pc[d] # "new" /\ ask[d].of \in Codes BY <1>1, <1>4, Asks DEF OAuthInv, ChainKinds
  <2>2. auth[ask[d].of] \in {"code", "gone"} /\ Spent(ask[d].of) BY <1>1, <1>4, <2>1
  <2> QED BY <1>4, <2>1, <2>2, SpentStays
<1>5. ASSUME effect[d] \in {"issued", "rotated"}, Minted(d, effect[d])' \notin given'
      PROVE  disk'.gen[token'[d][1]] = Minted(d, effect[d])'[2]
  <2>1. token'[d] = token[d] /\ token[d] \in Held BY <1>1, <1>5
  <2>2. Minted(d, effect[d])' = Minted(d, effect[d]) /\ Minted(d, effect[d]) \notin given
    BY <1>5, <2>1 DEF Minted
  <2>3. disk.gen[token[d][1]] = Minted(d, effect[d])[2] BY <1>1, <1>5, <2>2
  <2>4. token[d][1] \in Grants /\ Minted(d, effect[d]) = <<token[d][1], Minted(d, effect[d])[2]>>
    BY <2>1 DEF Minted, Held
  <2>5. disk'.gen[token[d][1]] = disk.gen[token[d][1]] BY <2>2, <2>3, <2>4
  <2> QED BY <2>1, <2>2, <2>3, <2>5
<1>6. /\ answer[d] = "ok" /\ ask[d].kind = "refresh" => effect[d] = "rotated"
      /\ answer[d] = "ok" /\ ask[d].kind = "exchange" => effect[d] = "issued"
      /\ answer[d] = "invalid" =>
           /\ ask[d].kind = "refresh" => token[d][1] \notin Usable(disk)
           /\ ask[d].kind \in {"revoke", "revokeAccess"} =>
                token[d][1] \notin Usable(disk) \/ OwnerOf(token[d]) # {ask[d].of}
  BY <1>1
<1> QED BY <1>3, <1>4, <1>5, <1>6 DEF OwnerOf

-----------------------------------------------------------------------------
(* A call is over, and has changed nothing that is durable.                 *)

\* What is so of a call when it comes.
Starts(c) ==
    /\ Listed(c)
    /\ ask[c].kind = "exchange" => auth[ask[c].of] \in {"code", "gone"}

\* What a call that goes with no change may be told.
MayTell(c, say) ==
    LET x == ask[c].of IN
    /\ say \in Says
    /\ say = "ok" =>
         /\ ask[c].kind \notin {"refresh", "exchange"}
         /\ ask[c].kind = "revoke" /\ disk.owner[token'[c][1]] = {x} => token'[c][1] \notin Usable(disk)
         /\ ask[c].kind = "end" => x \notin Active(disk)
         /\ ask[c].kind = "remove" => x \notin Known(disk)
         /\ ask[c].kind = "approve" => auth[x] = "approved"
         /\ ask[c].kind = "deny" => auth[x] = "denied"
    /\ say = "invalid" =>
         /\ ask[c].kind = "refresh" => token'[c][1] \notin Usable(disk)
         /\ ask[c].kind \in Revoking => x \notin Trusted(disk)
         /\ ask[c].kind = "exchange" => Spent(x) \/ auth'[x] = "gone"
    /\ say \in {"accepted", "refused"} => ask[c].kind = "use"
    /\ say = "accepted" => pc[c] = "verifying" /\ token[c] \in Held /\ token[c][1] \in Usable(disk) \ lapsed

\* An authorization is at the end of its time; only whose turn it is notices.
Fades(c) ==
    /\ auth' \in [Codes -> {"none", "pending", "approved", "denied", "expired", "code", "gone"}]
    /\ \A x \in Codes :
         \/ auth'[x] = auth[x]
         \/ Turn(c) /\ auth[x] = "pending" /\ auth'[x] = "expired"
         \/ Turn(c) /\ auth[x] \notin {"none", "pending"} /\ auth'[x] = "gone"

\* The token a call is about is fixed when the call comes, that of an exchange later.
Token(c) ==
    \/ /\ token' = token
       /\ ~(ask[c].kind \in Bearer /\ pc[c] = "new")
    \/ ask[c].kind \in Bearer /\ pc[c] = "new" /\ \E t \in given : token' = [token EXCEPT ![c] = t]
    \/ ask[c].kind = "exchange" /\ pc[c] = "signing" /\ \E t \in Held : token' = [token EXCEPT ![c] = t]

Ends(c, say) ==
    /\ pc[c] # "over" /\ (pc[c] = "new" => Starts(c))
    /\ Answer(c, say) /\ MayTell(c, say)
    /\ job' = IF Writes(c) THEN NoJob ELSE job
    /\ Fades(c) /\ Token(c) /\ LateStays
    /\ UNCHANGED <<disk, signer, effect, given, lapsed, ask>>
    /\ refused' \subseteq Held /\ late' \subseteq Codes /\ faults' \in Nat /\ crashes' \in Nat

\* A call that ends in one of these ways keeps the invariant.
LEMMA EndsKeeps ==
    ASSUME OAuthInv, NEW c \in Calls, NEW say, Ends(c, say)
    PROVE  OAuthInv'
<1> USE StateAssumption DEF Ends
<1>0. /\ pc' = [pc EXCEPT ![c] = "over"] /\ answer' = [answer EXCEPT ![c] = say]
      /\ \A d \in Calls : d # c /\ Turn(d) => Turn(d)' /\ ~Turn(c)
      /\ chain' \in Seq(Calls)
      /\ say \in Says
  BY DEF Answer, Turn, OAuthInv, TypeOK, MayTell
<1>1. AskOK' BY DEF OAuthInv, AskOK
<1>2. TypeOK'
  <2>1. token' \in [Calls -> Held \cup {NoToken}] BY DEF OAuthInv, TypeOK, Token
  <2>2. job' \in {NoJob} \cup [who : {{d} : d \in Calls}, next : Disks,
                             what : {"none", "issued", "rotated", "ended", "decided"},
                             then : {"ok", "invalid", "refused", "auditing", "backed", "second"}]
    BY DEF OAuthInv, TypeOK
  <2> QED BY <1>0, <2>1, <2>2 DEF OAuthInv, TypeOK, Fades, Says, Where
<1>3. RecordsOK'
  <2>1. \A g \in Grants : disk.code[g] \subseteq Codes BY DEF OAuthInv, TypeOK, Disks
  <2>2. \A x \in Codes : auth'[x] \in {"approved", "code"} => auth'[x] = auth[x] BY DEF Fades
  <2>3. \A x \in Codes : auth[x] \in {"code", "gone"} => auth'[x] \in {"code", "gone"} BY DEF Fades
  <2> QED BY <2>1, <2>2, <2>3 DEF OAuthInv, RecordsOK
<1>4. TokensOK'
  <2>1. \A d \in Calls : d # c => token'[d] = token[d] BY DEF Token, OAuthInv, TypeOK
  <2>2. \/ token'[c] = token[c] /\ (ask[c].kind \in Bearer => pc[c] # "new")
        \/ ask[c].kind \in Bearer /\ token'[c] \in given
        \/ ask[c].kind = "exchange"
    BY DEF Token, OAuthInv, TypeOK
  <2>3. given \subseteq Held /\ ask' = ask /\ disk' = disk /\ given' = given BY DEF OAuthInv, TypeOK
  <2> QED BY <1>0, <2>1, <2>2, <2>3 DEF OAuthInv, TokensOK, TypeOK, Bearer, Revoking
<1>5. JobOK'
  <2>1. \A d \in Calls : d # c => (Writes(d)' <=> Writes(d)) BY DEF Writes, Busy, NoJob, OAuthInv, TypeOK
  <2>2. ~Writes(c)' BY DEF Writes, Busy, NoJob
  <2>3. ASSUME NEW d \in Calls, d # c, Writes(d) PROVE NextOK(d, job.next)'
    <3>1. job' = job /\ NextOK(d, job.next) BY <2>3 DEF OAuthInv, JobOK, Writes
    <3>2. \A x \in Codes : auth'[x] = auth[x] \/ Turn(c) BY DEF Fades
    <3>3. pc[d] = "writing" BY <2>3 DEF OAuthInv, JobOK
    <3>4. ask[d].kind \in ChainKinds => Turn(d) BY <3>3 DEF OAuthInv, ChainOK
    <3>5. ask[d].kind \in ChainKinds => ask[d].of \in Codes /\ auth'[ask[d].of] = auth[ask[d].of]
      BY <2>3, <3>2, <3>4, Asks DEF Turn, OAuthInv
    <3>6. token'[d] = token[d] BY <2>3 DEF Token, OAuthInv, TypeOK
    <3> QED BY <3>1, <3>5, <3>6 DEF NextOK, ChainKinds, FirstOf, SecondOf, FirstChanges, After, Owners, OwnerOf, Revoking
  <2>4. \A d \in Calls : pc'[d] = "writing" <=> (d # c /\ pc[d] = "writing") BY <1>0 DEF OAuthInv, TypeOK
  <2>5. \A d \in Calls : d # c /\ Writes(d) => job' = job BY DEF Writes
  <2> QED BY <2>1, <2>2, <2>3, <2>4, <2>5 DEF OAuthInv, JobOK
<1>6. ChainOK'
  <2>1. \A x \in Codes : auth'[x] = auth[x] \/ (Turn(c) /\ auth[x] # "none") BY DEF Fades
  <2>2. ASSUME NEW d \in Calls, d # c, ask[d].kind \in ChainKinds,
               pc[d] \in {"queued", "swept", "auditing", "signing", "writing"}
        PROVE  /\ ask[d].of \in Codes
               /\ auth'[ask[d].of] = auth[ask[d].of] \/ pc[d] = "queued"
               /\ auth[ask[d].of] = "none" => auth'[ask[d].of] = "none"
               /\ pc[d] # "queued" => Turn(d)'
    <3>1. ask[d].of \in Codes BY <2>2, Asks DEF OAuthInv
    <3>2. pc[d] # "queued" => Turn(d) BY <2>2 DEF OAuthInv, ChainOK
    <3> QED BY <1>0, <2>1, <2>2, <3>1, <3>2 DEF Turn
  <2>3. \A d \in Calls : d # c => pc'[d] = pc[d] BY <1>0 DEF OAuthInv, TypeOK
  <2>4. pc'[c] = "over" BY <1>0 DEF OAuthInv, TypeOK
  <2> QED BY <2>2, <2>3, <2>4 DEF OAuthInv, ChainOK, ChainKinds
<1>7. PlacesOK'
  <2>1. \A d \in Calls : d # c => pc'[d] = pc[d] /\ answer'[d] = answer[d] /\ token'[d] = token[d]
    BY <1>0 DEF OAuthInv, TypeOK, Token
  <2>2. pc'[c] = "over" /\ answer'[c] = say BY <1>0 DEF OAuthInv, TypeOK
  <2>3. effect[c] # "none" => token'[c] = token[c]
    BY DEF OAuthInv, TypeOK, PlacesOK, Token, Owners, Bearer, Revoking
  <2>4. say # "none" BY <1>0 DEF Says
  <2>5. say \in {"accepted", "refused"} => ask[c].kind = "use" BY DEF MayTell
  <2>6. \A d \in Calls : ask[d].kind = "exchange" /\ auth[ask[d].of] \in {"code", "gone"} =>
            auth'[ask[d].of] \in {"code", "gone"}
    BY Asks DEF OAuthInv, ChainKinds, Fades
  <2>7. \A d \in Calls : d \in Owners' <=> d \in Owners BY DEF Owners
  <2>8. disk' = disk /\ effect' = effect /\ ask' = ask OBVIOUS
  <2>9. ASSUME NEW d \in Calls PROVE PlacesOK!(d)'
    <3>1. PlacesOK!(d) BY DEF OAuthInv, PlacesOK
    <3>2. CASE d # c BY <2>1, <2>6, <2>7, <2>8, <3>1, <3>2
    <3>3. CASE d = c
      <4>1. pc[c] # "over" /\ (pc[c] = "new" => Starts(c)) OBVIOUS
      <4> QED BY ONLY <2>2, <2>3, <2>4, <2>5, <2>6, <2>7, <2>8, <3>1, <3>3, <4>1 DEF Starts, Listed
    <3> QED BY <3>2, <3>3
  <2> QED BY <2>9 DEF PlacesOK
<1>8. NoDoubleSpend'
  <2>1. \A d \in Calls : effect[d] = "rotated" => token'[d] = token[d]
    BY DEF OAuthInv, TypeOK, PlacesOK, Token
  <2> QED BY <2>1 DEF OAuthInv, NoDoubleSpend
<1>9. /\ answer'[c] = say /\ answer[c] = "none"
      /\ \A d \in Calls : d # c => answer'[d] = answer[d] /\ token'[d] = token[d]
      /\ \A d \in Calls : answer[d] # "none" => answer'[d] = answer[d]
      /\ \A d \in Calls : answer[d] # "none" \/ effect[d] # "none" => token'[d] = token[d]
  BY <1>0 DEF OAuthInv, TypeOK, PlacesOK, Token, Owners, Bearer, Revoking
<1>10. DenyFinal'
  <2>1. ASSUME NEW d \in Calls, ask[d].kind = "deny", answer'[d] = "ok"
        PROVE  ask[d].of \in Codes /\ auth[ask[d].of] \in {"denied", "gone"}
    BY <1>9, <2>1, Asks DEF OAuthInv, DenyFinal, MayTell, ChainKinds
  <2>2. \A x \in Codes : auth[x] \in {"denied", "gone"} => auth'[x] \in {"denied", "gone"} BY DEF Fades
  <2>3. ASSUME NEW x \in Codes, auth'[x] = "gone",
               NEW d \in Calls, ask[d] = [kind |-> "deny", of |-> x], answer'[d] = "ok",
               NEW g \in Grants, x \in disk.code[g]
        PROVE  FALSE
    <3>1. auth[x] = "gone" BY <2>1, <2>3 DEF OAuthInv, RecordsOK
    <3> QED BY <1>9, <2>3, <3>1 DEF OAuthInv, DenyFinal, MayTell
  <2> QED BY <2>1, <2>2, <2>3 DEF DenyFinal
<1>11. RemovedOK' BY <1>9 DEF OAuthInv, RemovedOK, MayTell
<1>12. KeyOK' BY DEF OAuthInv, KeyOK
<1>13. ConsentBacked'
  <2>1. ASSUME NEW x \in Codes, auth'[x] \in {"approved", "code"} \/ \E g \in Grants : x \in disk'.code[g]
        PROVE  /\ \E d \in Calls : ask'[d] = [kind |-> "approve", of |-> x] /\ answer'[d] = "ok"
               /\ ~ \E d \in Calls : ask'[d] = [kind |-> "deny", of |-> x] /\ answer'[d] = "ok"
    <3>1. auth[x] \in {"approved", "code"} \/ \E g \in Grants : x \in disk.code[g] BY <2>1 DEF Fades
    <3>2. ASSUME NEW d \in Calls, ask[d] = [kind |-> "deny", of |-> x], answer'[d] = "ok" PROVE FALSE
      <4>1. answer[d] # "ok" BY <3>1, <3>2 DEF OAuthInv, ConsentBacked
      <4>2. d = c /\ say = "ok" /\ auth[x] = "denied" BY <1>9, <3>2, <4>1 DEF MayTell
      <4> QED BY <3>1, <4>2 DEF OAuthInv, RecordsOK
    <3> QED BY <1>9, <3>1, <3>2 DEF OAuthInv, ConsentBacked
  <2> QED BY <2>1 DEF ConsentBacked
<1>14. RevokedStaysOut'
  <2>1. say = "ok" =>
          /\ ask[c].kind = "revoke" /\ disk.owner[token'[c][1]] = {ask[c].of} => token'[c][1] \notin Usable(disk)
          /\ ask[c].kind = "end" => ask[c].of \notin Usable(disk)
          /\ ask[c].kind = "remove" => \A g \in Usable(disk) : disk.owner[g] # {ask[c].of}
    BY DEF MayTell, Usable, Trusted, Known, Active
  <2>2. disk' = disk /\ effect' = effect /\ ask' = ask /\ RevokedStaysOut BY DEF OAuthInv
  <2>3. ASSUME NEW d \in Calls PROVE RevokedStaysOut!(d)'
    <3>1. RevokedStaysOut!(d) BY <2>2 DEF RevokedStaysOut
    <3>2. CASE d # c BY ONLY <1>9, <2>2, <3>1, <3>2 DEF OwnerOf
    <3>3. CASE d = c BY ONLY <1>9, <2>1, <2>2, <3>1, <3>3 DEF OwnerOf
    <3> QED BY <3>2, <3>3
  <2> QED BY <2>3 DEF RevokedStaysOut
<1>15. AnswersAreHonest'
  <2>1. Onward(disk, disk') BY StandsStill DEF OAuthInv, TypeOK
  <2>2. ASSUME NEW d \in Calls, d # c PROVE AnswersAreHonest!(d)'
    <3>1. ask[d].kind = "exchange" /\ answer[d] = "invalid" =>
              auth'[ask[d].of] = auth[ask[d].of] \/ auth'[ask[d].of] = "gone"
      <4>1. PlacesOK!(d) BY DEF OAuthInv, PlacesOK
      <4>2. ask[d].kind = "exchange" => ask[d].of \in Codes BY Asks DEF OAuthInv, ChainKinds
      <4> QED BY <4>1, <4>2 DEF Fades
    <3>2. answer'[d] = answer[d] /\ (answer[d] # "none" \/ effect[d] # "none" => token'[d] = token[d])
      BY <1>9, <2>2
    <3> QED BY <2>1, <3>1, <3>2, HonestStays
  <2>3. AnswersAreHonest!(c)'
    <3>1. effect[c] \notin {"issued", "rotated"} BY DEF OAuthInv, PlacesOK, Owners
    <3>2. answer'[c] = say /\ disk' = disk /\ ask' = ask /\ effect' = effect /\ MayTell(c, say) BY <1>9
    <3>3. ask[c].kind \in Revoking /\ ask[c].of \notin Trusted(disk) =>
            token'[c][1] \notin Usable(disk) \/ disk.owner[token'[c][1]] # {ask[c].of}
      BY DEF Usable
    <3>4. say = "invalid" /\ ask[c].kind = "exchange" => Spent(ask[c].of)'
      <4>1. SUFFICES ASSUME say = "invalid", ask[c].kind = "exchange" PROVE Spent(ask[c].of)'
        OBVIOUS
      <4>2. ask[c].of \in Codes BY <4>1, Asks DEF OAuthInv, ChainKinds
      <4>3. auth[ask[c].of] \in {"code", "gone"} BY <4>1 DEF Starts, OAuthInv, PlacesOK
      <4>4. auth'[ask[c].of] = auth[ask[c].of] \/ auth'[ask[c].of] = "gone" BY <4>2, <4>3 DEF Fades
      <4>5. CASE auth'[ask[c].of] = "gone" BY <4>5 DEF Spent
      <4>6. CASE Spent(ask[c].of)
        <5>1. Spent(ask[c].of)' BY <2>1, <4>2, <4>3, <4>4, <4>6, SpentStays
        <5> QED BY <5>1
      <4> QED BY <3>2, <4>1, <4>5, <4>6 DEF MayTell
    <3> QED BY ONLY <3>1, <3>2, <3>3, <3>4 DEF MayTell, OwnerOf, Revoking
  <2> QED BY <2>2, <2>3 DEF AnswersAreHonest
<1> QED BY <1>1, <1>2, <1>3, <1>4, <1>5, <1>6, <1>7, <1>8, <1>10, <1>11, <1>12, <1>13, <1>14, <1>15
        DEF OAuthInv

-----------------------------------------------------------------------------
(* A call goes on in memory.                                                *)

\* Whose turn it is does not depend on who comes after.
LEMMA AppendKeepsHead ==
    ASSUME NEW q \in Seq(Calls), q # <<>>, NEW c \in Calls
    PROVE  Append(q, c) # <<>> /\ Head(Append(q, c)) = Head(q)
OBVIOUS

\* What holds where a call goes on.
Fits(c, where) ==
    LET x == ask[c].of IN
    /\ where \in {"queued", "swept", "auditing", "signing", "verifying", "second"}
    /\ where \in {"queued", "swept", "auditing", "signing"} => ask[c].kind \in ChainKinds
    /\ where \in {"swept", "auditing", "signing"} => Turn(c)
    /\ where = "signing" => ask[c].kind = "exchange" /\ auth[x] = "code" /\ auth'[x] = "code"
    /\ where \in {"swept", "auditing"} => ask[c].kind # "exchange"
    /\ where = "auditing" =>
         /\ auth' = auth
         /\ auth[x] = (CASE ask[c].kind = "authorize" -> "none"
                         [] ask[c].kind \in {"approve", "deny"} -> "pending"
                         [] ask[c].kind = "continue" -> "approved")
         /\ ask[c].kind = "approve" => ClientOf[x] \in PastApproval(disk)
    /\ where \in {"queued", "swept"} /\ ask[c].kind = "authorize" => auth[x] = "none"
    /\ where = "verifying" => ask[c].kind \in {"use", "revokeAccess"}
    /\ where = "second" =>
         /\ c \in Owners /\ ask[c].kind \in {"remove", "rotateAll"}
         /\ ask[c].kind = "remove" => x \notin Known(disk)

GoesOn(c, where) ==
    /\ pc[c] \notin {"over", "writing"} /\ (pc[c] = "new" => Starts(c))
    /\ pc' = [pc EXCEPT ![c] = where] /\ Fits(c, where)
    /\ chain' = chain \/ chain' = Append(chain, c)
    /\ Fades(c) /\ Token(c) /\ LateStays
    /\ UNCHANGED <<disk, signer, job, effect, answer, given, lapsed, ask, refused, faults, crashes>>
    /\ late' \subseteq Codes

\* A call that goes on where it fits keeps the invariant.
LEMMA GoesOnKeeps ==
    ASSUME OAuthInv, NEW c \in Calls, NEW where, GoesOn(c, where)
    PROVE  OAuthInv'
<1> USE StateAssumption DEF GoesOn
<1>0. /\ chain' \in Seq(Calls)
      /\ \A d \in Calls : Turn(d) => Turn(d)'
      /\ where \in Where /\ where \notin {"new", "writing", "over"}
  <2>1. chain \in Seq(Calls) BY DEF OAuthInv, TypeOK
  <2>2. \A d \in Calls : Turn(d) => Turn(d)' BY <2>1, AppendKeepsHead DEF Turn
  <2> QED BY SMTT(30), <2>1, <2>2 DEF Fits, Where
<1>1. /\ pc'[c] = where /\ \A d \in Calls : d # c => pc'[d] = pc[d] /\ token'[d] = token[d]
      /\ \A d \in Calls : pc[d] # "new" /\ ~(ask[d].kind = "exchange" /\ pc[d] = "signing") => token'[d] = token[d]
      /\ token[c] \in Held => token'[c] \in Held
      /\ pc' \in [Calls -> Where]
  BY <1>0 DEF OAuthInv, TypeOK, Token
<1>2. AskOK' BY DEF OAuthInv, AskOK
<1>3. TypeOK'
  <2>1. token' \in [Calls -> Held \cup {NoToken}] BY DEF OAuthInv, TypeOK, Token
  <2> QED BY <1>0, <1>1, <2>1 DEF OAuthInv, TypeOK, Fades
<1>4. RecordsOK'
  <2>1. \A g \in Grants : disk.code[g] \subseteq Codes BY DEF OAuthInv, TypeOK, Disks
  <2>2. \A x \in Codes : auth'[x] \in {"approved", "code"} => auth'[x] = auth[x] BY DEF Fades
  <2>3. \A x \in Codes : auth[x] \in {"code", "gone"} => auth'[x] \in {"code", "gone"} BY DEF Fades
  <2> QED BY <2>1, <2>2, <2>3 DEF OAuthInv, RecordsOK
<1>5. TokensOK'
  <2>1. \/ token'[c] = token[c] /\ (ask[c].kind \in Bearer => pc[c] # "new")
        \/ ask[c].kind \in Bearer /\ token'[c] \in given
        \/ ask[c].kind = "exchange"
    BY DEF Token, OAuthInv, TypeOK
  <2>2. given \subseteq Held BY DEF OAuthInv, TypeOK
  <2> QED BY <1>0, <1>1, <2>1, <2>2 DEF OAuthInv, TokensOK, TypeOK, Bearer, Revoking
<1>6. JobOK'
  <2>1. \A d \in Calls : Writes(d)' <=> Writes(d) BY DEF Writes, Busy
  <2>2. ASSUME NEW d \in Calls, Writes(d) PROVE NextOK(d, job.next)'
    <3>1. pc[d] = "writing" /\ d # c /\ NextOK(d, job.next) BY <2>2 DEF OAuthInv, JobOK
    <3>2. ask[d].kind \in ChainKinds => Turn(d) BY <3>1 DEF OAuthInv, ChainOK
    <3>3. ask[d].kind \in ChainKinds => ask[d].of \in Codes /\ auth'[ask[d].of] = auth[ask[d].of]
      BY <3>1, <3>2, Asks DEF Turn, OAuthInv, Fades
    <3> QED BY <1>1, <3>1, <3>3 DEF NextOK, ChainKinds, FirstOf, SecondOf, FirstChanges, After, Owners, OwnerOf, Revoking
  <2> QED BY <1>0, <1>1, <2>1, <2>2 DEF OAuthInv, JobOK
<1>7. ChainOK'
  <2>1. \A x \in Codes : auth'[x] = auth[x] \/ (Turn(c) /\ auth[x] # "none") BY DEF Fades
  <2>2. ASSUME NEW d \in Calls, d # c, ask[d].kind \in ChainKinds,
               pc[d] \in {"queued", "swept", "auditing", "signing", "writing"}
        PROVE  /\ ask[d].of \in Codes
               /\ auth'[ask[d].of] = auth[ask[d].of] \/ pc[d] = "queued"
               /\ auth[ask[d].of] = "none" => auth'[ask[d].of] = "none"
               /\ pc[d] # "queued" => Turn(d)'
    <3>1. ask[d].of \in Codes BY <2>2, Asks DEF OAuthInv
    <3>2. pc[d] # "queued" => Turn(d) BY <2>2 DEF OAuthInv, ChainOK
    <3> QED BY <1>0, <2>1, <2>2, <3>1, <3>2 DEF Turn
  <2>3. ASSUME ask[c].kind \in ChainKinds
        PROVE  ask[c].of \in Codes /\ (auth[ask[c].of] = "none" => auth'[ask[c].of] = "none")
    BY <2>1, <2>3, Asks DEF OAuthInv
  <2> QED BY <1>0, <1>1, <2>2, <2>3 DEF OAuthInv, ChainOK, ChainKinds, Fits
<1>8. PlacesOK'
  <2>1. \A d \in Calls : ask[d].kind = "exchange" /\ auth[ask[d].of] \in {"code", "gone"} =>
            auth'[ask[d].of] \in {"code", "gone"}
    BY Asks DEF OAuthInv, ChainKinds, Fades
  <2>2. \A d \in Calls : d \in Owners' <=> d \in Owners BY DEF Owners
  <2>3. disk' = disk /\ effect' = effect /\ ask' = ask /\ answer' = answer OBVIOUS
  <2>4. effect[c] # "none" => token'[c] = token[c]
    BY DEF OAuthInv, TypeOK, PlacesOK, Token, Owners, Bearer, Revoking
  <2>5. ASSUME NEW d \in Calls PROVE PlacesOK!(d)'
    <3>1. PlacesOK!(d) BY DEF OAuthInv, PlacesOK
    <3>2. CASE d # c BY <1>1, <2>1, <2>2, <2>3, <3>1, <3>2
    <3>3. CASE d = c
      <4>1. pc[c] # "over" /\ (pc[c] = "new" => Starts(c)) /\ Fits(c, where) OBVIOUS
      <4>2. pc'[c] = where BY <1>1
      <4> QED BY ONLY <1>0, <2>1, <2>2, <2>3, <2>4, <3>1, <3>3, <4>1, <4>2 DEF Starts, Listed, Fits
    <3> QED BY <3>2, <3>3
  <2> QED BY <2>5 DEF PlacesOK
<1>9. NoDoubleSpend'
  <2>1. \A d \in Calls : effect[d] = "rotated" => token'[d] = token[d] BY <1>1 DEF OAuthInv, PlacesOK
  <2> QED BY <2>1 DEF OAuthInv, NoDoubleSpend
<1>10. \A d \in Calls : answer[d] # "none" \/ effect[d] # "none" => token'[d] = token[d]
  BY <1>1 DEF OAuthInv, PlacesOK, Owners
<1>11. DenyFinal'
  <2>1. ASSUME NEW d \in Calls, ask[d].kind = "deny", answer[d] = "ok"
        PROVE  ask[d].of \in Codes /\ auth[ask[d].of] \in {"denied", "gone"}
    BY <2>1, Asks DEF OAuthInv, DenyFinal, ChainKinds
  <2>2. \A x \in Codes : auth[x] \in {"denied", "gone"} => auth'[x] \in {"denied", "gone"} BY DEF Fades
  <2>3. ASSUME NEW x \in Codes, NEW d \in Calls, ask[d] = [kind |-> "deny", of |-> x], answer[d] = "ok",
               NEW g \in Grants, x \in disk.code[g]
        PROVE  FALSE
    BY <2>1, <2>3 DEF OAuthInv, RecordsOK, DenyFinal
  <2> QED BY <2>1, <2>2, <2>3 DEF DenyFinal
<1>12. RemovedOK' BY DEF OAuthInv, RemovedOK
<1>13. KeyOK' BY DEF OAuthInv, KeyOK
<1>14. ConsentBacked' BY ZenonT(60) DEF OAuthInv, ConsentBacked, Fades
<1>15. RevokedStaysOut' BY <1>10 DEF OAuthInv, RevokedStaysOut, OwnerOf
<1>16. AnswersAreHonest'
  <2>1. Onward(disk, disk') BY StandsStill DEF OAuthInv, TypeOK
  <2>2. ASSUME NEW d \in Calls PROVE AnswersAreHonest!(d)'
    <3>1. ask[d].kind = "exchange" /\ answer[d] = "invalid" =>
              auth'[ask[d].of] = auth[ask[d].of] \/ auth'[ask[d].of] = "gone"
      <4>1. PlacesOK!(d) BY DEF OAuthInv, PlacesOK
      <4>2. ask[d].kind = "exchange" => ask[d].of \in Codes BY Asks DEF OAuthInv, ChainKinds
      <4> QED BY <4>1, <4>2 DEF Fades
    <3> QED BY <1>10, <2>1, <3>1, HonestStays
  <2> QED BY <2>2 DEF AnswersAreHonest
<1> QED BY <1>2, <1>3, <1>4, <1>5, <1>6, <1>7, <1>8, <1>9, <1>11, <1>12, <1>13, <1>14, <1>15, <1>16
        DEF OAuthInv

-----------------------------------------------------------------------------
(* A call takes the lock, with something to write.                          *)

Locks(c) ==
    /\ pc[c] \notin {"over", "writing"} /\ (pc[c] = "new" => Starts(c))
    /\ ~Busy /\ Writes(c)' /\ job' \in [who : {{d} : d \in Calls}, next : Disks,
                                        what : {"none", "issued", "rotated", "ended", "decided"},
                                        then : {"ok", "invalid", "refused", "auditing", "backed", "second"}]
    /\ Valid(job'.next) /\ NextOK(c, job.next)'
    /\ pc' = [pc EXCEPT ![c] = "writing"]
    /\ ask[c].kind \in ChainKinds => Turn(c)
    /\ Token(c)
    /\ UNCHANGED <<disk, chain, effect, answer, faults, memoryVars, clockVars, worldVars>>

\* A call that takes the lock with a step from what is there keeps the invariant.
LEMMA LocksKeeps ==
    ASSUME OAuthInv, NEW c \in Calls, Locks(c)
    PROVE  OAuthInv'
<1> USE StateAssumption DEF Locks, memoryVars, clockVars, worldVars
<1>1. /\ pc'[c] = "writing" /\ \A d \in Calls : d # c => pc'[d] = pc[d] /\ token'[d] = token[d]
      /\ \A d \in Calls : pc[d] # "new" /\ ~(ask[d].kind = "exchange" /\ pc[d] = "signing") => token'[d] = token[d]
      /\ token[c] \in Held => token'[c] \in Held
      /\ pc' \in [Calls -> Where]
      /\ token' \in [Calls -> Held \cup {NoToken}]
  BY DEF OAuthInv, TypeOK, Token, Where
<1>2. AskOK' BY DEF OAuthInv, AskOK
<1>3. TypeOK' BY <1>1 DEF OAuthInv, TypeOK
<1>4. RecordsOK' BY DEF OAuthInv, RecordsOK
<1>5. TokensOK'
  <2>1. \/ token'[c] = token[c] /\ (ask[c].kind \in Bearer => pc[c] # "new")
        \/ ask[c].kind \in Bearer /\ token'[c] \in given
        \/ ask[c].kind = "exchange"
    BY DEF Token, OAuthInv, TypeOK
  <2>2. given \subseteq Held BY DEF OAuthInv, TypeOK
  <2> QED BY <1>1, <2>1, <2>2 DEF OAuthInv, TokensOK, TypeOK, Bearer, Revoking
<1>6. JobOK'
  <2>1. \A d \in Calls : ~Writes(d) /\ (Writes(d)' <=> d = c) BY DEF Writes, Busy
  <2> QED BY <1>1, <2>1 DEF OAuthInv, JobOK
<1>7. ChainOK'
  <2>1. \A d \in Calls : Turn(d)' <=> Turn(d) BY DEF Turn
  <2>2. ask' = ask /\ auth' = auth /\ disk' = disk /\ (ask[c].kind \in ChainKinds => Turn(c)) OBVIOUS
  <2> HIDE DEF Locks, memoryVars, clockVars, worldVars
  <2>3. ASSUME NEW d \in Calls, d # c PROVE ChainOK!(d)'
    <3>1. ChainOK!(d) BY DEF OAuthInv, ChainOK
    <3> QED BY <1>1, <2>1, <2>2, <2>3, <3>1
  <2>4. ChainOK!(c)' BY <1>1, <2>1, <2>2
  <2> QED BY <2>3, <2>4 DEF ChainOK
<1>8. PlacesOK'
  <2>1. \A d \in Calls : d \in Owners' <=> d \in Owners BY DEF Owners
  <2>2. disk' = disk /\ effect' = effect /\ ask' = ask /\ answer' = answer /\ auth' = auth OBVIOUS
  <2>3. effect[c] # "none" => token'[c] = token[c]
    BY DEF OAuthInv, TypeOK, PlacesOK, Token, Owners, Bearer, Revoking
  <2>4. pc[c] # "over" /\ (pc[c] = "new" => Starts(c)) OBVIOUS
  <2> HIDE DEF Locks, memoryVars, clockVars, worldVars
  <2>5. ASSUME NEW d \in Calls PROVE PlacesOK!(d)'
    <3>1. PlacesOK!(d) BY DEF OAuthInv, PlacesOK
    <3>2. CASE d # c BY <1>1, <2>1, <2>2, <3>1, <3>2
    <3>3. CASE d = c
      BY ONLY <1>1, <2>1, <2>2, <2>3, <2>4, <3>1, <3>3 DEF Starts, Listed
    <3> QED BY <3>2, <3>3
  <2> QED BY <2>5 DEF PlacesOK
<1>9. NoDoubleSpend'
  <2>1. \A d \in Calls : effect[d] = "rotated" => token'[d] = token[d] BY <1>1 DEF OAuthInv, PlacesOK
  <2> QED BY <2>1 DEF OAuthInv, NoDoubleSpend
<1>10. \A d \in Calls : answer[d] # "none" \/ effect[d] # "none" => token'[d] = token[d]
  BY <1>1 DEF OAuthInv, PlacesOK, Owners
<1>11. DenyFinal' BY DEF OAuthInv, DenyFinal
<1>12. RemovedOK' BY DEF OAuthInv, RemovedOK
<1>13. KeyOK' BY DEF OAuthInv, KeyOK
<1>14. ConsentBacked'
  <2>1. ask' = ask /\ auth' = auth /\ disk' = disk /\ answer' = answer OBVIOUS
  <2> HIDE DEF Locks, memoryVars, clockVars, worldVars
  <2>2. ConsentBacked BY DEF OAuthInv
  <2> QED BY <2>1, <2>2 DEF ConsentBacked
<1>15. RevokedStaysOut' BY <1>10 DEF OAuthInv, RevokedStaysOut, OwnerOf
<1>16. AnswersAreHonest'
  <2>1. Onward(disk, disk') BY StandsStill DEF OAuthInv, TypeOK
  <2>2. LateStays /\ auth' = auth /\ disk' = disk /\ given' = given /\ ask' = ask
        /\ effect' = effect /\ answer' = answer
    BY DEF LateStays
  <2> HIDE DEF Locks, memoryVars, clockVars, worldVars
  <2>3. \A d \in Calls : AnswersAreHonest!(d)' BY <1>10, <2>1, <2>2, HonestStays
  <2> QED BY <2>3 DEF AnswersAreHonest
<1> QED BY <1>2, <1>3, <1>4, <1>5, <1>6, <1>7, <1>8, <1>9, <1>11, <1>12, <1>13, <1>14, <1>15, <1>16
        DEF OAuthInv

-----------------------------------------------------------------------------
(* A change is written: the records.  It is so for the one who writes it    *)
(* and for a restart that finds it there.                                   *)

\* The new state is there, and with it what its call has done; the code it redeemed
\* may be gone already.
Lands(c) ==
    /\ Writes(c) /\ disk' = job.next /\ job' = NoJob /\ ask' = ask /\ token' = token
    /\ effect' = [effect EXCEPT ![c] = IF job.what = "none" THEN @ ELSE job.what]

\* What is written is where the invariant says the change leads.
LEMMA LandsWell ==
    ASSUME OAuthInv, NEW c \in Calls, Lands(c)
    PROVE  /\ Onward(disk, disk') /\ Comes(c, disk, disk', job.what) /\ NextOK(c, disk')
           /\ Valid(disk') /\ disk' \in Disks /\ pc[c] = "writing"
           /\ \A g \in Usable(disk') : disk.status[g] # "none" => g \in Usable(disk)
           /\ PastApproval(disk) \subseteq PastApproval(disk')
           /\ \A e \in Clients : disk.client[e] # "none" =>
                disk'.client[e] # "none" /\ (e \notin Known(disk) => e \notin Known(disk'))
           /\ effect' \in [Calls -> {"none", "issued", "rotated", "ended", "decided"}]
           /\ \A d \in Calls : d # c => effect'[d] = effect[d]
           /\ effect'[c] = IF job.what = "none" THEN effect[c] ELSE job.what
<1> USE StateAssumption DEF Lands
<1>1. /\ Onward(disk, disk') /\ Comes(c, disk, disk', job.what) BY Reaches DEF OAuthInv
<1>2. NextOK(c, disk') /\ Valid(disk') /\ pc[c] = "writing" BY DEF OAuthInv, JobOK
<1>3. disk' \in Disks BY <1>1 DEF Onward
<1>4. /\ \A g \in Usable(disk') : disk.status[g] # "none" => g \in Usable(disk)
      /\ PastApproval(disk) \subseteq PastApproval(disk')
      /\ \A e \in Clients : disk.client[e] # "none" =>
            disk'.client[e] # "none" /\ (e \notin Known(disk) => e \notin Known(disk'))
  BY <1>1, Stays DEF OAuthInv, TypeOK
<1>5. /\ effect' \in [Calls -> {"none", "issued", "rotated", "ended", "decided"}]
      /\ \A d \in Calls : d # c => effect'[d] = effect[d]
      /\ effect'[c] = IF job.what = "none" THEN effect[c] ELSE job.what
  BY DEF OAuthInv, TypeOK, Writes, Busy, NoJob
<1> QED BY <1>1, <1>2, <1>3, <1>4, <1>5

\* The parts of the invariant that the records and the tokens make up.
LEMMA LandsKeepsRecords ==
    ASSUME OAuthInv, NEW c \in Calls, Lands(c),
           auth' \in [Codes -> {"none", "pending", "approved", "denied", "expired", "code", "gone"}],
           \A x \in Codes : auth'[x] = auth[x] \/ auth'[x] = "gone"
    PROVE  RecordsOK' /\ NoDoubleSpend'
<1>1. /\ Onward(disk, disk') /\ Comes(c, disk, disk', job.what) /\ NextOK(c, disk')
      /\ Valid(disk') /\ disk' \in Disks /\ pc[c] = "writing"
      /\ PastApproval(disk) \subseteq PastApproval(disk')
      /\ \A d \in Calls : d # c => effect'[d] = effect[d]
      /\ effect'[c] = IF job.what = "none" THEN effect[c] ELSE job.what
      /\ disk \in Disks /\ token' = token
  BY ZenonT(60), LandsWell DEF OAuthInv, TypeOK, Lands
<1>2. RecordsOK'
  <2>1. ASSUME NEW g \in Grants PROVE disk'.status[g] # "none" => \E e \in PastApproval(disk') : disk'.owner[g] = {e}
    <3>1. CASE disk.status[g] # "none" BY <1>1, <3>1 DEF OAuthInv, RecordsOK, Onward
    <3>2. CASE disk.status[g] = "none" /\ job.what = "issued" /\ g = token[c][1]
      BY <1>1, <3>2 DEF OAuthInv, RecordsOK, Comes, NextOK
    <3> QED BY <1>1, <3>1, <3>2 DEF Comes
  <2>2. ASSUME NEW g \in Grants PROVE disk'.status[g] = "none" => disk'.code[g] = {} /\ disk'.gen[g] = 0
    <3>1. CASE disk.status[g] # "none" BY <1>1, <3>1 DEF Onward
    <3>2. CASE disk.status[g] = "none"
      <4>1. disk.code[g] = {} /\ disk.gen[g] = 0 BY <3>2 DEF OAuthInv, RecordsOK
      <4>2. ~(job.what = "rotated" /\ g = token[c][1])
        <5>1. job.what = "rotated" => ask[c].kind = "refresh" BY <1>1 DEF NextOK
        <5>2. ask[c].kind = "refresh" => token[c] \in given
          BY <1>1 DEF OAuthInv, TokensOK, Bearer, Held, NoToken
        <5> QED BY <3>2, <5>1, <5>2 DEF OAuthInv, TokensOK
      <4> QED BY <1>1, <4>1, <4>2 DEF Comes
    <3> QED BY <3>1, <3>2
  <2>3. ASSUME NEW g \in Grants, NEW x \in disk'.code[g] PROVE x \in Codes /\ auth[x] \in {"code", "gone"}
    <3>1. CASE x \in disk.code[g] BY <1>1, <3>1 DEF OAuthInv, RecordsOK, Disks
    <3>2. CASE x \notin disk.code[g]
      <4>1. job.what = "issued" /\ g = token[c][1] BY <1>1, <2>3, <3>2 DEF Comes
      <4>2. x = ask[c].of /\ x \in Codes BY <1>1, <2>3, <4>1 DEF Comes
      <4> QED BY <1>1, <4>1, <4>2 DEF NextOK
    <3> QED BY <3>1, <3>2
  <2> QED BY <1>1, <2>1, <2>2, <2>3 DEF OAuthInv, RecordsOK
<1>3. NoDoubleSpend'
  <2>1. ASSUME NEW d \in Calls, effect'[d] = "rotated"
        PROVE  /\ token[d][2] < disk'.gen[token[d][1]]
               /\ d # c => effect[d] = "rotated" /\ token[d][2] < disk.gen[token[d][1]]
               /\ token[d] \in Held
    <3>1. CASE effect[d] = "rotated"
      BY <1>1, <2>1, <3>1 DEF OAuthInv, NoDoubleSpend, PlacesOK, Onward, Held, Disks
    <3>2. CASE effect[d] # "rotated"
      <4>1. d = c /\ job.what = "rotated" BY <1>1, <2>1, <3>2
      <4>2. token[d] \in Held BY <1>1, <4>1 DEF OAuthInv, TokensOK, Bearer, NextOK
      <4> QED BY <1>1, <4>1, <4>2 DEF Comes, Held
    <3> QED BY <3>1, <3>2
  <2>2. ASSUME NEW d \in Calls, d # c, effect[d] = "rotated", effect'[c] = "rotated" PROVE token[d] # token[c]
    <3>1. CASE effect[c] = "rotated" BY <2>2, <3>1 DEF OAuthInv, NoDoubleSpend
    <3>2. CASE effect[c] # "rotated"
      <4>1. token[c][2] = disk.gen[token[c][1]] BY <1>1, <2>2, <3>2 DEF Comes
      <4>2. token[d][2] < disk.gen[token[d][1]] BY <2>2 DEF OAuthInv, NoDoubleSpend
      <4>3. token[d] \in Held BY <2>2 DEF OAuthInv, PlacesOK
      <4> QED BY <1>1, <4>1, <4>2, <4>3 DEF Held, Disks
    <3> QED BY <3>1, <3>2
  <2> QED BY <1>1, <2>1, <2>2 DEF OAuthInv, NoDoubleSpend
<1> QED BY <1>2, <1>3

\* What the one whose change is written may be told.
Tells(c, say) ==
    LET unsigned == job.what = "rotated" /\ disk.key # signer IN
    \/ say = "unavailable"
    \/ say = "refused" /\ ask[c].kind = "use"
    \/ say = job.then /\ say \in Answers /\ ~unsigned

\* What ends a grant was its token, and a revocation its owner's.
LEMMA LandsEnds ==
    ASSUME OAuthInv, NEW c \in Calls, Lands(c), job.what = "ended"
    PROVE  /\ ask[c].kind \in Bearer
           /\ ask[c].kind \in Revoking => OwnerOf(token[c]) = {ask[c].of}
           /\ job.then = "refused" <=> ask[c].kind = "use"
<1>1. NextOK(c, disk') BY LandsWell
<1> QED BY <1>1 DEF NextOK, Bearer, Revoking

\* The parts of the invariant that are about answers.
LEMMA LandsKeepsAnswers ==
    ASSUME OAuthInv, NEW c \in Calls, Lands(c),
           \A x \in Codes : auth'[x] = auth[x] \/ auth'[x] = "gone",
           \A d \in Calls :
               \/ answer'[d] = answer[d]
               \/ answer[d] = "none" /\ (answer'[d] = "lost" \/ (d = c /\ Tells(c, answer'[d]))),
           signer' = signer \/ signer' = disk'.key,
           LateStays, given \subseteq given'
    PROVE  DenyFinal' /\ RemovedOK' /\ KeyOK' /\ ConsentBacked' /\ RevokedStaysOut' /\ AnswersAreHonest'
<1>1. /\ Onward(disk, disk') /\ Comes(c, disk, disk', job.what) /\ NextOK(c, disk')
      /\ pc[c] = "writing" /\ answer[c] = "none"
      /\ \A g \in Usable(disk') : disk.status[g] # "none" => g \in Usable(disk)
      /\ \A e \in Clients : disk.client[e] # "none" =>
            disk'.client[e] # "none" /\ (e \notin Known(disk) => e \notin Known(disk'))
      /\ \A d \in Calls : d # c => effect'[d] = effect[d]
      /\ effect'[c] = IF job.what = "none" THEN effect[c] ELSE job.what
      /\ disk \in Disks /\ disk' \in Disks /\ token' = token /\ ask' = ask
      /\ job.what \in {"none", "issued", "rotated", "ended", "decided"}
  <2>1. /\ disk' \in Disks /\ token' = token /\ ask' = ask /\ disk \in Disks /\ pc[c] = "writing"
    BY LandsWell DEF OAuthInv, Lands, TypeOK
  <2>2. job.what \in {"none", "issued", "rotated", "ended", "decided"}
    BY DEF OAuthInv, TypeOK, Lands, Writes, Busy, NoJob
  <2>3. answer[c] = "none" BY <2>1 DEF OAuthInv, PlacesOK
  <2> QED BY <2>1, <2>2, <2>3, LandsWell
<1>2. ASSUME NEW d \in Calls, answer'[d] \in {"ok", "invalid"}, answer[d] # answer'[d]
      PROVE  d = c /\ answer'[c] = job.then /\ ~(job.what = "rotated" /\ disk.key # signer)
  BY <1>2 DEF Tells
<1>3. \A d \in Calls : answer[d] # "none" => answer'[d] = answer[d] OBVIOUS
<1>4. \A d \in Calls : ask[d].kind = "deny" /\ answer'[d] = "ok" => answer[d] = "ok"
  BY <1>1, <1>2 DEF NextOK, Bearer, Revoking
<1>5. ASSUME NEW x \in Codes, NEW g \in Grants, x \in disk'.code[g]
      PROVE  x \in disk.code[g] \/ auth[x] = "code"
  <2>1. CASE job.what = "issued" /\ g = token[c][1]
    <3>1. disk'.code[g] = {ask[c].of} BY <1>1, <2>1 DEF Comes
    <3>2. auth[ask[c].of] = "code" BY <1>1, <2>1 DEF NextOK
    <3> QED BY ONLY <1>5, <3>1, <3>2
  <2> QED BY <1>1, <1>5, <2>1 DEF Comes
<1>6. DenyFinal'
  <2>1. ASSUME NEW d \in Calls, ask[d].kind = "deny", answer'[d] = "ok"
        PROVE  ask[d].of \in Codes /\ auth[ask[d].of] \in {"denied", "gone"}
    BY <1>4, <2>1, Asks DEF OAuthInv, DenyFinal, ChainKinds
  <2>2. ASSUME NEW x \in Codes, NEW d \in Calls, ask[d] = [kind |-> "deny", of |-> x], answer'[d] = "ok",
               NEW g \in Grants, x \in disk'.code[g]
        PROVE  FALSE
    <3>1. auth[x] \in {"denied", "gone"} /\ answer[d] = "ok" BY <1>4, <2>1, <2>2
    <3>2. x \in disk.code[g] BY <1>5, <2>2, <3>1
    <3> QED BY <2>2, <3>1, <3>2 DEF OAuthInv, RecordsOK, DenyFinal
  <2> QED BY <1>1, <2>1, <2>2 DEF DenyFinal
<1>7. RemovedOK'
  <2>1. ASSUME NEW d \in Calls, ask[d].kind = "remove", answer'[d] = "ok"
        PROVE  ask[d].of \notin Known(disk')
    <3>1. ask[d].of \in Clients BY <2>1, Asks DEF OAuthInv
    <3>2. CASE answer[d] = "ok"
      BY <1>1, <2>1, <3>1, <3>2 DEF OAuthInv, RemovedOK, PlacesOK
    <3>3. CASE answer[d] # "ok"
      <4>1. d = c /\ job.then = "ok" BY <1>2, <2>1, <3>3
      <4>2. ask[c].of \notin Known(disk) /\ disk.client[ask[c].of] # "none"
        BY <1>1, <2>1, <4>1 DEF NextOK, After, PlacesOK, OAuthInv, Bearer, Revoking
      <4> QED BY <1>1, <3>1, <4>1, <4>2
    <3> QED BY <3>2, <3>3
  <2> QED BY <1>1, <2>1 DEF RemovedOK
<1>8. KeyOK'
  <2>1. CASE disk'.key # disk.key BY <1>1, <2>1 DEF Comes, KeyOK
  <2>2. CASE disk'.key = disk.key /\ disk.key # signer
    <3>1. PICK d \in Calls : ask[d].kind \in {"rotate", "rotateAll"} /\ effect[d] = "decided"
      BY <2>2 DEF OAuthInv, KeyOK
    <3>2. effect'[d] = "decided" BY <1>1, <3>1 DEF NextOK, Bearer, Revoking
    <3> QED BY <1>1, <3>1, <3>2 DEF KeyOK
  <2> QED BY <2>1, <2>2 DEF KeyOK
<1>9. ConsentBacked'
  <2>1. ASSUME NEW x \in Codes, auth'[x] \in {"approved", "code"} \/ \E g \in Grants : x \in disk'.code[g]
        PROVE  auth[x] \in {"approved", "code"} \/ \E g \in Grants : x \in disk.code[g]
    BY <1>5, <2>1
  <2>2. ConsentBacked BY DEF OAuthInv
  <2>3. \A x \in Codes, d \in Calls :
            ask[d] = [kind |-> "deny", of |-> x] /\ answer'[d] = "ok" => answer[d] = "ok"
    BY <1>4
  <2>4. ASSUME NEW x \in Codes, auth'[x] \in {"approved", "code"} \/ \E g \in Grants : x \in disk'.code[g]
        PROVE  /\ \E d \in Calls : ask'[d] = [kind |-> "approve", of |-> x] /\ answer'[d] = "ok"
               /\ ~ \E d \in Calls : ask'[d] = [kind |-> "deny", of |-> x] /\ answer'[d] = "ok"
    <3>1. PICK d \in Calls : ask[d] = [kind |-> "approve", of |-> x] /\ answer[d] = "ok"
      BY <2>1, <2>2, <2>4 DEF ConsentBacked
    <3>2. ~ \E u \in Calls : ask[u] = [kind |-> "deny", of |-> x] /\ answer[u] = "ok"
      BY <2>1, <2>2, <2>4 DEF ConsentBacked
    <3> QED BY <1>1, <1>3, <2>3, <3>1, <3>2
  <2> QED BY <2>4 DEF ConsentBacked
<1>10. ASSUME NEW d \in Calls, ask[d].kind \in Bearer, pc[d] # "new"
       PROVE  /\ token[d] \in Held /\ token[d] \in given /\ token[d][1] \in Grants
              /\ disk.status[token[d][1]] # "none"
              /\ OwnerOf(token[d])' = OwnerOf(token[d])
              /\ token[d][1] \notin Usable(disk) => token[d][1] \notin Usable(disk')
  <2>1. token[d] \in Held /\ token[d] \in given BY <1>10 DEF OAuthInv, TokensOK, NoToken, Held
  <2>2. token[d][1] \in Grants /\ disk.status[token[d][1]] # "none" BY <2>1 DEF OAuthInv, TokensOK, Held
  <2>3. OwnerOf(token[d])' = OwnerOf(token[d]) BY <1>1, <2>2 DEF OwnerOf, Onward
  <2> QED BY <1>1, <2>1, <2>2, <2>3
<1>11. RevokedStaysOut'
  <2>1. ASSUME NEW d \in Calls, answer'[d] = "ok", ask[d].kind = "revoke", OwnerOf(token[d])' = {ask[d].of}
        PROVE  token[d][1] \notin Usable(disk')
    <3>1. CASE answer[d] = "ok"
      <4>1. pc[d] # "new" BY <3>1 DEF OAuthInv, PlacesOK
      <4>2. OwnerOf(token[d]) = {ask[d].of} BY <1>10, <2>1, <4>1 DEF Bearer, Revoking
      <4>3. token[d][1] \notin Usable(disk) BY <2>1, <3>1, <4>2 DEF OAuthInv, RevokedStaysOut
      <4> QED BY <1>10, <2>1, <4>1, <4>3 DEF Bearer, Revoking
    <3>2. CASE answer[d] # "ok"
      <4>1. d = c /\ job.then = "ok" BY <1>2, <2>1, <3>2
      <4>2. job.what = "ended" BY <1>1, <2>1, <4>1 DEF NextOK, Owners
      <4> QED BY <1>1, <4>1, <4>2 DEF Comes, Usable, Active
    <3> QED BY <3>1, <3>2
  <2>2. ASSUME NEW d \in Calls, answer'[d] = "ok", ask[d].kind = "end" PROVE ask[d].of \notin Usable(disk')
    <3>1. CASE answer[d] = "ok"
      BY <1>1, <2>2, <3>1 DEF OAuthInv, RevokedStaysOut, PlacesOK
    <3>2. CASE answer[d] # "ok"
      <4>1. d = c /\ job.then = "ok" BY <1>2, <2>2, <3>2
      <4>2. disk' = Ended(disk, {ask[c].of}) /\ ask[c].of \in Grants
        BY <1>1, <2>2, <4>1, Asks DEF NextOK, Bearer, Revoking, FirstOf, OAuthInv
      <4> QED BY <1>1, <4>1, <4>2, EndedIs DEF Usable, Active
    <3> QED BY <3>1, <3>2
  <2>3. ASSUME NEW d \in Calls, answer'[d] = "ok", ask[d].kind = "remove", NEW g \in Usable(disk')
        PROVE  disk'.owner[g] # {ask[d].of}
    BY <1>1, <1>7, <2>3 DEF RemovedOK, Usable, Trusted, Known
  <2>4. ASSUME NEW d \in Calls, effect'[d] = "ended"
        PROVE  /\ token[d][1] \notin Usable(disk')
               /\ ask[d].kind \in Revoking => OwnerOf(token[d])' = {ask[d].of}
    <3>1. CASE effect[d] = "ended"
      <4>1. pc[d] # "new" /\ ask[d].kind \in Bearer BY <3>1 DEF OAuthInv, PlacesOK
      <4>2. /\ token[d][1] \notin Usable(disk)
            /\ ask[d].kind \in Revoking => OwnerOf(token[d]) = {ask[d].of}
        BY <3>1 DEF OAuthInv, RevokedStaysOut, Revoking
      <4> QED BY <1>10, <4>1, <4>2
    <3>2. CASE effect[d] # "ended"
      <4>1. d = c /\ job.what = "ended" BY <1>1, <2>4, <3>2
      <4>2. ask[c].kind \in Bearer /\ (ask[c].kind \in Revoking => OwnerOf(token[c]) = {ask[c].of})
        BY LandsEnds, <4>1
      <4>3. token[c][1] \notin Usable(disk') BY <1>1, <4>1 DEF Comes, Usable, Active
      <4> QED BY <1>1, <1>10, <4>1, <4>2, <4>3
    <3> QED BY <3>1, <3>2
  <2> QED BY <1>1, <2>1, <2>2, <2>3, <2>4 DEF RevokedStaysOut, Revoking
<1>12. AnswersAreHonest'
  <2>1. ASSUME NEW g \in Grants, disk'.gen[g] # disk.gen[g] PROVE <<g, disk.gen[g]>> \in given
    <3>1. job.what = "rotated" /\ g = token[c][1] /\ token[c][2] = disk.gen[g] BY <1>1, <2>1 DEF Comes
    <3>2. ask[c].kind \in Bearer BY <1>1, <3>1 DEF NextOK, Bearer
    <3>3. token[c] \in Held /\ token[c] \in given BY <1>1, <1>10, <3>2
    <3> QED BY <3>1, <3>3 DEF Held
  <2>2. ASSUME NEW d \in Calls, effect'[d] = effect[d], d # c \/ answer'[d] \notin {"ok", "invalid"}
        PROVE  AnswersAreHonest!(d)'
    <3>1. answer'[d] = answer[d] \/ answer'[d] \notin {"ok", "invalid"} BY <1>2, <2>2
    <3>2. ask[d].kind = "exchange" /\ answer[d] = "invalid" =>
              auth'[ask[d].of] = auth[ask[d].of] \/ auth'[ask[d].of] = "gone"
      BY Asks DEF OAuthInv, ChainKinds
    <3>3. Onward(disk, disk') /\ ask' = ask /\ token'[d] = token[d] BY <1>1
    <3> QED BY <2>1, <2>2, <3>1, <3>2, <3>3, HonestStays
  <2>3. effect'[c] \in {"issued", "rotated"} => disk'.gen[token[c][1]] = Minted(c, effect'[c])[2]
    <3>1. effect[c] \notin {"issued", "rotated"}
      BY <1>1 DEF OAuthInv, PlacesOK, Owners
    <3>2. CASE job.what = "issued"
      <4>1. token[c][1] \in Grants /\ disk.status[token[c][1]] = "none" /\ effect'[c] = "issued"
        BY <1>1, <3>2 DEF Comes
      <4>2. disk'.gen[token[c][1]] = disk.gen[token[c][1]] /\ disk.gen[token[c][1]] = 0
        BY <1>1, <3>2, <4>1 DEF Comes, OAuthInv, RecordsOK
      <4>3. token[c][2] = 0 BY <1>1, <3>2 DEF NextOK
      <4> QED BY <4>1, <4>2, <4>3 DEF Minted
    <3>3. CASE job.what = "rotated"
      <4>1. disk'.gen[token[c][1]] = token[c][2] + 1 /\ effect'[c] = "rotated" BY <1>1, <3>3 DEF Comes
      <4> QED BY <4>1 DEF Minted
    <3> QED BY <1>1, <3>1, <3>2, <3>3
  <2>4. ASSUME answer'[c] \in {"ok", "invalid"} PROVE AnswersAreHonest!(c)'
    <3>1. answer'[c] = job.then BY <1>1, <1>2, <2>4
    <3>2. ask[c].kind = "refresh" /\ job.then = "ok" => job.what = "rotated"
      BY <1>1 DEF NextOK, Bearer, Revoking, Owners
    <3>3. ask[c].kind = "exchange" /\ job.then = "ok" => job.what = "issued"
      BY <1>1 DEF NextOK, Bearer, Revoking, Owners
    <3>4. job.then = "invalid" => job.what = "ended" /\ ask[c].kind = "refresh"
      BY <1>1 DEF NextOK, Bearer, Revoking, Owners, After
    <3>5. job.what = "ended" => token[c][1] \notin Usable(disk') BY <1>1 DEF Comes, Usable, Active
    <3> QED BY ONLY <1>1, <2>3, <2>4, <3>1, <3>2, <3>3, <3>4, <3>5 DEF Minted
  <2>5. ASSUME answer'[c] \notin {"ok", "invalid"} PROVE AnswersAreHonest!(c)'
    BY ONLY <1>1, <2>3, <2>5 DEF Minted
  <2> QED BY <1>1, <2>2, <2>4, <2>5 DEF AnswersAreHonest
<1> QED BY <1>6, <1>7, <1>8, <1>9, <1>11, <1>12

\* The call whose change is written is over, or goes on with what follows.
LEMMA WritesKeeps ==
    ASSUME OAuthInv, NEW c \in Calls, Written(c) \/ Unproven(c)
    PROVE  OAuthInv'
<1> DEFINE issuedTo == job.what = "issued" /\ auth' = [auth EXCEPT ![ask[c].of] = "gone"]
<1> USE StateAssumption
<1>1. /\ Lands(c) /\ signer' = signer /\ lapsed' = lapsed /\ late' = late /\ crashes' = crashes
      /\ faults' \in Nat /\ refused' \subseteq refused \cup {token[c]}
      /\ ask[c].kind # "use" => refused' = refused
      /\ auth' = auth \/ issuedTo
  BY DEF Written, Unproven, Failed, Lasts, Lands, clockVars, worldVars, Remember, OAuthInv, TypeOK
<1>2. /\ Onward(disk, disk') /\ Comes(c, disk, disk', job.what) /\ NextOK(c, disk')
      /\ disk' \in Disks /\ disk \in Disks /\ pc[c] = "writing"
      /\ PastApproval(disk) \subseteq PastApproval(disk')
      /\ \A e \in Clients : disk.client[e] # "none" =>
            disk'.client[e] # "none" /\ (e \notin Known(disk) => e \notin Known(disk'))
      /\ effect' \in [Calls -> {"none", "issued", "rotated", "ended", "decided"}]
      /\ \A d \in Calls : d # c => effect'[d] = effect[d]
      /\ effect'[c] = IF job.what = "none" THEN effect[c] ELSE job.what
  BY <1>1, LandsWell DEF OAuthInv, TypeOK
<1>3. /\ job.what \in {"none", "issued", "rotated", "ended", "decided"}
      /\ job.then \in {"ok", "invalid", "refused", "auditing", "backed", "second"}
  BY <1>1 DEF OAuthInv, TypeOK, Lands, Writes, Busy, NoJob
<1>4. /\ ask' = ask /\ token' = token /\ job' = NoJob BY <1>1 DEF Lands
<1>5. \/ \E say \in Says : Answer(c, say) /\ Tells(c, say)
      \/ /\ job.then \in {"auditing", "backed", "second"}
         /\ pc' = [pc EXCEPT ![c] = job.then] /\ answer' = answer /\ chain' = chain
  <2>1. CASE Unproven(c) BY <2>1 DEF Unproven, Failed, Tells, Says
  <2>2. CASE Written(c)
    BY <1>3, <2>2 DEF Written, Tells, Answers, Says
  <2> QED BY <2>1, <2>2
<1>6. given' = given \/ /\ job.what \in {"issued", "rotated"}
                        /\ given' = given \cup {IF job.what = "issued" THEN token[c] ELSE <<token[c][1], token[c][2] + 1>>}
  BY DEF Written, Unproven, Failed, Minted, worldVars
<1>7. /\ pc' \in [Calls -> Where] /\ answer' \in [Calls -> Says \cup {"none"}] /\ chain' \in Seq(Calls)
      /\ pc'[c] \in {"over", "auditing", "backed", "second"} /\ (pc'[c] # "over" => pc'[c] = job.then)
      /\ pc'[c] = "over" <=> answer'[c] # "none"
      /\ \A d \in Calls : d # c => pc'[d] = pc[d] /\ answer'[d] = answer[d] /\ (Turn(d) => Turn(d)')
      /\ pc'[c] # "over" => (Turn(c) <=> Turn(c)')
      /\ answer'[c] # "accepted" /\ (answer'[c] = "refused" => answer'[c] = job.then \/ ask[c].kind = "use")
      /\ answer[c] = "none" /\ (answer'[c] # "none" => Tells(c, answer'[c]))
  <2>1. answer[c] = "none" BY <1>2 DEF OAuthInv, PlacesOK
  <2>2. CASE \E say \in Says : Answer(c, say) /\ Tells(c, say)
    <3>1. PICK say \in Says : Answer(c, say) /\ Tells(c, say) BY <2>2
    <3>2. \A d \in Calls : d # c => (Turn(d) => Turn(d)') BY <3>1 DEF Answer, Turn
    <3>3. chain' \in Seq(Calls) BY <3>1 DEF Answer, Turn, OAuthInv, TypeOK
    <3> QED BY <2>1, <3>1, <3>2, <3>3 DEF Answer, OAuthInv, TypeOK, Says, Where, Tells, Answers
  <2>3. CASE /\ job.then \in {"auditing", "backed", "second"}
             /\ pc' = [pc EXCEPT ![c] = job.then] /\ answer' = answer /\ chain' = chain
    BY <2>1, <2>3 DEF OAuthInv, TypeOK, Where, Turn
  <2> QED BY <1>5, <2>2, <2>3
<1>8. /\ auth' \in [Codes -> {"none", "pending", "approved", "denied", "expired", "code", "gone"}]
      /\ \A x \in Codes : auth'[x] = auth[x] \/ (auth'[x] = "gone" /\ Turn(c) /\ auth[x] = "code")
  <2>1. CASE auth' = auth BY <2>1 DEF OAuthInv, TypeOK
  <2>2. CASE issuedTo
    <3>1. ask[c].kind = "exchange" /\ auth[ask[c].of] = "code" BY <1>2, <2>2 DEF NextOK
    <3>2. Turn(c) BY <1>2, <3>1 DEF OAuthInv, ChainOK, ChainKinds
    <3> QED BY <2>2, <3>1, <3>2 DEF OAuthInv, TypeOK
  <2> QED BY <1>1, <2>1, <2>2
<1>9. AskOK' BY <1>4 DEF OAuthInv, AskOK
<1>10. token[c] \in Held \/ job.what \notin {"issued", "rotated", "ended"}
  <2>1. CASE job.what = "issued"
    BY <1>2, <2>1 DEF NextOK
  <2>2. CASE job.what \in {"rotated", "ended"}
    BY <1>2, <2>2 DEF OAuthInv, TokensOK, NextOK, Bearer
  <2> QED BY <1>3, <2>1, <2>2
<1>11. ask[c].kind \in Bearer => token[c] \in Held BY <1>2 DEF OAuthInv, TokensOK
<1>12. TypeOK'
  <2>1. given' \subseteq Held BY <1>6, <1>10 DEF OAuthInv, TypeOK, Held
  <2>2. refused' \subseteq Held BY <1>1, <1>11 DEF OAuthInv, TypeOK, Bearer
  <2> QED BY <1>1, <1>2, <1>4, <1>7, <1>8, <2>1, <2>2 DEF OAuthInv, TypeOK
<1>13. RecordsOK' /\ NoDoubleSpend' BY <1>1, <1>8, LandsKeepsRecords
<1>14. TokensOK'
  <2>1. ASSUME NEW t \in Held, disk.status[t[1]] # "none", t[2] <= disk.gen[t[1]]
        PROVE  disk'.status[t[1]] # "none" /\ t[2] <= disk'.gen[t[1]]
    BY <1>2, <2>1 DEF Onward, Held, Disks
  <2>2. ASSUME job.what \in {"issued", "rotated"}
        PROVE  LET t == IF job.what = "issued" THEN token[c] ELSE <<token[c][1], token[c][2] + 1>>
               IN  disk'.status[t[1]] # "none" /\ t[2] <= disk'.gen[t[1]]
    <3>1. CASE job.what = "issued"
      <4>1. token[c][1] \in Grants /\ disk'.status[token[c][1]] = "active" BY <1>2, <3>1 DEF Comes
      <4>2. token[c][2] = 0 BY <1>2, <3>1 DEF NextOK
      <4>3. disk'.gen[token[c][1]] \in Nat BY <1>2, <4>1 DEF Disks
      <4> QED BY <3>1, <4>1, <4>2, <4>3
    <3>2. CASE job.what = "rotated"
      <4>1. disk.status[token[c][1]] # "none" BY <1>2, <1>10, <3>2 DEF OAuthInv, TokensOK, NextOK, Bearer, NoToken, Held
      <4> QED BY <1>2, <1>10, <3>2, <4>1 DEF Comes, Onward, Held, Disks
    <3> QED BY <2>2, <3>1, <3>2
  <2>3. \A t \in given' : disk'.status[t[1]] # "none" /\ t[2] <= disk'.gen[t[1]]
    BY <1>6, <2>1, <2>2 DEF OAuthInv, TokensOK, TypeOK
  <2>4. \A d \in Calls : ask[d].kind \in Bearer /\ token[d] # NoToken => token[d] \in given'
    BY <1>6 DEF OAuthInv, TokensOK
  <2>5. \A d \in Calls : pc'[d] # "new" => pc[d] # "new" BY <1>2, <1>7
  <2> QED BY <1>4, <2>3, <2>4, <2>5 DEF OAuthInv, TokensOK
<1>15. JobOK'
  <2>1. \A d \in Calls : ~Writes(d)' BY <1>4 DEF Writes, Busy
  <2>2. \A d \in Calls : d # c => ~Writes(d) BY <1>1 DEF Lands, Writes
  <2> QED BY <1>7, <2>1, <2>2 DEF OAuthInv, JobOK
<1>16. ChainOK'
  <2>1. ASSUME NEW d \in Calls, d # c, ask[d].kind \in ChainKinds,
               pc[d] \in {"queued", "swept", "auditing", "signing", "writing"}
        PROVE  /\ ask[d].of \in Codes
               /\ auth'[ask[d].of] = auth[ask[d].of] \/ pc[d] = "queued"
               /\ auth[ask[d].of] = "none" => auth'[ask[d].of] = "none"
               /\ pc[d] # "queued" => Turn(d)'
    <3>1. ask[d].of \in Codes BY <2>1, Asks DEF OAuthInv
    <3>2. pc[d] # "queued" => Turn(d) BY <2>1 DEF OAuthInv, ChainOK
    <3> QED BY <1>7, <1>8, <2>1, <3>1, <3>2 DEF Turn
  <2>2. ASSUME NEW d \in Calls, d # c PROVE ChainOK!(d)'
    <3>1. ChainOK!(d) BY DEF OAuthInv, ChainOK
    <3>2. pc'[d] = pc[d] /\ ask' = ask BY <1>4, <1>7, <2>2
    <3>3. pc[d] = "auditing" /\ ask[d].kind = "approve" =>
              ClientOf[ask[d].of] \in PastApproval(disk')
      BY <1>2, <3>1
    <3> QED BY <2>1, <2>2, <3>1, <3>2, <3>3 DEF ChainKinds
  <2>3. ASSUME pc'[c] = "auditing" PROVE ChainOK!(c)'
    <3>1. job.then = "auditing" BY <1>7, <2>3
    <3>2. /\ job.what = "none" /\ ask[c].kind = "approve" /\ auth[ask[c].of] = "pending"
          /\ disk' = Approved(disk, ClientOf[ask[c].of])
      <4>1. NextOK(c, disk') BY <1>2
      <4>2. After(c) # "auditing" BY DEF After
      <4>3. ask[c].kind \in Bearer => ask[c].kind \in {"refresh", "revoke", "revokeAccess", "use"}
        BY DEF Bearer, Revoking
      <4>4. CASE job.what = "issued" BY <3>1, <4>1, <4>4 DEF NextOK
      <4>5. CASE job.what = "rotated" BY <3>1, <4>1, <4>5 DEF NextOK
      <4>6. CASE job.what = "ended" BY <3>1, <4>1, <4>3, <4>6 DEF NextOK, Revoking
      <4>7. CASE job.what = "decided" BY <3>1, <4>1, <4>2, <4>7 DEF NextOK
      <4>8. CASE job.what = "none" BY <3>1, <4>1, <4>8 DEF NextOK
      <4> QED BY <1>3, <4>4, <4>5, <4>6, <4>7, <4>8
    <3>3. Turn(c)' BY <1>2, <1>7, <2>3, <3>2 DEF OAuthInv, ChainOK, ChainKinds
    <3>4. ask[c].of \in Codes BY <3>2, Asks DEF OAuthInv, ChainKinds
    <3>5. auth'[ask[c].of] = "pending" BY <1>8, <3>2, <3>4
    <3>6. ClientOf[ask[c].of] \in PastApproval(disk')
      <4>1. ClientOf[ask[c].of] \in Clients /\ disk \in Disks BY <1>2, <3>4
      <4>2. disk'.client[ClientOf[ask[c].of]] = "approved" BY ONLY <3>2, <4>1, ApprovedIs
      <4> QED BY <4>1, <4>2 DEF PastApproval
    <3> QED BY <1>4, <2>3, <3>2, <3>3, <3>4, <3>5, <3>6 DEF ChainKinds
  <2>4. ASSUME pc'[c] # "auditing" PROVE ChainOK!(c)' BY <1>7, <2>4
  <2> QED BY <2>2, <2>3, <2>4 DEF ChainOK
<1>17. PlacesOK'
  <2>1. ASSUME NEW d \in Calls, d # c PROVE PlacesOK!(d)'
    <3>1. PlacesOK!(d) BY DEF OAuthInv, PlacesOK
    <3>2. ask[d].kind = "remove" => ask[d].of \in Clients BY Asks DEF OAuthInv
    <3>3. ask[d].kind = "end" => ask[d].of \in Grants BY Asks DEF OAuthInv
    <3>4. d \in Owners' <=> d \in Owners BY <1>4 DEF Owners
    <3>5. ask[d].kind = "end" /\ disk.status[ask[d].of] # "none" => disk'.status[ask[d].of] # "none"
      BY <1>2, <3>3 DEF Onward
    <3>6. ask[d].kind = "exchange" /\ auth[ask[d].of] \in {"code", "gone"} => auth'[ask[d].of] \in {"code", "gone"}
      BY <1>8, Asks DEF OAuthInv, ChainKinds
    <3> QED BY <1>2, <1>4, <1>7, <2>1, <3>1, <3>2, <3>4, <3>5, <3>6
  <2>2. PlacesOK!(c)'
    <3>1. PlacesOK!(c) BY DEF OAuthInv, PlacesOK
    <3>2. c \in Owners' <=> c \in Owners BY <1>4 DEF Owners
    <3>3. ask[c].kind = "remove" => ask[c].of \in Clients BY Asks DEF OAuthInv
    <3>4. ask[c].kind = "end" => ask[c].of \in Grants BY Asks DEF OAuthInv
    <3>5. ask[c].kind = "end" /\ disk.status[ask[c].of] # "none" => disk'.status[ask[c].of] # "none"
      BY <1>2, <3>4 DEF Onward
    <3>6. job.then \in {"backed", "second"} => c \in Owners /\ ask[c].kind \notin {"approve", "deny"}
      BY <1>2, <1>3 DEF NextOK, Bearer, Revoking
    <3>7. job.then = "second" =>
            /\ ask[c].kind \in {"remove", "rotateAll"}
            /\ ask[c].kind = "remove" => ask[c].of \notin Known(disk')
      <4>1. ASSUME job.then = "second", ask[c].kind = "remove" PROVE disk' = Removed(disk, ask[c].of)
        BY <1>2, <1>3, <4>1 DEF NextOK, Bearer, Revoking, After, FirstOf
      <4>2. job.then = "second" => ask[c].kind \in {"remove", "rotateAll"}
        BY <1>2, <1>3 DEF NextOK, Bearer, Revoking, After
      <4> QED BY <1>2, <3>3, <4>1, <4>2, RemovedIs DEF Known
    <3>8. answer'[c] \in {"accepted", "refused"} => ask[c].kind = "use" BY <1>7, <1>2, <1>3 DEF NextOK, Bearer, Revoking, After
    <3>9. c \notin Owners /\ job.then \in {"auditing", "backed", "second"} => job.what = "none"
      BY <1>2, <1>3 DEF NextOK, Bearer, Revoking
    <3>10. job.what = "rotated" => ask[c].kind = "refresh" BY <1>2 DEF NextOK
    <3>11. /\ job.what = "issued" => ask[c].kind = "exchange" /\ token[c] \in Held /\ token[c][2] = 0
           /\ job.what = "ended" => ask[c].kind \in Bearer
           /\ ask[c].kind = "exchange" => auth'[ask[c].of] \in {"code", "gone"}
      <4>1. ask[c].kind = "exchange" => auth'[ask[c].of] \in {"code", "gone"}
        BY <1>2, <1>8, <3>1, Asks DEF OAuthInv, ChainKinds
      <4> QED BY <1>2, <4>1 DEF NextOK
    <3>12. ask[c].kind = "remove" => disk'.client[ask[c].of] # "none" BY <1>2, <3>1, <3>3
    <3> QED BY <1>2, <1>3, <1>4, <1>7, <1>10, <3>1, <3>2, <3>5, <3>6, <3>7, <3>8, <3>9, <3>10, <3>11, <3>12
  <2> QED BY <2>1, <2>2 DEF PlacesOK
<1>18. DenyFinal' /\ RemovedOK' /\ KeyOK' /\ ConsentBacked' /\ RevokedStaysOut' /\ AnswersAreHonest'
  <2>1. \A d \in Calls :
          \/ answer'[d] = answer[d]
          \/ answer[d] = "none" /\ (answer'[d] = "lost" \/ (d = c /\ Tells(c, answer'[d])))
    BY <1>7
  <2>2. LateStays /\ given \subseteq given' BY <1>1, <1>6 DEF LateStays
  <2> QED BY <1>1, <1>8, <2>1, <2>2, LandsKeepsAnswers
<1> QED BY <1>9, <1>12, <1>13, <1>14, <1>15, <1>16, <1>17, <1>18 DEF OAuthInv

-----------------------------------------------------------------------------
(* What an operation on an authorization decided takes effect.              *)

\* An audited decision meets the authorization as it was when it was taken.
LEMMA AuditedKeeps ==
    ASSUME OAuthInv, NEW c \in Calls, Audited(c)
    PROVE  OAuthInv'
<1> DEFINE x == ask[c].of
<1> USE StateAssumption
<1>1. /\ pc[c] = "auditing" /\ auth' = [auth EXCEPT ![x] = Outcome(ask[c].kind)] /\ Answer(c, "ok")
      /\ disk' = disk /\ signer' = signer /\ job' = job /\ refused' = refused /\ token' = token
      /\ effect' = effect /\ faults' = faults /\ lapsed' = lapsed /\ given' = given /\ ask' = ask
      /\ crashes' = crashes /\ late' = late \ {x}
  BY DEF Audited, worldVars
<1>2. /\ ask[c].kind \in {"authorize", "approve", "deny", "continue"} /\ Turn(c) /\ answer[c] = "none"
      /\ auth[x] = (CASE ask[c].kind = "authorize" -> "none"
                      [] ask[c].kind \in {"approve", "deny"} -> "pending"
                      [] ask[c].kind = "continue" -> "approved")
      /\ ask[c].kind = "approve" => ClientOf[x] \in PastApproval(disk)
  BY <1>1 DEF OAuthInv, ChainOK, ChainKinds, PlacesOK
<1>3. x \in Codes /\ ask[c] = [kind |-> ask[c].kind, of |-> x]
  BY <1>2, Asks DEF OAuthInv, ChainKinds
<1>4. /\ auth' \in [Codes -> {"none", "pending", "approved", "denied", "expired", "code", "gone"}]
      /\ \A y \in Codes : y # x => auth'[y] = auth[y]
      /\ auth'[x] = Outcome(ask[c].kind) /\ auth[x] \in {"none", "pending", "approved"}
      /\ auth'[x] \in {"pending", "approved", "denied", "code"}
  <2>1. Outcome(ask[c].kind) \in {"pending", "approved", "denied", "code"} BY <1>2 DEF Outcome
  <2> QED BY <1>1, <1>2, <1>3, <2>1 DEF OAuthInv, TypeOK
<1>5. /\ chain' \in Seq(Calls) /\ pc' \in [Calls -> Where] /\ answer' \in [Calls -> Says \cup {"none"}]
      /\ pc'[c] = "over" /\ answer'[c] = "ok"
      /\ \A d \in Calls : d # c => pc'[d] = pc[d] /\ answer'[d] = answer[d]
  BY <1>1, <1>2 DEF Answer, Turn, OAuthInv, TypeOK, Where, Says
<1>6. \A d \in Calls : d # c => ~Turn(d) BY <1>2 DEF Turn
<1>7. AskOK' BY <1>1 DEF OAuthInv, AskOK
<1>8. TypeOK' BY <1>1, <1>4, <1>5 DEF OAuthInv, TypeOK
<1>9. RecordsOK'
  <2>1. \A g \in Grants : x \notin disk.code[g] BY <1>4 DEF OAuthInv, RecordsOK
  <2>2. auth'[x] \in {"approved", "code"} => ClientOf[x] \in PastApproval(disk)
    BY <1>2, <1>3, <1>4 DEF OAuthInv, RecordsOK, Outcome
  <2>3. \A g \in Grants : disk.code[g] \subseteq Codes BY DEF OAuthInv, TypeOK, Disks
  <2> QED BY <1>1, <1>4, <2>1, <2>2, <2>3 DEF OAuthInv, RecordsOK
<1>10. TokensOK' BY <1>1, <1>5 DEF OAuthInv, TokensOK
<1>11. JobOK'
  <2>1. \A d \in Calls : Writes(d)' <=> Writes(d) BY <1>1 DEF Writes, Busy
  <2>2. ASSUME NEW d \in Calls, Writes(d) PROVE NextOK(d, job.next)'
    <3>1. pc[d] = "writing" /\ d # c /\ NextOK(d, job.next) BY <1>1, <2>2 DEF OAuthInv, JobOK
    <3>2. ask[d].kind \notin ChainKinds BY <1>6, <3>1 DEF OAuthInv, ChainOK
    <3> QED BY <1>1, <3>1, <3>2 DEF NextOK, ChainKinds, FirstOf, SecondOf, FirstChanges, After, Owners, OwnerOf, Revoking
  <2>3. ~Writes(c) BY <1>1 DEF OAuthInv, JobOK
  <2> QED BY <1>1, <1>5, <2>1, <2>2, <2>3 DEF OAuthInv, JobOK
<1>12. ChainOK'
  <2>1. ASSUME NEW d \in Calls, d # c PROVE ChainOK!(d)'
    <3>1. ChainOK!(d) BY DEF OAuthInv, ChainOK
    <3>2. pc[d] \notin {"swept", "auditing", "signing"} /\ ~(pc[d] = "writing" /\ ask[d].kind \in ChainKinds)
      BY <1>6, <2>1, <3>1
    <3>3. ASSUME ask[d].kind = "authorize", pc[d] = "queued" PROVE auth'[ask[d].of] = "none"
      <4>1. auth[ask[d].of] = "none" /\ ask[d].of \in Codes /\ ask[d] = [kind |-> ask[d].kind, of |-> ask[d].of]
        BY <3>1, <3>3, Asks DEF OAuthInv, ChainKinds
      <4>2. CASE ask[d].of = x
        <5>1. ask[c].kind = "authorize" BY <1>2, <4>1, <4>2
        <5>2. ask[c] = ask[d] BY <1>3, <3>3, <4>1, <4>2, <5>1
        <5> QED BY <2>1, <3>3, <5>2 DEF OAuthInv, AskOK
      <4> QED BY <1>4, <4>1, <4>2
    <3> QED BY <1>1, <1>5, <2>1, <3>1, <3>2, <3>3
  <2>2. ChainOK!(c)' BY <1>5
  <2> QED BY <2>1, <2>2 DEF ChainOK
<1>13. PlacesOK'
  <2>1. ASSUME NEW d \in Calls, d # c PROVE PlacesOK!(d)'
    <3>1. PlacesOK!(d) BY DEF OAuthInv, PlacesOK
    <3>2. d \in Owners' <=> d \in Owners BY <1>1 DEF Owners
    <3>3. ask[d].kind = "exchange" /\ auth[ask[d].of] \in {"code", "gone"} => auth'[ask[d].of] = auth[ask[d].of]
      BY <1>4, Asks DEF OAuthInv, ChainKinds
    <3> QED BY <1>1, <1>5, <2>1, <3>1, <3>2, <3>3
  <2>2. PlacesOK!(c)'
    <3>1. PlacesOK!(c) BY DEF OAuthInv, PlacesOK
    <3> QED BY <1>1, <1>2, <1>5, <3>1
  <2> QED BY <2>1, <2>2 DEF PlacesOK
<1>14. NoDoubleSpend' BY <1>1 DEF OAuthInv, NoDoubleSpend
<1>15. \A d \in Calls : ask[d] = [kind |-> "deny", of |-> x] => answer[d] # "ok"
  BY <1>4 DEF OAuthInv, DenyFinal
<1>16. DenyFinal'
  <2>1. ASSUME NEW d \in Calls, ask[d].kind = "deny", answer'[d] = "ok"
        PROVE  auth'[ask[d].of] \in {"denied", "gone"}
    <3>1. CASE d = c BY <1>2, <1>4, <2>1, <3>1 DEF Outcome
    <3>2. CASE d # c
      <4>1. answer[d] = "ok" /\ ask[d].of \in Codes /\ ask[d] = [kind |-> "deny", of |-> ask[d].of]
        BY <1>5, <2>1, <3>2, Asks DEF OAuthInv, ChainKinds
      <4> QED BY <1>4, <1>15, <2>1, <4>1 DEF OAuthInv, DenyFinal
    <3> QED BY <3>1, <3>2
  <2>2. ASSUME NEW y \in Codes, auth'[y] = "gone",
               NEW d \in Calls, ask[d] = [kind |-> "deny", of |-> y], answer'[d] = "ok"
        PROVE  \A g \in Grants : y \notin disk.code[g]
    <3>1. y # x /\ auth[y] = "gone" BY <1>4, <2>2
    <3>2. answer[d] = "ok" BY <1>3, <1>5, <2>2, <3>1
    <3> QED BY <2>2, <3>1, <3>2 DEF OAuthInv, DenyFinal
  <2> QED BY <1>1, <2>1, <2>2 DEF DenyFinal
<1>17. RemovedOK' BY <1>1, <1>2, <1>5 DEF OAuthInv, RemovedOK
<1>18. KeyOK' BY <1>1 DEF OAuthInv, KeyOK
<1>19. ConsentBacked'
  <2>1. ASSUME NEW y \in Codes, auth'[y] \in {"approved", "code"} \/ \E g \in Grants : y \in disk.code[g]
        PROVE  /\ \E d \in Calls : ask[d] = [kind |-> "approve", of |-> y] /\ answer'[d] = "ok"
               /\ ~ \E d \in Calls : ask[d] = [kind |-> "deny", of |-> y] /\ answer'[d] = "ok"
    <3>1. CASE y # x BY <1>3, <1>4, <1>5, <2>1, <3>1 DEF OAuthInv, ConsentBacked
    <3>2. CASE y = x
      <4>1. \A g \in Grants : x \notin disk.code[g] BY <1>4 DEF OAuthInv, RecordsOK
      <4>2. ask[c].kind \in {"approve", "continue"} BY <1>2, <1>4, <2>1, <3>2, <4>1 DEF Outcome
      <4>3. ~ \E d \in Calls : ask[d] = [kind |-> "deny", of |-> x] /\ answer'[d] = "ok"
        BY <1>5, <1>15, <4>2
      <4>4. \E d \in Calls : ask[d] = [kind |-> "approve", of |-> x] /\ answer'[d] = "ok"
        <5>1. CASE ask[c].kind = "approve" BY <1>3, <1>5, <5>1
        <5>2. CASE ask[c].kind = "continue"
          <6>1. auth[x] = "approved" BY <1>2, <5>2
          <6>2. PICK d \in Calls : ask[d] = [kind |-> "approve", of |-> x] /\ answer[d] = "ok"
            BY <1>3, <6>1 DEF OAuthInv, ConsentBacked
          <6> QED BY <1>2, <1>5, <6>2
        <5> QED BY <4>2, <5>1, <5>2
      <4> QED BY <3>2, <4>3, <4>4
    <3> QED BY <3>1, <3>2
  <2> QED BY <1>1, <2>1 DEF ConsentBacked
<1>20. RevokedStaysOut' BY <1>1, <1>2, <1>5 DEF OAuthInv, RevokedStaysOut, OwnerOf
<1>21. AnswersAreHonest'
  <2>1. Onward(disk, disk') BY <1>1, StandsStill DEF OAuthInv, TypeOK
  <2>2. LateStays BY <1>1, <1>4 DEF LateStays
  <2>3. ASSUME NEW d \in Calls, d # c PROVE AnswersAreHonest!(d)'
    <3>1. ask[d].kind = "exchange" /\ answer[d] = "invalid" => auth'[ask[d].of] = auth[ask[d].of]
      <4>1. PlacesOK!(d) BY DEF OAuthInv, PlacesOK
      <4>2. ask[d].kind = "exchange" => ask[d].of \in Codes BY Asks DEF OAuthInv, ChainKinds
      <4> QED BY <1>4, <4>1, <4>2
    <3> QED BY <1>1, <1>5, <2>1, <2>2, <2>3, <3>1, HonestStays
  <2>4. AnswersAreHonest!(c)'
    <3>1. effect[c] \notin {"issued", "rotated"} BY <1>2 DEF OAuthInv, PlacesOK
    <3> QED BY <1>1, <1>2, <1>5, <3>1
  <2> QED BY <2>3, <2>4 DEF AnswersAreHonest
<1> QED BY <1>7, <1>8, <1>9, <1>10, <1>11, <1>12, <1>13, <1>14, <1>16, <1>17, <1>18, <1>19, <1>20, <1>21
        DEF OAuthInv

-----------------------------------------------------------------------------
(* Time passes, and the server is started again.                            *)

\* Nothing rests on the lifetimes and on the cache of refused tokens.
LEMMA TimeKeeps ==
    ASSUME OAuthInv, lapsed' \subseteq Grants, late' \subseteq Codes, late \subseteq late', refused' \subseteq Held,
           UNCHANGED <<disk, signer, job, auth, chain, pc, token, effect, answer, given, ask, faults, crashes>>
    PROVE  OAuthInv'
<1>1. AskOK' /\ TypeOK' /\ RecordsOK' /\ TokensOK'
  BY ZenonT(60) DEF OAuthInv, AskOK, TypeOK, RecordsOK, TokensOK
<1>2. JobOK'
  <2>1. \A d \in Calls : Writes(d)' <=> Writes(d) BY DEF Writes, Busy
  <2>2. ASSUME NEW d \in Calls, Writes(d) PROVE NextOK(d, job.next)'
    <3>1. NextOK(d, job.next) BY <2>2 DEF OAuthInv, JobOK
    <3> QED BY <3>1 DEF NextOK, FirstOf, SecondOf, FirstChanges, After, Owners, OwnerOf, Revoking
  <2> QED BY <2>1, <2>2 DEF OAuthInv, JobOK
<1>3. ChainOK' BY DEF OAuthInv, ChainOK, Turn
<1>4. PlacesOK' BY DEF OAuthInv, PlacesOK, Owners
<1>5. NoDoubleSpend' /\ DenyFinal' /\ RemovedOK' /\ KeyOK'
  BY DEF OAuthInv, NoDoubleSpend, DenyFinal, RemovedOK, KeyOK
<1>6. ConsentBacked' BY DEF OAuthInv, ConsentBacked
<1>7. RevokedStaysOut' BY DEF OAuthInv, RevokedStaysOut, OwnerOf
<1>8. AnswersAreHonest'
  <2>1. Onward(disk, disk') /\ LateStays BY StandsStill DEF OAuthInv, TypeOK, LateStays
  <2>2. \A d \in Calls : AnswersAreHonest!(d)' BY <2>1, HonestStays
  <2> QED BY <2>2 DEF AnswersAreHonest
<1> QED BY <1>1, <1>2, <1>3, <1>4, <1>5, <1>6, <1>7, <1>8 DEF OAuthInv

\* A restart finds the change that was being written, or not.
LEMMA RestartLands ==
    ASSUME OAuthInv, Restart
    PROVE  (disk' = disk /\ effect' = effect) \/ \E c \in Calls : Lands(c)
<1> USE StateAssumption
<1>1. job' = NoJob /\ token' = token /\ ask' = ask BY DEF Restart
  <1>2. PICK wrote \in BOOLEAN :
          /\ wrote => Busy
          /\ disk' = IF wrote THEN job.next ELSE disk
          /\ effect' = [c \in Calls |-> IF wrote /\ Writes(c) /\ job.what # "none" THEN job.what ELSE effect[c]]
    BY DEF Restart
  <1>3. effect \in [Calls -> {"none", "issued", "rotated", "ended", "decided"}] BY DEF OAuthInv, TypeOK
  <1>4. CASE ~wrote BY <1>2, <1>3, <1>4
  <1>5. CASE wrote
    <2>1. job # NoJob /\ disk' = job.next BY <1>2, <1>5 DEF Busy
    <2>2. PICK c \in Calls : job.who = {c} BY <2>1 DEF OAuthInv, TypeOK
    <2>3. Writes(c) /\ \A d \in Calls : Writes(d) => d = c BY <2>1, <2>2 DEF Writes, Busy
    <2>4. effect' = [effect EXCEPT ![c] = IF job.what = "none" THEN @ ELSE job.what]
      BY <1>2, <1>3, <1>5, <2>3
    <2> QED BY <1>1, <2>1, <2>3, <2>4 DEF Lands
  <1> QED BY <1>4, <1>5

\* What a call has done fits what it is for and its token.
EffectFits(d) ==
    /\ effect[d] = "rotated" => ask[d].kind = "refresh" /\ token[d] \in Held
    /\ effect[d] = "issued" => ask[d].kind = "exchange" /\ token[d] \in Held /\ token[d][2] = 0
    /\ effect[d] = "ended" => ask[d].kind \in Bearer /\ token[d] \in Held

\* A restart loses what was in memory; the change that was being written may be there.
LEMMA RestartKeeps ==
    ASSUME OAuthInv, Restart
    PROVE  OAuthInv'
<1> USE StateAssumption
<1>1. /\ signer' = disk'.key /\ job' = NoJob /\ chain' = <<>> /\ refused' = {} /\ late' = {}
      /\ token' = token /\ faults' = faults /\ lapsed' = lapsed /\ given' = given /\ ask' = ask
      /\ crashes' \in Nat
      /\ auth' = [x \in Codes |-> IF auth[x] = "none" THEN "none" ELSE "gone"]
      /\ pc' = [c \in Calls |-> IF pc[c] = "new" THEN "new" ELSE "over"]
      /\ answer' = [c \in Calls |-> IF pc[c] \in {"new", "over"} THEN answer[c] ELSE "lost"]
  BY DEF Restart, OAuthInv, TypeOK
<1>2. /\ auth' \in [Codes -> {"none", "pending", "approved", "denied", "expired", "code", "gone"}]
      /\ \A x \in Codes : auth'[x] \in {"none", "gone"} /\ (auth'[x] = auth[x] \/ auth'[x] = "gone")
      /\ \A x \in Codes : auth[x] # "none" => auth'[x] = "gone"
  BY <1>1 DEF OAuthInv, TypeOK
<1>3. /\ pc' \in [Calls -> Where] /\ answer' \in [Calls -> Says \cup {"none"}]
      /\ \A d \in Calls : pc'[d] \in {"new", "over"} /\ (pc'[d] = "new" <=> pc[d] = "new")
      /\ \A d \in Calls : answer'[d] = answer[d] \/ (answer[d] = "none" /\ answer'[d] = "lost")
      /\ \A d \in Calls : pc'[d] = "over" <=> answer'[d] # "none"
  BY <1>1 DEF OAuthInv, TypeOK, PlacesOK, Where, Says
<1>4. (disk' = disk /\ effect' = effect) \/ \E c \in Calls : Lands(c) BY RestartLands
<1>5. /\ disk' \in Disks /\ disk \in Disks
      /\ effect' \in [Calls -> {"none", "issued", "rotated", "ended", "decided"}]
      /\ \A g \in Grants : disk.status[g] # "none" => disk'.status[g] # "none"
      /\ \A g \in Grants : disk'.gen[g] \in Nat /\ disk.gen[g] \in Nat /\ disk.gen[g] <= disk'.gen[g]
      /\ \A e \in Clients : disk.client[e] # "none" => disk'.client[e] # "none"
      /\ \A d \in Calls : pc[d] # "writing" => effect'[d] = effect[d]
      /\ \A d \in Calls : EffectFits(d)'
  <2>1. CASE disk' = disk /\ effect' = effect
    BY <1>1, <2>1 DEF OAuthInv, TypeOK, PlacesOK, Disks, EffectFits
  <2>2. ASSUME NEW c \in Calls, Lands(c) PROVE <1>5
    <3>1. /\ Onward(disk, disk') /\ disk' \in Disks /\ disk \in Disks /\ pc[c] = "writing" /\ NextOK(c, disk')
          /\ \A e \in Clients : disk.client[e] # "none" => disk'.client[e] # "none"
          /\ effect' \in [Calls -> {"none", "issued", "rotated", "ended", "decided"}]
          /\ \A d \in Calls : d # c => effect'[d] = effect[d]
          /\ effect'[c] = IF job.what = "none" THEN effect[c] ELSE job.what
      BY <2>2, LandsWell DEF OAuthInv, TypeOK
    <3>2. ASSUME NEW d \in Calls PROVE EffectFits(d)'
      <4>1. CASE d # c \/ job.what = "none"
        <5>1. effect'[d] = effect[d] /\ ask' = ask /\ token' = token BY <1>1, <3>1, <4>1
        <5> QED BY <5>1 DEF OAuthInv, PlacesOK, EffectFits
      <4>2. CASE d = c /\ job.what # "none"
        <5>1. effect'[c] = job.what /\ ask' = ask /\ token' = token BY <1>1, <3>1, <4>2
        <5>2. job.what \in {"rotated", "ended"} => ask[c].kind \in Bearer BY <3>1 DEF NextOK, Bearer
        <5>3. ask[c].kind \in Bearer => token[c] \in Held BY <3>1 DEF OAuthInv, TokensOK
        <5>4. job.what = "rotated" => ask[c].kind = "refresh" BY <3>1 DEF NextOK
        <5>5. job.what = "issued" => ask[c].kind = "exchange" /\ token[c] \in Held /\ token[c][2] = 0
          BY <3>1 DEF NextOK
        <5> QED BY <4>2, <5>1, <5>2, <5>3, <5>4, <5>5 DEF EffectFits
      <4> QED BY <4>1, <4>2
    <3>3. \A g \in Grants : disk'.gen[g] \in Nat /\ disk.gen[g] \in Nat /\ disk.gen[g] <= disk'.gen[g]
      BY <3>1 DEF Onward, Disks
    <3> QED BY <3>1, <3>2, <3>3 DEF Onward
  <2> QED BY <1>4, <2>1, <2>2
<1>6. AskOK' BY <1>1 DEF OAuthInv, AskOK
<1>7. TypeOK'
  BY <1>1, <1>2, <1>3, <1>5 DEF OAuthInv, TypeOK, Disks
<1>8. RecordsOK' /\ NoDoubleSpend'
  <2>1. CASE disk' = disk /\ effect' = effect
    <3>1. \A g \in Grants : disk.code[g] \subseteq Codes BY DEF OAuthInv, TypeOK, Disks
    <3> QED BY <1>1, <1>2, <2>1, <3>1 DEF OAuthInv, RecordsOK, NoDoubleSpend
  <2>2. ASSUME NEW c \in Calls, Lands(c) PROVE RecordsOK' /\ NoDoubleSpend'
    BY <1>2, <2>2, LandsKeepsRecords
  <2> QED BY <1>4, <2>1, <2>2
<1>9. TokensOK'
  <2>1. ASSUME NEW t \in Held, disk.status[t[1]] # "none", t[2] <= disk.gen[t[1]]
        PROVE  disk'.status[t[1]] # "none" /\ t[2] <= disk'.gen[t[1]]
    BY <1>5, <2>1 DEF Held
  <2>2. given \subseteq Held /\ token \in [Calls -> Held \cup {NoToken}] BY DEF OAuthInv, TypeOK
  <2>3. \A d \in Calls : ask[d].kind \in Bearer /\ token[d] # NoToken => token[d] \in given
    BY DEF OAuthInv, TokensOK
  <2> QED BY <1>1, <1>3, <2>1, <2>2, <2>3 DEF OAuthInv, TokensOK
<1>10. JobOK' BY <1>1, <1>3 DEF JobOK, Writes, Busy
<1>11. ChainOK' BY <1>3 DEF ChainOK
<1>12. PlacesOK'
  <2>1. ASSUME NEW d \in Calls PROVE PlacesOK!(d)'
    <3>1. PlacesOK!(d) BY DEF OAuthInv, PlacesOK
    <3>2. ask[d].kind = "remove" => ask[d].of \in Clients BY Asks DEF OAuthInv
    <3>3. ask[d].kind = "end" => ask[d].of \in Grants BY Asks DEF OAuthInv
    <3>4. ask[d].kind = "exchange" /\ auth[ask[d].of] \in {"code", "gone"} => auth'[ask[d].of] = "gone"
      BY <1>2, Asks DEF OAuthInv, ChainKinds
    <3>5. EffectFits(d)' /\ ask' = ask /\ (d \in Owners' <=> d \in Owners) BY <1>1, <1>5 DEF Owners
    <3> QED BY <1>1, <1>3, <1>5, <3>1, <3>2, <3>3, <3>4, <3>5 DEF EffectFits
  <2> QED BY <2>1 DEF PlacesOK
<1>13. DenyFinal' /\ RemovedOK' /\ KeyOK' /\ ConsentBacked' /\ RevokedStaysOut' /\ AnswersAreHonest'
  <2>0. LateStays /\ given \subseteq given' BY <1>1, <1>2 DEF LateStays, OAuthInv, TypeOK
  <2>1. CASE disk' = disk /\ effect' = effect
    <3>1. \A d \in Calls : answer'[d] \notin {"none", "lost"} => answer'[d] = answer[d] BY <1>3
    <3>2. DenyFinal'
      <4>1. ASSUME NEW d \in Calls, ask[d].kind = "deny", answer'[d] = "ok"
            PROVE  ask[d].of \in Codes /\ auth[ask[d].of] \in {"denied", "gone"} /\ answer[d] = "ok"
        BY <3>1, <4>1, Asks DEF OAuthInv, DenyFinal, ChainKinds
      <4>2. ASSUME NEW x \in Codes, NEW d \in Calls, ask[d] = [kind |-> "deny", of |-> x], answer'[d] = "ok",
                   NEW g \in Grants, x \in disk.code[g]
            PROVE  FALSE
        BY <4>1, <4>2 DEF OAuthInv, RecordsOK, DenyFinal
      <4> QED BY <1>1, <1>2, <2>1, <4>1, <4>2 DEF DenyFinal
    <3>3. RemovedOK' BY <1>1, <2>1, <3>1 DEF OAuthInv, RemovedOK
    <3>4. KeyOK' BY <1>1 DEF KeyOK
    <3>5. ConsentBacked'
      <4>1. ASSUME NEW x \in Codes, auth'[x] \in {"approved", "code"} \/ \E g \in Grants : x \in disk'.code[g]
            PROVE  /\ \E d \in Calls : ask[d] = [kind |-> "approve", of |-> x] /\ answer'[d] = "ok"
                   /\ ~ \E d \in Calls : ask[d] = [kind |-> "deny", of |-> x] /\ answer'[d] = "ok"
        <5>1. \E g \in Grants : x \in disk.code[g] BY <1>2, <2>1, <4>1
        <5>2. PICK d \in Calls : ask[d] = [kind |-> "approve", of |-> x] /\ answer[d] = "ok"
          BY <5>1 DEF OAuthInv, ConsentBacked
        <5>3. ~ \E u \in Calls : ask[u] = [kind |-> "deny", of |-> x] /\ answer[u] = "ok"
          BY <5>1 DEF OAuthInv, ConsentBacked
        <5> QED BY <1>3, <5>2, <5>3
      <4> QED BY <1>1, <4>1 DEF ConsentBacked
    <3>6. RevokedStaysOut' BY <1>1, <2>1, <3>1 DEF OAuthInv, RevokedStaysOut, OwnerOf
    <3>7. AnswersAreHonest'
      <4>1. Onward(disk, disk') BY <2>1, StandsStill DEF OAuthInv, TypeOK
      <4>2. ASSUME NEW d \in Calls PROVE AnswersAreHonest!(d)'
        <5>1. ask[d].kind = "exchange" /\ answer[d] = "invalid" =>
                  auth'[ask[d].of] = auth[ask[d].of] \/ auth'[ask[d].of] = "gone"
          BY <1>2, Asks DEF OAuthInv, ChainKinds
        <5>2. answer'[d] = answer[d] \/ answer'[d] \notin {"ok", "invalid"} BY <1>3
        <5> QED BY <1>1, <2>0, <2>1, <4>1, <5>1, <5>2, HonestStays
      <4> QED BY <4>2 DEF AnswersAreHonest
    <3> QED BY <3>2, <3>3, <3>4, <3>5, <3>6, <3>7
  <2>2. ASSUME NEW c \in Calls, Lands(c)
        PROVE  DenyFinal' /\ RemovedOK' /\ KeyOK' /\ ConsentBacked' /\ RevokedStaysOut' /\ AnswersAreHonest'
    <3>1. \A d \in Calls :
            \/ answer'[d] = answer[d]
            \/ answer[d] = "none" /\ (answer'[d] = "lost" \/ (d = c /\ Tells(c, answer'[d])))
      BY <1>3
    <3> QED BY <1>1, <1>2, <2>0, <2>2, <3>1, LandsKeepsAnswers
  <2> QED BY <1>4, <2>1, <2>2
<1> QED BY <1>6, <1>7, <1>8, <1>9, <1>10, <1>11, <1>12, <1>13 DEF OAuthInv

-----------------------------------------------------------------------------
(* The same steps as the authority over the grants sees them.               *)

\* A step of the authority, or none.
Refines == [Authority!Next]_(Authority!vars)

\* What a step keeps and what it comes to.
Steps == OAuthInv' /\ Refines

\* Of a step that writes nothing, the authority sees the token that is presented.
LEMMA QuietSteps ==
    ASSUME OAuthInv, disk' = disk, lapsed' = lapsed,
           \A d \in Calls : answer'[d] = "accepted" <=> answer[d] = "accepted",
           token' = token \/ \E c \in Calls, t \in Held : token' = [token EXCEPT ![c] = t]
    PROVE  Refines
<1>1. \A g \in Grants : Standing(g)' = Standing(g) BY DEF Standing, Usable, Active, Trusted
<1>2. CASE token' = token BY <1>1, <1>2 DEF Refines, Authority!vars
<1>3. ASSUME NEW c \in Calls, NEW t \in Held, token' = [token EXCEPT ![c] = t] PROVE Refines
  <2>1. t # NoToken /\ t[1] \in Grants BY DEF Held, NoToken
  <2>2. token \in [Calls -> Held \cup {NoToken}] BY DEF OAuthInv, TypeOK
  <2>3. Authority!Present(c, t[1])
    BY <1>1, <1>3, <2>1, <2>2 DEF Authority!Present
  <2> QED BY <2>1, <2>3 DEF Refines, Authority!Next
<1> QED BY <1>2, <1>3

\* A call that is over: an access token is accepted while its grant lives, or nothing
\* happens.
LEMMA EndsSteps ==
    ASSUME OAuthInv, NEW c \in Calls, NEW say, Ends(c, say)
    PROVE  Refines
<1>1. /\ disk' = disk /\ lapsed' = lapsed /\ answer' = [answer EXCEPT ![c] = say] /\ answer[c] = "none"
      /\ answer \in [Calls -> Says \cup {"none"}] /\ token \in [Calls -> Held \cup {NoToken}]
      /\ given \subseteq Held
  BY DEF Ends, Answer, OAuthInv, PlacesOK, TypeOK
<1>2. CASE say # "accepted"
  <2>1. token' = token \/ \E d \in Calls, t \in Held : token' = [token EXCEPT ![d] = t]
    BY <1>1 DEF Ends, Token
  <2> QED BY <1>1, <1>2, <2>1, QuietSteps
<1>3. CASE say = "accepted"
  <2>1. token[c] \in Held /\ token[c][1] \in Usable(disk) \ lapsed /\ token' = token
    BY <1>3 DEF Ends, MayTell, Token
  <2>2. \A g \in Grants : Standing(g)' = Standing(g) BY <1>1 DEF Standing, Usable, Active, Trusted
  <2>3. Standing(token[c][1]) = "live" /\ token[c][1] \in Grants /\ token[c] # NoToken
    BY <2>1 DEF Standing, Usable, Active, Held, NoToken
  <2>4. Authority!Accept(c) BY <1>1, <1>3, <2>1, <2>2, <2>3 DEF Authority!Accept, Authority!Live
  <2> QED BY <2>4 DEF Refines, Authority!Next
<1> QED BY <1>2, <1>3

\* A call that goes on.
LEMMA GoesOnSteps ==
    ASSUME OAuthInv, NEW c \in Calls, NEW where, GoesOn(c, where)
    PROVE  Refines
<1>1. given \subseteq Held BY DEF OAuthInv, TypeOK
<1>2. token' = token \/ \E d \in Calls, t \in Held : token' = [token EXCEPT ![d] = t]
  BY <1>1 DEF GoesOn, Token
<1> QED BY <1>2, QuietSteps DEF GoesOn

\* A call that takes the lock.
LEMMA LocksSteps ==
    ASSUME OAuthInv, NEW c \in Calls, Locks(c)
    PROVE  Refines
<1>1. given \subseteq Held BY DEF OAuthInv, TypeOK
<1>2. token' = token \/ \E d \in Calls, t \in Held : token' = [token EXCEPT ![d] = t]
  BY <1>1 DEF Locks, Token
<1> QED BY <1>2, QuietSteps DEF Locks, clockVars

\* A change that is written issues one grant, turns one generation into the next, or
\* ends grants for good.
LEMMA LandsSteps ==
    ASSUME OAuthInv, NEW c \in Calls, Lands(c), lapsed' = lapsed,
           \A d \in Calls : answer'[d] = "accepted" <=> answer[d] = "accepted"
    PROVE  Refines
<1> DEFINE h == token[c][1]
<1>1. /\ Onward(disk, disk') /\ Comes(c, disk, disk', job.what) /\ NextOK(c, disk')
      /\ disk' \in Disks /\ disk \in Disks /\ token' = token
      /\ \A g \in Usable(disk') : disk.status[g] # "none" => g \in Usable(disk)
  BY LandsWell DEF OAuthInv, TypeOK, Lands
<1>2. CASE job.what = "issued"
  <2>1. h \in Grants /\ ask[c].of \in Codes /\ disk.status[h] = "none" /\ disk'.status[h] = "active"
        /\ disk' = Created(disk, h, ask[c].of)
    BY <1>1, <1>2 DEF Comes, NextOK
  <2>2. /\ disk'.client = disk.client /\ disk'.gen = disk.gen
        /\ \A g \in Grants \ {h} : disk'.status[g] = disk.status[g] /\ disk'.owner[g] = disk.owner[g]
    BY <1>1, <2>1, CreatedIs
  <2>3. \A g \in Grants \ {h} : Standing(g)' = Standing(g) BY <2>2 DEF Standing, Usable, Active, Trusted
  <2>4. Standing(h) = "none" /\ Standing(h)' \in {"live", "dead"} BY <1>1, <2>1 DEF Standing
  <2>5. Authority!Issue(h) BY ZenonT(60), <1>1, <2>1, <2>2, <2>3, <2>4 DEF Authority!Issue
  <2> QED BY <2>1, <2>5 DEF Refines, Authority!Next
<1>3. CASE job.what = "rotated"
  <2>1. h \in Grants /\ disk' = Rotated(disk, h) /\ ask[c].kind \in Bearer
    BY <1>1, <1>3 DEF Comes, NextOK, Bearer
  <2>2. disk'.client = disk.client /\ disk'.status = disk.status /\ disk'.owner = disk.owner
    BY <1>1, <2>1, RotatedIs
  <2>3. disk'.gen = [disk.gen EXCEPT ![h] = @ + 1] BY <1>1, <2>1 DEF Rotated, Disks
  <2>4. \A g \in Grants : Standing(g)' = Standing(g) BY <2>2 DEF Standing, Usable, Active, Trusted
  <2>5. disk.status[h] # "none"
    <3>1. pc[c] = "writing" BY LandsWell
    <3> QED BY <2>1, <3>1 DEF OAuthInv, TokensOK, NoToken, Held
  <2>6. Standing(h) # "none" BY <2>5 DEF Standing
  <2>7. Authority!Rotate(h) BY <1>1, <2>1, <2>3, <2>4, <2>6 DEF Authority!Rotate
  <2> QED BY <2>1, <2>7 DEF Refines, Authority!Next
<1>4. CASE job.what \notin {"issued", "rotated"}
  <2>1. /\ \A g \in Grants : disk'.status[g] = "none" <=> disk.status[g] = "none"
        /\ \A g \in Grants : disk'.gen[g] = disk.gen[g]
    BY <1>1, <1>4 DEF Onward, Comes
  <2>2. disk'.gen = disk.gen BY <1>1, <2>1 DEF Disks
  <2>3. Usable(disk') \subseteq Usable(disk) BY <1>1, <2>1 DEF Usable, Active
  <2> DEFINE S == Usable(disk) \ Usable(disk')
  <2>4. \A g \in Grants : Standing(g)' = IF g \in S THEN "dead" ELSE Standing(g)
    BY <2>1, <2>3 DEF Standing, Usable, Active
  <2>5. CASE S = {} BY <1>1, <2>2, <2>4, <2>5 DEF Refines, Authority!vars
  <2>6. CASE S # {}
    <3>1. S \subseteq Authority!Live BY DEF Authority!Live, Standing, Usable, Active
    <3>2. Authority!End(S) BY <1>1, <2>2, <2>4, <2>6, <3>1 DEF Authority!End
    <3> QED BY <3>1, <3>2 DEF Refines, Authority!Next
  <2> QED BY <2>5, <2>6
<1> QED BY <1>2, <1>3, <1>4

\* The rest of what becomes of a call whose change is written, and of a decision that
\* was audited.
LEMMA WritesSteps ==
    ASSUME OAuthInv, NEW c \in Calls, Written(c) \/ Unproven(c)
    PROVE  Steps
<1>1. /\ Lands(c) /\ lapsed' = lapsed /\ pc[c] = "writing" /\ answer[c] = "none"
      /\ answer \in [Calls -> Says \cup {"none"}] /\ job.then # "accepted"
  <2>1. Lands(c) /\ lapsed' = lapsed BY DEF Written, Unproven, Failed, Lasts, Lands, clockVars, worldVars
  <2>2. pc[c] = "writing" BY <2>1, LandsWell
  <2> QED BY <2>1, <2>2 DEF OAuthInv, TypeOK, PlacesOK, Lands, Writes, Busy, NoJob
<1>2. answer' = answer \/ \E say \in {"unavailable", "refused", job.then} : answer' = [answer EXCEPT ![c] = say]
  BY DEF Written, Unproven, Failed, Answer
<1>3. \A d \in Calls : answer'[d] = "accepted" <=> answer[d] = "accepted" BY <1>1, <1>2
<1> QED BY <1>1, <1>3, LandsSteps, WritesKeeps DEF Steps

\* An audited decision changes no grant.
LEMMA AuditedSteps ==
    ASSUME OAuthInv, NEW c \in Calls, Audited(c)
    PROVE  Steps
<1>1. /\ answer \in [Calls -> Says \cup {"none"}] /\ answer' = [answer EXCEPT ![c] = "ok"] /\ answer[c] = "none"
      /\ disk' = disk /\ lapsed' = lapsed /\ token' = token
  BY DEF Audited, Answer, OAuthInv, TypeOK, PlacesOK
<1>2. Refines BY <1>1, QuietSteps
<1> QED BY <1>2, AuditedKeeps DEF Steps

\* A restart issues, rotates or ends what was being written, or nothing.
LEMMA RestartSteps ==
    ASSUME OAuthInv, Restart
    PROVE  Steps
<1>1. /\ token' = token /\ lapsed' = lapsed
      /\ \A d \in Calls : answer'[d] = "accepted" <=> answer[d] = "accepted"
  BY DEF Restart, OAuthInv, TypeOK, PlacesOK
<1>2. disk' = disk \/ \E c \in Calls : Lands(c) BY RestartLands
<1>3. ASSUME disk' = disk PROVE Refines BY <1>1, <1>3, QuietSteps
<1>4. ASSUME NEW c \in Calls, Lands(c) PROVE Refines BY <1>1, <1>4, LandsSteps
<1> QED BY <1>2, <1>3, <1>4, RestartKeeps DEF Steps

-----------------------------------------------------------------------------
(* Every action is one of these.                                            *)

\* A call that is told something, and nothing else changes.
LEMMA ToldKeeps ==
    ASSUME OAuthInv, NEW c \in Calls, NEW say,
           pc[c] \notin {"over", "writing"}, pc[c] = "new" => Starts(c),
           Told(c, say), MayTell(c, say), Token(c)
    PROVE  Steps
<1>1. ~Writes(c) BY DEF OAuthInv, JobOK
<1>2. Fades(c) /\ LateStays BY DEF Told, memoryVars, clockVars, Fades, LateStays, OAuthInv, TypeOK
<1>3. refused' \subseteq Held /\ late' \subseteq Codes /\ faults' \in Nat /\ crashes' \in Nat
  BY DEF Told, memoryVars, clockVars, worldVars, OAuthInv, TypeOK
<1>4. Ends(c, say)
  BY <1>1, <1>2, <1>3 DEF Ends, Told, memoryVars, clockVars, worldVars
<1> QED BY <1>4, EndsKeeps, EndsSteps DEF Steps

\* A call that goes on in memory, and nothing but its place changes.
LEMMA GoesKeeps ==
    ASSUME OAuthInv, NEW c \in Calls, NEW where,
           pc[c] \notin {"over", "writing"}, pc[c] = "new" => Starts(c),
           Goes(c, where), UNCHANGED memoryVars, Fits(c, where), Token(c)
    PROVE  Steps
<1>1. Fades(c) /\ LateStays /\ late' \subseteq Codes
  BY DEF Goes, memoryVars, clockVars, Fades, LateStays, OAuthInv, TypeOK
<1>2. GoesOn(c, where) BY <1>1 DEF GoesOn, Goes, memoryVars, clockVars, worldVars
<1> QED BY <1>2, GoesOnKeeps, GoesOnSteps DEF Steps

\* A call that takes the lock for a step from what is there.
LEMMA AcquireKeeps ==
    ASSUME OAuthInv, NEW c \in Calls, NEW next \in Disks,
           NEW what \in {"none", "issued", "rotated", "ended", "decided"},
           NEW then \in {"ok", "invalid", "refused", "auditing", "backed", "second"},
           pc[c] \notin {"over", "writing"}, pc[c] = "new" => Starts(c),
           ask[c].kind \in ChainKinds => Turn(c),
           Acquire(c, next, what, then), Token(c), NextOK(c, job.next)'
    PROVE  Steps
<1>1. job' = [who |-> {c}, next |-> next, what |-> what, then |-> then] BY DEF Acquire
<1>2. Writes(c)' /\ job'.next = next BY <1>1 DEF Writes, Busy, NoJob
<1>3. Locks(c) BY <1>1, <1>2 DEF Locks, Acquire
<1> QED BY <1>3, LocksKeeps, LocksSteps DEF Steps

\* The same, unless the call fails.
LEMMA ChangeKeeps ==
    ASSUME OAuthInv, NEW c \in Calls, NEW next \in Disks,
           NEW what \in {"none", "issued", "rotated", "ended", "decided"},
           NEW then \in {"ok", "invalid", "refused", "auditing", "backed", "second"},
           pc[c] \notin {"over", "writing"}, pc[c] = "new" => Starts(c),
           ask[c].kind \in ChainKinds => Turn(c),
           Change(c, next, what, then), Token(c),
           Acquire(c, next, what, then) => NextOK(c, job.next)'
    PROVE  Steps
<1>1. CASE Acquire(c, next, what, then) BY <1>1, AcquireKeeps
<1>2. CASE Told(c, "unavailable")
  <2>1. MayTell(c, "unavailable") BY DEF MayTell, Says, Revoking
  <2> QED BY <1>2, <2>1, ToldKeeps
<1> QED BY <1>1, <1>2 DEF Change

\* The requests and decisions that do not go over the promise chain.
LEMMA DecisionsKeep ==
    ASSUME OAuthInv, NEW c \in Calls, Register(c) \/ Backup(c) \/ First(c) \/ Second(c)
    PROVE  Steps
<1> DEFINE x == ask[c].of
<1> USE StateAssumption
<1>0. disk \in Disks /\ AskOK /\ MayTell(c, "unavailable") BY DEF OAuthInv, TypeOK, MayTell, Says
<1>1. CASE Register(c)
  <2>1. pc[c] = "new" /\ ask[c].kind = "register" /\ disk.client[x] = "none" /\ token' = token /\ x \in Clients
    BY <1>0, <1>1, Asks DEF Register
  <2>2. Token(c) /\ Starts(c) BY <2>1 DEF Token, Starts, Listed, Bearer, Revoking
  <2>3. CASE Told(c, "unavailable") BY <1>0, <2>1, <2>2, <2>3, ToldKeeps
  <2>4. CASE Change(c, Registered(disk, x), "none", "ok")
    <3>1. Registered(disk, x) \in Disks BY <1>0, <2>1, RegisteredIs
    <3>2. Acquire(c, Registered(disk, x), "none", "ok") => NextOK(c, job.next)'
      BY <2>1 DEF Acquire, NextOK, worldVars
    <3> QED BY <2>1, <2>2, <2>4, <3>1, <3>2, ChangeKeeps DEF ChainKinds
  <2> QED BY <1>1, <2>3, <2>4 DEF Register
<1>2. CASE Backup(c)
  <2>1. /\ pc[c] = "new" /\ c \in Owners /\ ask[c].kind \notin {"approve", "deny"} /\ Starts(c) /\ token' = token
        /\ Change(c, disk, "none", "backed")
    BY <1>2 DEF Backup, Starts, Owners
  <2>2. Token(c) /\ ask[c].kind \notin ChainKinds BY <2>1 DEF Token, Owners, Bearer, Revoking, ChainKinds
  <2>3. Acquire(c, disk, "none", "backed") => NextOK(c, job.next)'
    BY <2>1 DEF Acquire, NextOK, worldVars, Owners
  <2> QED BY <1>0, <2>1, <2>2, <2>3, ChangeKeeps
<1>3. ASSUME pc[c] \in {"backed", "second"}, token' = token
      PROVE  /\ Token(c) /\ c \in Owners /\ ask[c].kind \notin ChainKinds /\ pc[c] \notin {"over", "writing", "new"}
             /\ ask[c].kind \in {"end", "endAll", "remove", "prune", "rotate", "rotateAll"}
  <2>1. c \in Owners /\ ask[c].kind \notin {"approve", "deny"} /\ ask[c].kind \in Kinds
    BY <1>0, <1>3, Asks DEF OAuthInv, PlacesOK
  <2> QED BY <1>3, <2>1 DEF Token, Owners, Kinds, ChainKinds
<1>4. CASE First(c)
  <2>1. pc[c] = "backed" /\ token' = token BY <1>4 DEF First
  <2>2. CASE Told(c, "unavailable") BY <1>0, <1>3, <2>1, <2>2, ToldKeeps
  <2>3. CASE FirstChanges(c) /\ Change(c, FirstOf(c), "decided", After(c))
    <3>1. FirstOf(c) \in Disks
      <4>1. ask[c].kind = "remove" => Removed(disk, x) \in Disks BY <1>0, Asks, RemovedIs
      <4>2. Pruned(disk) \in Disks /\ Rekeyed(disk) \in Disks /\ \A S : Ended(disk, S) \in Disks
        BY <1>0, PrunedIs, RekeyedIs, EndedIs
      <4> QED BY <1>3, <2>1, <4>1, <4>2 DEF FirstOf
    <3>2. After(c) \in {"ok", "second"} BY DEF After
    <3>3. Acquire(c, FirstOf(c), "decided", After(c)) => NextOK(c, job.next)'
      <4>1. SUFFICES ASSUME Acquire(c, FirstOf(c), "decided", After(c)) PROVE NextOK(c, job.next)'
        OBVIOUS
      <4>2. /\ disk' = disk /\ ask' = ask /\ job'.what = "decided" /\ job'.then = After(c) /\ job'.next = FirstOf(c)
        BY <4>1 DEF Acquire, worldVars
      <4>3. FirstOf(c)' = FirstOf(c) /\ FirstChanges(c)' /\ After(c)' = After(c) /\ c \in Owners'
        BY <1>3, <2>1, <2>3, <4>2 DEF FirstOf, FirstChanges, After, Owners
      <4> HIDE DEF x
      <4> QED BY <1>3, <2>1, <4>2, <4>3 DEF NextOK
    <3> QED BY <1>3, <2>1, <2>3, <3>1, <3>2, <3>3, ChangeKeeps
  <2>4. CASE ~FirstChanges(c) /\ After(c) = "ok" /\ Told(c, "ok")
    <3>1. MayTell(c, "ok") BY <1>3, <2>1, <2>4 DEF MayTell, Says, After, FirstChanges
    <3> QED BY <1>3, <2>1, <2>4, <3>1, ToldKeeps
  <2>5. CASE ~FirstChanges(c) /\ After(c) = "second" /\ Goes(c, "second") /\ UNCHANGED memoryVars
    <3>1. Fits(c, "second") BY <1>3, <2>1, <2>5 DEF Fits, After, FirstChanges
    <3> QED BY <1>3, <2>1, <2>5, <3>1, GoesKeeps
  <2> QED BY <1>4, <2>2, <2>3, <2>4, <2>5 DEF First
<1>5. CASE Second(c)
  <2>1. pc[c] = "second" /\ token' = token BY <1>5 DEF Second
  <2>2. ask[c].kind \in {"remove", "rotateAll"} /\ (ask[c].kind = "remove" => x \notin Known(disk))
    BY <2>1 DEF OAuthInv, PlacesOK
  <2>3. CASE Told(c, "unavailable") BY <1>0, <1>3, <2>1, <2>3, ToldKeeps
  <2>4. CASE Change(c, SecondOf(c), "decided", "ok")
    <3>1. SecondOf(c) \in Disks BY <1>0, RekeyedIs, EndedIs DEF SecondOf
    <3>2. Acquire(c, SecondOf(c), "decided", "ok") => NextOK(c, job.next)'
      <4>1. SUFFICES ASSUME Acquire(c, SecondOf(c), "decided", "ok") PROVE NextOK(c, job.next)'
        OBVIOUS
      <4>2. /\ disk' = disk /\ ask' = ask /\ job'.what = "decided" /\ job'.then = "ok" /\ job'.next = SecondOf(c)
        BY <4>1 DEF Acquire, worldVars
      <4>3. SecondOf(c)' = SecondOf(c) /\ c \in Owners'
        BY <1>3, <2>1, <4>2 DEF SecondOf, Owners
      <4> QED BY <1>3, <2>1, <2>2, <4>2, <4>3 DEF NextOK
    <3> QED BY <1>3, <2>1, <2>4, <3>1, <3>2, ChangeKeeps
  <2>5. CASE Told(c, "ok")
    <3>1. MayTell(c, "ok") BY <2>2 DEF MayTell, Says, Revoking
    <3> QED BY <1>3, <2>1, <2>5, <3>1, ToldKeeps
  <2> QED BY <1>5, <2>3, <2>4, <2>5 DEF Second
<1> QED BY <1>1, <1>2, <1>4, <1>5

\* The operations on authorizations.
LEMMA AuthorizationKeeps ==
    ASSUME OAuthInv, NEW c \in Calls, Authorization(c)
    PROVE  Steps
<1> DEFINE x == ask[c].of
<1> USE StateAssumption
<1>0. /\ disk \in Disks /\ AskOK /\ MayTell(c, "unavailable") /\ (c \in Calls /\ ask[c].kind \in ChainKinds => x \in Codes)
      /\ auth \in [Codes -> {"none", "pending", "approved", "denied", "expired", "code", "gone"}]
      /\ late \subseteq Codes /\ faults \in Nat
  BY Asks DEF OAuthInv, TypeOK, MayTell, Says
<1>1. CASE Request(c)
  <2>1. Fits(c, "queued") /\ Token(c) /\ Starts(c) /\ Fades(c) /\ LateStays
    BY <1>0, <1>1
       DEF Request, Enqueue, Fits, Token, Starts, Listed, Fades, LateStays, Bearer, Revoking, ChainKinds,
           memoryVars, clockVars
  <2>2. GoesOn(c, "queued")
    BY <1>0, <1>1, <2>1 DEF Request, Enqueue, GoesOn, memoryVars, clockVars, worldVars
  <2> QED BY <2>2, GoesOnKeeps, GoesOnSteps DEF Steps
<1>2. ASSUME pc[c] \in {"queued", "swept", "auditing"}, Turn(c)
      PROVE  /\ ask[c].kind \in ChainKinds /\ x \in Codes /\ pc[c] \notin {"new", "over", "writing"}
             /\ ~Writes(c)
  BY <1>0, <1>2 DEF OAuthInv, ChainOK, JobOK
<1>3. CASE Sweep(c)
  <2>1. /\ pc[c] = "queued" /\ Turn(c) /\ ask[c].kind # "exchange" /\ token' = token
        /\ auth' = SweptTo(LatePending)
    BY <1>3 DEF Sweep
  <2>2. Fades(c) /\ LateStays BY <1>0, <2>1 DEF Fades, SweptTo, LatePending, LateStays
  <2>3. Fits(c, "swept") /\ Token(c) BY <1>2, <2>1 DEF Fits, Token, OAuthInv, ChainOK
  <2>4. GoesOn(c, "swept") BY <1>2, <1>3, <2>1, <2>2, <2>3 DEF Sweep, GoesOn, worldVars
  <2> QED BY <2>4, GoesOnKeeps, GoesOnSteps DEF Steps
<1>4. CASE SweepFails(c)
  <2>1. pc[c] = "queued" /\ Turn(c) /\ token' = token /\ faults' \in Nat BY <1>0, <1>4 DEF SweepFails
  <2>2. PICK T \in SUBSET LatePending :
          auth' = [y \in Codes |-> IF y \in T THEN "expired" ELSE auth[y]] /\ late' = late \ T
    BY <1>4 DEF SweepFails
  <2>3. Fades(c) /\ LateStays /\ late' \subseteq Codes BY <1>0, <2>1, <2>2 DEF Fades, LatePending, LateStays
  <2>4. Token(c) BY <2>1 DEF Token
  <2>5. Ends(c, "unavailable")
    BY <1>0, <1>2, <1>4, <2>1, <2>3, <2>4 DEF SweepFails, Ends, worldVars, OAuthInv, TypeOK
  <2> QED BY <2>5, EndsKeeps, EndsSteps DEF Steps
<1>5. CASE Decide(c)
  <2>1. /\ pc[c] = "swept" /\ Turn(c) /\ token' = token /\ x \in Codes /\ ~Writes(c)
        /\ ask[c].kind = "authorize" => auth[x] = "none"
    BY <1>2, <1>5 DEF Decide, OAuthInv, ChainOK
  <2>2. Token(c) BY <2>1 DEF Token
  <2>3. ASSUME NEW say, Told(c, say), MayTell(c, say) PROVE Steps
    BY <2>1, <2>2, <2>3, ToldKeeps
  <2>4. ASSUME Goes(c, "auditing"), UNCHANGED memoryVars, ask[c].kind \in {"authorize", "approve", "deny", "continue"},
               auth[x] = (CASE ask[c].kind = "authorize" -> "none"
                            [] ask[c].kind \in {"approve", "deny"} -> "pending"
                            [] ask[c].kind = "continue" -> "approved"),
               ask[c].kind = "approve" => ClientOf[x] \in PastApproval(disk)
        PROVE  Steps
    <3>1. Fits(c, "auditing") BY <2>1, <2>4 DEF Fits, ChainKinds, memoryVars
    <3> QED BY <2>1, <2>2, <2>4, <3>1, GoesKeeps
  <2>5. CASE ask[c].kind = "authorize" /\ Create(c, x)
    <3>1. MayTell(c, "invalid") BY <2>5 DEF MayTell, Says, Revoking
    <3> QED BY <1>0, <2>1, <2>3, <2>4, <2>5, <3>1 DEF Create
  <2>6. CASE ask[c].kind = "approve" /\ Approve(c, x)
    <3>1. MayTell(c, "invalid") /\ (auth[x] = "approved" => MayTell(c, "ok")) BY <2>6 DEF MayTell, Says, Revoking
    <3>2. CASE Told(c, "invalid") \/ Told(c, "unavailable") \/ (auth[x] = "approved" /\ Told(c, "ok"))
      BY <1>0, <2>3, <3>1, <3>2
    <3>3. CASE auth[x] = "pending" /\ ClientOf[x] \in Trusted(disk) /\ Goes(c, "auditing") /\ UNCHANGED memoryVars
      BY <2>4, <2>6, <3>3 DEF Trusted, PastApproval
    <3>4. CASE /\ auth[x] = "pending" /\ ClientOf[x] \in Known(disk)
               /\ Acquire(c, Approved(disk, ClientOf[x]), "none", "auditing")
      <4>1. Approved(disk, ClientOf[x]) \in Disks BY <1>0, <2>1, ApprovedIs
      <4>2. NextOK(c, job.next)'
        BY <2>6, <3>4 DEF Acquire, NextOK, worldVars, memoryVars
      <4> QED BY <2>1, <2>2, <3>4, <4>1, <4>2, AcquireKeeps
    <3> QED BY <2>6, <3>2, <3>3, <3>4 DEF Approve
  <2>7. CASE ask[c].kind = "deny" /\ Deny(c, x)
    <3>1. MayTell(c, "invalid") /\ (auth[x] = "denied" => MayTell(c, "ok")) BY <2>7 DEF MayTell, Says, Revoking
    <3> QED BY <2>3, <2>4, <2>7, <3>1 DEF Deny
  <2>8. CASE ask[c].kind = "continue" /\ Continue(c, x)
    <3>1. MayTell(c, "invalid") /\ MayTell(c, "ok") BY <2>8 DEF MayTell, Says, Revoking
    <3>2. CASE Told(c, "invalid") BY <2>3, <3>1, <3>2
    <3>3. CASE auth[x] = "approved" /\ Goes(c, "auditing") /\ UNCHANGED memoryVars BY <2>4, <2>8, <3>3
    <3>4. CASE /\ auth[x] \in {"denied", "expired"} /\ auth' = [auth EXCEPT ![x] = "gone"] /\ Answer(c, "ok")
               /\ UNCHANGED <<disk, signer, job, refused, effect, faults, clockVars, worldVars>>
      <4>1. Fades(c) /\ LateStays BY <1>0, <2>1, <3>4 DEF Fades, LateStays, clockVars
      <4>2. Ends(c, "ok")
        BY <2>1, <2>2, <3>1, <3>4, <4>1 DEF Ends, clockVars, worldVars, OAuthInv, TypeOK
      <4> QED BY <4>2, EndsKeeps, EndsSteps DEF Steps
    <3> QED BY <2>8, <3>2, <3>3, <3>4 DEF Continue
  <2> QED BY <1>5, <2>5, <2>6, <2>7, <2>8 DEF Decide
<1>6. CASE AuditFails(c)
  <2>1. pc[c] = "auditing" /\ token' = token /\ faults' \in Nat /\ Turn(c)
    BY <1>0, <1>6 DEF AuditFails, OAuthInv, ChainOK
  <2>2. Token(c) /\ Fades(c) /\ LateStays
    BY <1>0, <1>6, <2>1 DEF Token, Fades, LateStays, AuditFails, memoryVars, clockVars
  <2>3. Ends(c, "unavailable")
    BY <1>0, <1>2, <1>6, <2>1, <2>2
       DEF AuditFails, Ends, memoryVars, clockVars, worldVars, OAuthInv, TypeOK
  <2> QED BY <2>3, EndsKeeps, EndsSteps DEF Steps
<1> QED BY <1>1, <1>3, <1>4, <1>5, <1>6, AuditedSteps DEF Authorization

\* What a client does with codes and tokens.
LEMMA TokensKeep ==
    ASSUME OAuthInv, NEW c \in Calls, Tokens(c)
    PROVE  Steps
<1> DEFINE x == ask[c].of
<1> USE StateAssumption
<1>0. /\ disk \in Disks /\ AskOK /\ MayTell(c, "unavailable")
      /\ auth \in [Codes -> {"none", "pending", "approved", "denied", "expired", "code", "gone"}]
      /\ token \in [Calls -> Held \cup {NoToken}] /\ given \subseteq Held
      /\ late \subseteq Codes /\ refused \subseteq Held /\ faults \in Nat
      /\ \A S : Ended(disk, S) \in Disks
      /\ \A g \in Grants : Rotated(disk, g) \in Disks
  BY EndedIs, RotatedIs DEF OAuthInv, TypeOK, MayTell, Says
<1>1. CASE Exchange(c)
  <2>1. pc[c] = "new" /\ ask[c].kind = "exchange" /\ x \in Codes /\ token' = token /\ Starts(c) /\ Token(c)
    BY <1>0, <1>1, Asks DEF Exchange, Enqueue, Starts, Listed, Token, Bearer, Revoking, ChainKinds
  <2>2. CASE Enqueue(c)
    <3>1. Fits(c, "queued") /\ Fades(c) /\ LateStays
      BY <1>0, <2>1, <2>2 DEF Enqueue, Fits, Fades, LateStays, ChainKinds, memoryVars, clockVars
    <3>2. GoesOn(c, "queued")
      BY <1>0, <2>1, <2>2, <3>1 DEF Enqueue, GoesOn, memoryVars, clockVars, worldVars
    <3> QED BY <3>2, GoesOnKeeps, GoesOnSteps DEF Steps
  <2>3. CASE ~ClientServed(ClientOf[x]) /\ Told(c, "invalid")
    <3>1. MayTell(c, "invalid") BY <2>1, <2>3 DEF MayTell, Says, Revoking, Spent, ClientServed
    <3> QED BY <2>1, <2>3, <3>1, ToldKeeps
  <2> QED BY <1>1, <2>2, <2>3 DEF Exchange
<1>2. CASE Redeem(c)
  <2>1. pc[c] = "queued" /\ Turn(c) /\ ask[c].kind = "exchange" /\ token' = token /\ Token(c)
    BY <1>2 DEF Redeem, Token
  <2>2. ASSUME ~(auth[x] = "code" /\ x \notin late) PROVE MayTell(c, "invalid")
    <3>1. auth[x] \in {"code", "gone"} BY <2>1 DEF OAuthInv, PlacesOK
    <3> QED BY <2>1, <2>2, <3>1 DEF MayTell, Says, Revoking, Spent
  <2>3. CASE \/ ~(auth[x] = "code" /\ x \notin late) /\ Told(c, "invalid")
             \/ Told(c, "unavailable")
    BY <1>0, <2>1, <2>2, <2>3, ToldKeeps
  <2>4. CASE auth[x] = "code" /\ Goes(c, "signing") /\ UNCHANGED memoryVars
    <3>1. Fits(c, "signing") BY <2>1, <2>4 DEF Fits, ChainKinds, memoryVars
    <3> QED BY <2>1, <2>4, <3>1, GoesKeeps
  <2> QED BY <1>2, <2>3, <2>4 DEF Redeem
<1>3. CASE CreateGrant(c)
  <2>1. pc[c] = "signing" /\ Turn(c) /\ ask[c].kind = "exchange" /\ auth[x] = "code" /\ x \in Codes
    BY <1>0, <1>3, Asks DEF CreateGrant, OAuthInv, ChainOK, ChainKinds
  <2>2. (\E g \in Grants : x \in disk.code[g]) => MayTell(c, "invalid")
    BY <2>1 DEF MayTell, Says, Revoking, Spent
  <2>3. CASE /\ token' = token
             /\ \/ (\E g \in Grants : x \in disk.code[g]) /\ Told(c, "invalid")
                \/ Told(c, "unavailable")
    <3>1. Token(c) BY <2>1, <2>3 DEF Token
    <3> QED BY <1>0, <2>1, <2>2, <2>3, <3>1, ToldKeeps
  <2>4. ASSUME NEW g \in Unused(disk), \A h \in Grants : x \notin disk.code[h],
               Change(c, Created(disk, g, x), "issued", "ok"),
               token' = [token EXCEPT ![c] = <<g, 0>>]
        PROVE  Steps
    <3>1. g \in Grants /\ <<g, 0>> \in Held /\ token'[c] = <<g, 0>> BY <1>0, <2>4 DEF Unused, Held
    <3>2. Token(c) BY <2>1, <2>4, <3>1 DEF Token
    <3>3. Created(disk, g, x) \in Disks BY <1>0, <2>1, <3>1, CreatedIs
    <3>4. Acquire(c, Created(disk, g, x), "issued", "ok") => NextOK(c, job.next)'
      BY <2>1, <2>4, <3>1 DEF Acquire, NextOK, worldVars, memoryVars
    <3> QED BY <2>1, <2>4, <3>2, <3>3, <3>4, ChangeKeeps
  <2> QED BY <1>3, <2>3, <2>4 DEF CreateGrant
<1>4. ASSUME pc[c] = "new", ask[c].kind \in Bearer, NEW t \in given, token' = [token EXCEPT ![c] = t]
      PROVE  /\ Token(c) /\ Starts(c) /\ token'[c] = t /\ t \in Held /\ t[1] \in Grants
             /\ ask[c].kind \notin ChainKinds /\ t[2] <= disk.gen[t[1]] /\ t[2] \in Nat
             /\ disk.gen[t[1]] \in Nat
  <2>1. Token(c) BY ONLY <1>4 DEF Token
  <2>2. Starts(c) /\ ask[c].kind \notin ChainKinds
    BY ONLY <1>4 DEF Starts, Listed, Bearer, Revoking, ChainKinds
  <2>3. given \subseteq Held /\ token \in [Calls -> Held \cup {NoToken}] BY DEF OAuthInv, TypeOK
  <2>4. t \in Held /\ token'[c] = t BY ONLY <1>4, <2>3, c \in Calls
  <2>5. t[2] <= disk.gen[t[1]] BY <1>4 DEF OAuthInv, TokensOK
  <2>6. t[1] \in Grants /\ t[2] \in Nat BY ONLY <2>4 DEF Held
  <2>7. disk.gen[t[1]] \in Nat BY ONLY <1>0, <2>6 DEF Disks
  <2> QED BY ONLY <2>1, <2>2, <2>4, <2>5, <2>6, <2>7
<1>5. CASE Refresh(c)
  <2>1. pc[c] = "new" /\ ask[c].kind = "refresh" /\ ask[c].kind \in Bearer BY <1>5 DEF Refresh, Bearer
  <2>2. PICK t \in given :
          /\ token' = [token EXCEPT ![c] = t]
          /\ \/ OwnerOf(t) \subseteq Trusted(disk) /\ Rotate(c, t)
             \/ ~(OwnerOf(t) \subseteq Trusted(disk)) /\ Told(c, "invalid")
    BY <1>5 DEF Refresh
  <2>3. CASE Told(c, "unavailable") BY <1>0, <1>4, <2>1, <2>2, <2>3, ToldKeeps
  <2>4. CASE t[1] \notin Usable(disk) /\ Told(c, "invalid")
    <3>1. MayTell(c, "invalid") BY <1>4, <2>1, <2>2, <2>4 DEF MayTell, Says, Revoking
    <3> QED BY <1>4, <2>1, <2>2, <2>4, <3>1, ToldKeeps
  <2>5. CASE Acquire(c, Ended(disk, {t[1]}), "ended", "invalid")
    <3>1. NextOK(c, job.next)' BY <1>4, <2>1, <2>2, <2>5 DEF Acquire, NextOK, Revoking, worldVars
    <3> QED BY <1>0, <1>4, <2>1, <2>2, <2>5, <3>1, AcquireKeeps
  <2>6. CASE ~(t[2] < disk.gen[t[1]]) /\ Acquire(c, Rotated(disk, t[1]), "rotated", "ok")
    <3>1. t[2] = disk.gen[t[1]]
      <4>1. t[2] <= disk.gen[t[1]] /\ t[2] \in Nat /\ disk.gen[t[1]] \in Nat BY <1>4, <2>1, <2>2
      <4> QED BY <2>6, <4>1
    <3>2. NextOK(c, job.next)' BY <1>4, <2>1, <2>2, <2>6, <3>1 DEF Acquire, NextOK, worldVars
    <3> QED BY <1>0, <1>4, <2>1, <2>2, <2>6, <3>2, AcquireKeeps
  <2> QED BY <2>2, <2>3, <2>4, <2>5, <2>6 DEF Rotate, OwnerOf, Usable
<1>55. ASSUME NEW t \in given, token'[c] = t, t \in Held, ask[c].kind \in Revoking,
              pc[c] \notin {"over", "writing"}, pc[c] = "new" => Starts(c), Token(c), RevokeFamily(c, t)
       PROVE  Steps
  <2>1. ask[c].kind \notin ChainKinds /\ ask[c].kind \in Bearer BY <1>55 DEF ChainKinds, Bearer, Revoking
  <2>2. CASE Told(c, "unavailable") BY <1>0, <1>55, <2>2, ToldKeeps
  <2>3. CASE ~(t[1] \in Active(disk) /\ OwnerOf(t) = {x}) /\ Told(c, "ok")
    <3>1. MayTell(c, "ok") BY <1>55, <2>3 DEF MayTell, Says, Revoking, OwnerOf, Usable
    <3> QED BY <1>55, <2>3, <3>1, ToldKeeps
  <2>4. CASE OwnerOf(t) = {x} /\ Acquire(c, Ended(disk, {t[1]}), "ended", "ok")
    <3>1. NextOK(c, job.next)'
      <4>1. /\ disk' = disk /\ ask' = ask /\ job'.what = "ended" /\ job'.then = "ok"
            /\ job'.next = Ended(disk, {t[1]})
        BY <2>4 DEF Acquire, worldVars
      <4>2. OwnerOf(t)' = OwnerOf(t) BY <4>1 DEF OwnerOf
      <4> QED BY <1>55, <2>1, <2>4, <4>1, <4>2 DEF NextOK, Revoking
    <3> QED BY <1>0, <1>55, <2>1, <2>4, <3>1, AcquireKeeps
  <2> QED BY <1>55, <2>2, <2>3, <2>4 DEF RevokeFamily
<1>6. CASE Revoke(c)
  <2>1. pc[c] = "new" /\ ask[c].kind \in Revoking /\ ask[c].kind \in Bearer
    BY <1>6 DEF Revoke, Bearer, Revoking
  <2>2. PICK t \in given :
          /\ token' = [token EXCEPT ![c] = t]
          /\ \/ x \notin Trusted(disk) /\ Told(c, "invalid")
             \/ RevokeFamily(c, t)
             \/ ask[c].kind = "revokeAccess" /\ Goes(c, "verifying") /\ UNCHANGED memoryVars
    BY <1>6 DEF Revoke
  <2>3. /\ Token(c) /\ Starts(c) /\ token'[c] = t /\ t \in Held BY <1>4, <2>1, <2>2
  <2>4. CASE x \notin Trusted(disk) /\ Told(c, "invalid")
    <3>1. MayTell(c, "invalid") BY <2>1, <2>4 DEF MayTell, Says, Revoking
    <3> QED BY <2>1, <2>3, <2>4, <3>1, ToldKeeps
  <2>5. CASE RevokeFamily(c, t) BY <1>55, <2>1, <2>3, <2>5
  <2>6. CASE ask[c].kind = "revokeAccess" /\ Goes(c, "verifying") /\ UNCHANGED memoryVars
    <3>1. Fits(c, "verifying") BY <2>6 DEF Fits
    <3> QED BY <2>1, <2>3, <2>6, <3>1, GoesKeeps
  <2> QED BY <2>2, <2>4, <2>5, <2>6
<1>65. CASE RevokeVerified(c)
  <2>1. /\ pc[c] = "verifying" /\ ask[c].kind = "revokeAccess" /\ token' = token /\ Token(c)
        /\ token[c] \in given /\ token[c] \in Held /\ ask[c].kind \in Revoking
    BY <1>65 DEF RevokeVerified, OAuthInv, TokensOK, Token, Bearer, Revoking, Held, NoToken
  <2>2. CASE Told(c, "ok")
    <3>1. MayTell(c, "ok") BY <2>1 DEF MayTell, Says, Revoking
    <3> QED BY <2>1, <2>2, <3>1, ToldKeeps
  <2>3. CASE RevokeFamily(c, token[c]) BY <1>55, <2>1, <2>3
  <2> QED BY <1>65, <2>2, <2>3 DEF RevokeVerified
<1>7. CASE Use(c)
  <2>1. pc[c] = "new" /\ ask[c].kind = "use" /\ ask[c].kind \in Bearer BY <1>7 DEF Use, Bearer
  <2>2. PICK t \in given :
          /\ token' = [token EXCEPT ![c] = t]
          /\ \/ Told(c, "refused")
             \/ Goes(c, "verifying") /\ UNCHANGED memoryVars
    BY <1>7 DEF Use
  <2>3. MayTell(c, "refused") /\ Fits(c, "verifying") BY <2>1 DEF MayTell, Says, Fits
  <2> QED BY <1>4, <2>1, <2>2, <2>3, ToldKeeps, GoesKeeps
<1>8. CASE Validate(c)
  <2>1. /\ pc[c] = "verifying" /\ ask[c].kind = "use" /\ token' = token /\ Token(c) /\ ~Writes(c)
        /\ token[c] \in Held /\ token[c][1] \in Grants /\ ask[c].kind \notin ChainKinds
    BY <1>8 DEF Validate, OAuthInv, PlacesOK, JobOK, TokensOK, Token, Bearer, Held, ChainKinds
  <2>2. ASSUME NEW say \in {"refused"}, NotAccepted(c) PROVE Steps
    <3>1. MayTell(c, say) BY <2>1, <2>2 DEF MayTell, Says, Revoking
    <3>2. Fades(c) /\ LateStays BY <1>0, <2>2 DEF NotAccepted, Fades, LateStays, clockVars
    <3>3. Ends(c, say)
      BY <1>0, <2>1, <2>2, <3>1, <3>2 DEF NotAccepted, Ends, clockVars, worldVars, OAuthInv, TypeOK
    <3> QED BY <3>3, EndsKeeps, EndsSteps DEF Steps
  <2>3. CASE Acquire(c, Ended(disk, {token[c][1]}), "ended", "refused")
    <3>1. NextOK(c, job.next)' BY <2>1, <2>3 DEF Acquire, NextOK, worldVars, Bearer, Revoking
    <3> QED BY <1>0, <2>1, <2>3, <3>1, AcquireKeeps
  <2>4. CASE token[c][1] \in Usable(disk) \ lapsed /\ Told(c, "accepted")
    <3>1. MayTell(c, "accepted") BY <2>1, <2>4 DEF MayTell, Says, Revoking
    <3> QED BY <2>1, <2>4, <3>1, ToldKeeps
  <2> QED BY <1>8, <2>2, <2>3, <2>4 DEF Validate
<1> QED BY <1>1, <1>2, <1>3, <1>5, <1>6, <1>65, <1>7, <1>8 DEF Tokens

\* A change that the audit log did not take leaves everything as it was.
LEMMA NotAuditedKeeps ==
    ASSUME OAuthInv, NEW c \in Calls, NotAudited(c)
    PROVE  Steps
<1> DEFINE say == IF ask[c].kind = "use" THEN "refused" ELSE "unavailable"
<1>1. Writes(c) /\ pc[c] = "writing" /\ token' = token /\ Answer(c, say)
  BY DEF NotAudited, Failed, OAuthInv, JobOK
<1>2. refused' \subseteq Held
  BY <1>1 DEF NotAudited, Failed, Remember, OAuthInv, TypeOK, TokensOK, Bearer
<1>3. Token(c) /\ Fades(c) /\ LateStays /\ MayTell(c, say) /\ faults' \in Nat
  BY <1>1 DEF NotAudited, Failed, Token, Fades, LateStays, MayTell, Says, clockVars, OAuthInv, TypeOK
<1>4. Ends(c, say)
  BY <1>1, <1>2, <1>3 DEF NotAudited, Failed, Ends, clockVars, worldVars, OAuthInv, TypeOK
<1> QED BY <1>4, EndsKeeps, EndsSteps DEF Steps

-----------------------------------------------------------------------------
(* The invariant.                                                           *)

\* A server starts over a deployment in which nothing is under way.
LEMMA InitKeeps == Init => OAuthInv
<1> SUFFICES ASSUME Init PROVE OAuthInv OBVIOUS
<1> USE StateAssumption
<1>1. /\ AskOK /\ disk \in Disks /\ Valid(disk) /\ job = NoJob /\ chain = <<>> /\ signer = disk.key
      /\ \A x \in Codes : auth[x] = "none"
      /\ \A c \in Calls : pc[c] = "new" /\ token[c] = NoToken /\ effect[c] = "none" /\ answer[c] = "none"
      /\ \A g \in Grants : disk.code[g] = {} /\ (disk.status[g] = "none" => disk.gen[g] = 0)
  BY DEF Init
<1>2. TypeOK BY DEF Init, TypeOK, Held, Where, Says, Disks
<1>3. RecordsOK /\ TokensOK BY <1>1 DEF Init, RecordsOK, TokensOK
<1>4. JobOK BY <1>1 DEF JobOK, Writes, Busy
<1>5. ChainOK /\ PlacesOK BY <1>1 DEF ChainOK, PlacesOK
<1>6. NoDoubleSpend /\ DenyFinal /\ RemovedOK /\ KeyOK /\ ConsentBacked /\ RevokedStaysOut /\ AnswersAreHonest
  BY <1>1 DEF NoDoubleSpend, DenyFinal, RemovedOK, KeyOK, ConsentBacked, RevokedStaysOut, AnswersAreHonest
<1> QED BY <1>1, <1>2, <1>3, <1>4, <1>5, <1>6 DEF OAuthInv

\* Whatever a deployment does next.
LEMMA NextSteps == OAuthInv /\ [Next]_vars => OAuthInv' /\ Refines
<1> SUFFICES ASSUME OAuthInv, [Next]_vars PROVE Steps BY DEF Steps
<1>1. ASSUME NEW c \in Calls, Step(c) PROVE Steps
  BY <1>1, DecisionsKeep, AuthorizationKeeps, TokensKeep, WritesSteps, NotAuditedKeeps DEF Step, Writing
<1>2. ASSUME NEW g \in Grants, Lapse(g) PROVE Steps
  <2>1. OAuthInv' BY <1>2, TimeKeeps DEF Lapse, memoryVars, worldVars, OAuthInv, TypeOK
  <2>2. \A h \in Grants : Standing(h)' = Standing(h) BY <1>2 DEF Lapse, Standing, Usable, Active, Trusted
  <2>3. Authority!Lapse(g) BY <1>2, <2>2 DEF Lapse, Authority!Lapse
  <2> QED BY <2>1, <2>3 DEF Steps, Refines, Authority!Next
<1>3. ASSUME NEW x \in Codes, Age(x) PROVE Steps
  <2>1. OAuthInv' BY <1>3, TimeKeeps DEF Age, memoryVars, worldVars, OAuthInv, TypeOK
  <2>2. Refines BY <1>3, QuietSteps DEF Age
  <2> QED BY <2>1, <2>2 DEF Steps
<1>4. ASSUME NEW t \in refused, Forget(t) PROVE Steps
  <2>1. OAuthInv' BY <1>4, TimeKeeps DEF Forget, clockVars, worldVars, OAuthInv, TypeOK
  <2>2. Refines BY <1>4, QuietSteps DEF Forget, clockVars
  <2> QED BY <2>1, <2>2 DEF Steps
<1>5. CASE UNCHANGED vars
  <2>1. OAuthInv' BY <1>5, TimeKeeps DEF vars, stateVars, memoryVars, clockVars, worldVars, OAuthInv, TypeOK
  <2>2. Refines BY <1>5, QuietSteps DEF vars, stateVars, clockVars
  <2> QED BY <2>1, <2>2 DEF Steps
<1> QED BY <1>1, <1>2, <1>3, <1>4, <1>5, RestartSteps DEF Next

\* Every part of the invariant holds in every state: a refresh token is spent by one
\* call, a code makes one grant, and every answer given stays true.
THEOREM Invariance == Spec => []OAuthInv
<1> QED BY InitKeeps, NextSteps, PTL DEF Spec

\* Every grant goes back to an authorization that the owner was told is approved, and
\* none to one the owner was told is denied.
THEOREM Consent == Spec => []ConsentBacked
<1>1. OAuthInv => ConsentBacked BY DEF OAuthInv
<1> QED BY <1>1, Invariance, PTL

\* A revocation that was acknowledged is never undone.
THEOREM Revocation == Spec => []RevokedStaysOut
<1>1. OAuthInv => RevokedStaysOut BY DEF OAuthInv
<1> QED BY <1>1, Invariance, PTL

\* What a client is told about a token tells it what to do.
THEOREM Honesty == Spec => []AnswersAreHonest
<1>1. OAuthInv => AnswersAreHonest BY DEF OAuthInv
<1> QED BY <1>1, Invariance, PTL

\* A deployment starts as an authority does.
LEMMA InitRefines == Init => Authority!Init
<1> SUFFICES ASSUME Init PROVE Authority!Init OBVIOUS
<1>1. disk \in Disks /\ lapsed = {} /\ \A c \in Calls : token[c] = NoToken /\ answer[c] = "none" BY DEF Init
<1>2. \A g \in Grants : Standing(g) \in {"none", "live", "dead"} BY DEF Standing
<1> QED BY <1>1, <1>2 DEF Authority!Init, Disks

\* The deployment is an authority over its grants: ending is final, generations go one
\* by one, and an access token is accepted only while its grant lives.
THEOREM Implementation == Spec => ImplementsAuthority
<1> QED BY InitRefines, InitKeeps, NextSteps, PTL DEF Spec, ImplementsAuthority, Authority!Spec, Refines
=============================================================================
