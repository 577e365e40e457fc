--------------------------- MODULE TokenAuthority ---------------------------
(***************************************************************************)
(* What an OAuth deployment promises of its grants: a grant is issued once, *)
(* its refresh token goes from one generation to the next, what ends it is  *)
(* final, and an access token is accepted only while its grant lives.       *)
(***************************************************************************)
EXTENDS Naturals

CONSTANTS Grants, Uses      \* Uses: the presentations of access tokens

VARIABLES
    grant,      \* grant -> "none", "live" or "dead"
    gen,        \* grant -> the generation of its refresh token
    lapsed,     \* the grants whose lifetime is over
    bearer,     \* use -> the grant its token is of, as a set of at most one
    accepted    \* the uses that were accepted

vars == <<grant, gen, lapsed, bearer, accepted>>

Live == {g \in Grants : grant[g] = "live"}

Init ==
    /\ grant \in [Grants -> {"none", "live", "dead"}]
    /\ gen \in [Grants -> Nat]
    /\ lapsed = {} /\ accepted = {}
    /\ bearer = [u \in Uses |-> {}]

\* A grant is issued; it may be dead from the start, when its client was removed
\* while its code was redeemed.
Issue(g) ==
    /\ grant[g] = "none"
    /\ \E s \in {"live", "dead"} : grant' = [grant EXCEPT ![g] = s]
    /\ UNCHANGED <<gen, lapsed, bearer, accepted>>

\* A refresh that was under way when the client was removed still counts.
Rotate(g) ==
    /\ grant[g] # "none"
    /\ gen' = [gen EXCEPT ![g] = @ + 1]
    /\ UNCHANGED <<grant, lapsed, bearer, accepted>>

\* S end at once: a revocation, a replay, an expiry, the removal of a client.
End(S) ==
    /\ S # {} /\ S \subseteq Live
    /\ grant' = [g \in Grants |-> IF g \in S THEN "dead" ELSE grant[g]]
    /\ UNCHANGED <<gen, lapsed, bearer, accepted>>

Lapse(g) ==
    /\ lapsed' = lapsed \cup {g}
    /\ UNCHANGED <<grant, gen, bearer, accepted>>

Present(u, g) ==
    /\ bearer' = [bearer EXCEPT ![u] = {g}]
    /\ UNCHANGED <<grant, gen, lapsed, accepted>>

Accept(u) ==
    /\ bearer[u] # {} /\ bearer[u] \subseteq Live \ lapsed
    /\ accepted' = accepted \cup {u}
    /\ UNCHANGED <<grant, gen, lapsed, bearer>>

Next ==
    \/ \E g \in Grants : Issue(g) \/ Rotate(g) \/ Lapse(g)
    \/ \E S \in SUBSET Live : End(S)
    \/ \E u \in Uses : Accept(u) \/ \E g \in Grants : Present(u, g)

Spec == Init /\ [][Next]_vars
=============================================================================
