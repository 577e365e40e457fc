------------------------------- MODULE MCOAuth -------------------------------
(* Deployments to check: where they start, and what is asked of them.  Each   *)
(* start is a state that a fresh deployment reaches with the calls that went  *)
(* before.                                                                    *)
EXTENDS OAuthInvariant, TLC

CONSTANTS alice, bob, xa, ya, zb, c1, c2, c3, c4

ClientOfDef == (xa :> alice) @@ (ya :> alice) @@ (zb :> bob)

Do(k, o)  == [kind |-> k, of |-> o]
Refreshes == Do("refresh", "all")
Uses      == Do("use", "all")
Four(p, q, r, s) == (c1 :> p) @@ (c2 :> q) @@ (c3 :> r) @@ (c4 :> s)

Nobody == [e \in Clients |-> "none"]
OnlyA  == [Nobody EXCEPT ![alice] = "approved"]
AandB  == [OnlyA EXCEPT ![bob] = "unapproved"]

\* alice was removed, and ending her grant failed
HalfGone == [Nobody EXCEPT ![alice] = "revoked", ![bob] = "approved"]

\* With a grant: grant 1 is alice's, its refresh token was used once.
Start(clients, granted, started, done, fail, crash, w) ==
    [disk |-> [client |-> clients,
               status |-> [g \in Grants |-> IF g = 1 /\ granted THEN "active" ELSE "none"],
               owner  |-> [g \in Grants |-> IF g = 1 /\ granted THEN {alice} ELSE {}],
               code   |-> [g \in Grants |-> {}],
               gen    |-> [g \in Grants |-> IF g = 1 /\ granted THEN 1 ELSE 0],
               key    |-> 0],
     given |-> IF granted THEN {<<1, 0>>, <<1, 1>>} ELSE {},
     auth |-> [e \in Codes |-> IF e = xa THEN started ELSE "none"],
     done |-> done, fail |-> fail, crash |-> crash, ask |-> w]

Cases == {
    \* a client connects for the first time
    Start(Nobody, FALSE, "none", {}, 1, 0,
          Four(Do("register", alice), Do("authorize", xa), Do("approve", xa), Do("continue", xa))),
    \* from the request to the tokens
    Start(OnlyA, FALSE, "none", {}, 1, 1,
          Four(Do("authorize", xa), Do("approve", xa), Do("continue", xa), Do("exchange", xa))),
    \* the owner is of two minds
    Start(OnlyA, FALSE, "pending", {}, 1, 0,
          Four(Do("approve", xa), Do("approve", xa), Do("deny", xa), Do("continue", xa))),
    \* a denied request, and one too many
    Start(OnlyA, FALSE, "pending", {}, 1, 0,
          Four(Do("authorize", ya), Do("deny", xa), Do("continue", xa), Do("deny", xa))),
    \* one code redeemed twice while its client is removed
    Start(OnlyA, FALSE, "code", {c1}, 1, 1,
          Four(Do("approve", xa), Do("exchange", xa), Do("exchange", xa), Do("remove", alice))),
    \* a refresh token used twice, and a revocation
    Start(OnlyA, TRUE, "none", {}, 1, 0,
          Four(Refreshes, Refreshes, Uses, Do("revoke", alice))),
    \* the removal of a client, and the registrations after it
    Start(OnlyA, TRUE, "none", {}, 1, 0,
          Four(Refreshes, Do("remove", alice), Do("register", bob), Uses)),
    Start(OnlyA, TRUE, "none", {}, 1, 0,
          Four(Do("revokeAccess", alice), Do("remove", alice), Do("prune", "all"), Uses)),
    \* one client has the tokens of another
    Start(HalfGone, TRUE, "none", {}, 1, 0,
          Four(Do("revoke", bob), Do("revokeAccess", bob), Do("revokeAccess", alice), Do("end", 1))),
    \* as many clients as may be approved
    Start(AandB, TRUE, "none", {}, 1, 0,
          Four(Do("authorize", zb), Do("approve", zb), Do("remove", alice), Do("prune", "all"))),
    \* a new signing key under the running server
    Start(OnlyA, FALSE, "code", {c1}, 1, 1,
          Four(Do("approve", xa), Do("exchange", xa), Refreshes, Do("rotate", "all"))),
    \* a new signing key and an end to all grants, when the client has as many as it may
    Start(OnlyA, TRUE, "code", {c1}, 1, 0,
          Four(Do("approve", xa), Do("exchange", xa), Uses, Do("rotateAll", "all"))),
    \* the owner ends grants while they are used
    Start(OnlyA, TRUE, "none", {}, 1, 0,
          Four(Uses, Uses, Do("end", 1), Do("endAll", "all"))),
    Start(OnlyA, TRUE, "code", {c1}, 1, 1,
          Four(Do("approve", xa), Uses, Refreshes, Do("rotate", "all")))}

MCInit ==
    \E k \in Cases :
      /\ disk = k.disk /\ given = k.given /\ auth = k.auth /\ ask = k.ask
      /\ signer = 0 /\ job = NoJob /\ chain = <<>> /\ refused = {}
      /\ lapsed = {} /\ late = {}
      /\ pc = [c \in Calls |-> IF c \in k.done THEN "over" ELSE "new"]
      /\ answer = [c \in Calls |-> IF c \in k.done THEN "ok" ELSE "none"]
      /\ token = [c \in Calls |-> NoToken] /\ effect = [c \in Calls |-> "none"]
      /\ faults = k.fail /\ crashes = k.crash
MCSpec == MCInit /\ [][Next]_vars /\ Fairness
=============================================================================
