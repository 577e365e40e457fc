------------------------------- MODULE MCGit --------------------------------
(* TLC instances of GitRecovery. *)
EXTENDS GitRecovery, TLC

CONSTANTS a, b, s1, s2, r1, r2

\* Two servers that mutate the same repository.
TwoServers == (a :> s1) @@ (b :> s2)
OneRepository == (a :> r1) @@ (b :> r1)

OneServer == (a :> s1) @@ (b :> s1)
=============================================================================
