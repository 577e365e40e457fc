------------------------- MODULE MCTransactionSystem ------------------------
(* TLC instances of TransactionSystem. *)
EXTENDS TransactionInvariant, TLC

CONSTANTS t1, t2, s1, s2

\* One request replaces a file, creates another one and deletes a third.
OneKind == (t1 :> (1 :> "replace" @@ 2 :> "create" @@ 3 :> "delete"))

\* One replaces a file and creates another; the other one deletes the first.
RivalKinds == (t1 :> (1 :> "replace" @@ 2 :> "create")) @@ (t2 :> (1 :> "delete" @@ 2 :> "none"))

OneHome == (t1 :> s1)
SameHome == (t1 :> s1) @@ (t2 :> s1)
TwoHomes == (t1 :> s1) @@ (t2 :> s2)
=============================================================================
