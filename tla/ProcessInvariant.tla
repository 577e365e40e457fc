-------------------------- MODULE ProcessInvariant --------------------------
(***************************************************************************)
(* The inductive invariant of ProcessManager: the safety invariants and     *)
(* what they rest on.                                                        *)
(***************************************************************************)
EXTENDS ProcessManager

\* What is known of a child that can no longer be reached.
Gone(p) == child[p] = "alive" => p \in lost

\* The call of start that has made a record and has not thrown.
Standing(p) == status[p] # "none" /\ start[p] # "failed"

\* How far the call of start has come tells what it has made.
CallInv ==
    \A p \in Proc :
        /\ start[p] \in {"idle", "verifying"} => status[p] = "none"
        /\ InCall(p) /\ start[p] # "verifying" => status[p] # "none"
        /\ start[p] = "returned" => status[p] # "none"
        /\ status[p] = "running" => start[p] = "returned"
        /\ status[p] = "none" => /\ child[p] = "none" /\ handle[p] = "unset"
                                 /\ exit[p] = "none" /\ term[p] = "none" /\ p \notin known
        /\ start[p] = "spawning" => handle[p] = "unset"
        /\ handle[p] = "unset" => start[p] \in {"spawning", "failed"} \/ status[p] = "none"
        /\ start[p] = "failed" => Gone(p)
        /\ handle[p] = "null" => start[p] \in {"waiting", "killing", "failed"}

\* An ending has begun exactly when the record is no longer active.
EndingInv ==
    \A p \in Proc :
        /\ status[p] = "ended" <=> exit[p] # "none" \/ term[p] # "none"
        /\ exit[p] # "none" => child[p] # "none" /\ Gone(p)
        /\ term[p] \in {"killing", "recording", "over"} => handle[p] # "unset"
        /\ term[p] \in {"recording", "over"} \/ handle[p] = "null" => Gone(p)
        /\ start[p] = "waiting" => exit[p] # "none" \/ term[p] # "none"

\* A record stays in the table until its ending is settled; only then is it ready.
RecordInv ==
    \A p \in Proc :
        /\ Standing(p) /\ ~Settled(p) => p \in known
        /\ p \in known => Standing(p)
        /\ p \in ready <=> Settled(p)

\* Revocations: who is judged by which generation, and whom one under way waits for.
GenerationInv ==
    /\ state = "open" => generation <= MaxRevoke
    /\ \A p \in Proc :
        /\ admitted[p] <= generation
        /\ start[p] \notin {"idle", "failed"} /\ (revoking \/ state # "open") => admitted[p] < generation
        /\ p \in known /\ admitted[p] < generation => p \in flagged
        /\ Standing(p) /\ admitted[p] < generation => ~Active(p)
        /\ revoking /\ InCall(p) => p \in joined.calls
        /\ revoking /\ Standing(p) /\ ~Settled(p) => p \in joined.endings
        /\ ~revoking /\ admitted[p] < generation /\ start[p] # "idle" =>
              ~InCall(p) /\ (Standing(p) => Settled(p))

\* The inductive invariant: TypeOK and the safety invariants with these parts.
IInv ==
    /\ TypeOK
    /\ CallInv /\ EndingInv /\ RecordInv /\ GenerationInv
    /\ Accounted /\ ReadyIsRetained /\ OneEnding
    /\ AliveIsCounted /\ RevokedIsGone /\ ClosedIsEmpty
=============================================================================
