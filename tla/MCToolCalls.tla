---------------------------- MODULE MCToolCalls ----------------------------
(* TLC instance of ToolCalls: small sets of calls, each with the hazards it is *)
(* there for.                                                                  *)
EXTENDS ToolCallsInvariant, TLC

CONSTANTS c1, c2, c3, s1, s2, read, close, edit, run

MCRisk == (read :> "R0") @@ (close :> "R1") @@ (edit :> "R2") @@ (run :> "R3")
OneSession == [b \in Bindings |-> "session"]
OneTick == [r \in {"R1", "R2", "R3"} |-> 1]

Each(a, b, c) == (c1 :> a) @@ (c2 :> b) @@ (c3 :> c)
Limits(t, f, c) == [ticks |-> t, faults |-> f, closings |-> c]
Workload(made, w, h, o, l) == [made |-> made, want |-> w, home |-> h, owned |-> o, limits |-> l]

MCWorkloads == {
    \* two closes and a read of a server that closes itself, and its approvals
    Workload({c1, c2, c3}, Each(close, close, read), Each(s1, s1, s1), {s1}, Limits(0, 0, TRUE)),
    \* a close, an edit and a read
    Workload({c1, c2, c3}, Each(close, edit, read), Each(s1, s1, s1), {s1}, Limits(0, 0, TRUE)),
    \* one operation three times, its approval for one use
    Workload({c1, c2, c3}, Each(run, run, run), Each(s1, s1, s1), {}, Limits(0, 0, FALSE)),
    \* one operation three times, its approval for any use until it expires
    Workload({c1, c2, c3}, Each(close, close, close), Each(s1, s1, s1), {}, Limits(1, 0, FALSE)),
    \* one operation of two sessions at one time
    Workload({c1, c2}, Each(edit, edit, edit), Each(s1, s2, s2), {}, Limits(1, 0, FALSE)),
    \* a failing write of the log and a shutdown
    Workload({c1, c2}, Each(run, run, run), Each(s1, s1, s1), {}, Limits(0, 1, TRUE)) }
=============================================================================
