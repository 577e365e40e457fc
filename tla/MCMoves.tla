------------------------------- MODULE MCMoves -------------------------------
(* TLC instance of MoveSystem: small workspaces and what is asked of them,    *)
(* each with the hazards it is there for.                                     *)
EXTENDS MoveInvariant, TLC

CONSTANTS m1, m2, u1, o1, o2, x1

Idle == [plan |-> NoPlan, undoes |-> None]
Move(plan) == [plan |-> plan, undoes |-> None]
Undo(c, plan) == [plan |-> plan, undoes |-> c]
Tasks(f) == [c \in Calls |-> IF c \in DOMAIN f THEN f[c] ELSE Idle]
Has(f) == [p \in Paths |-> IF p \in DOMAIN f THEN f[p] ELSE None]
Workload(files, made, f, crash, fault, use, tokens) ==
    [at |-> Has(files), dir |-> made, task |-> Tasks(f),
     crashes |-> crash, faults |-> fault, uses |-> use, foreign |-> tokens]

Swap == m1 :> Move((1 :> 2) @@ (2 :> 1))
ThereAndBack == (m1 :> Move(1 :> 3)) @@ (u1 :> Undo(m1, 3 :> 1))
Two == (1 :> o1) @@ (2 :> o2)

MoveUndoMove == (m1 :> Move(1 :> 2)) @@ (u1 :> Undo(m1, 2 :> 1)) @@ (m2 :> Move(1 :> 2))

\* A new spelling of a name, where the file system takes both for one, and an
\* exchange of two names of one file.
MCOwnNames == {
    Workload(1 :> o1, None, m1 :> Move(1 :> 1), 1, 1, 1, {}),
    Workload((1 :> o1) @@ (2 :> o1), None, Swap, 1, 1, 1, {}) }

MCWorkloads == MCOwnNames \cup {
    \* two files change names
    Workload(Two, None, Swap, 1, 1, 1, {}),
    Workload(Two, None, Swap, 0, 1, 0, {x1}),
    \* two names of one file, the second one on the way of the first
    Workload((1 :> o1) @@ (2 :> o1), None, m1 :> Move((1 :> 2) @@ (2 :> 3)), 1, 1, 1, {}),
    \* a move into a new directory and its undo
    Workload(1 :> o1, None, ThereAndBack, 1, 1, 1, {}),
    Workload(1 :> o1, None, ThereAndBack, 2, 0, 2, {}),
    Workload(1 :> o1, None, ThereAndBack, 1, 0, 1, {x1}),
    \* two undos of one move
    Workload(1 :> o1, None, ThereAndBack @@ (m2 :> Undo(m1, 3 :> 1)), 0, 1, 0, {}),
    \* two moves to one place
    Workload(Two, None, (m1 :> Move(1 :> 3)) @@ (m2 :> Move(2 :> 3)), 1, 1, 0, {}),
    \* a move, its undo, and another move of the same file
    Workload(1 :> o1, None, MoveUndoMove, 1, 1, 0, {}),
    \* one move, among the changes of another program or with two faults
    Workload(1 :> o1, None, m1 :> Move(1 :> 2), 1, 1, 1, {x1}),
    Workload(1 :> o1, None, m1 :> Move(1 :> 2), 1, 2, 1, {}) }
=============================================================================
