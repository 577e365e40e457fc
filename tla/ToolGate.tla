------------------------------ MODULE ToolGate ------------------------------
(***************************************************************************)
(* What the lifecycle and the execution lane of a server promise together   *)
(* about the tool handlers that run at one time: close_workspace runs       *)
(* alone, the tools that write run one after the other, and nothing runs on *)
(* a server whose resources are gone.                                       *)
(***************************************************************************)
EXTENDS FiniteSets

CONSTANTS Calls, Servers

VARIABLES
    home,       \* the server a call is made on
    closes,     \* the calls of close_workspace
    writes,     \* the calls of the tools that write, close_workspace among them
    disposed,   \* the servers whose resources are gone
    inside      \* the calls between their policy decision and their result

gateVars == <<home, closes, writes, disposed, inside>>

Beside(c) == {d \in inside : home[d] = home[c]}

GateInit ==
    /\ home \in [Calls -> Servers]
    /\ writes \in SUBSET Calls
    /\ closes \in SUBSET writes
    /\ disposed \in SUBSET Servers
    /\ inside = {}

Enter(c) ==
    /\ c \notin inside
    /\ home[c] \notin disposed
    /\ c \in closes => Beside(c) = {}
    /\ c \in writes => Beside(c) \cap writes = {}
    /\ Beside(c) \cap closes = {}
    /\ inside' = inside \cup {c}
    /\ UNCHANGED <<home, closes, writes, disposed>>

Leave(c) ==
    /\ c \in inside
    /\ inside' = inside \ {c}
    /\ UNCHANGED <<home, closes, writes, disposed>>

Dispose(s) ==
    /\ s \notin disposed
    /\ \A c \in inside : home[c] # s
    /\ disposed' = disposed \cup {s}
    /\ UNCHANGED <<home, closes, writes, inside>>

GateNext == (\E c \in Calls : Enter(c) \/ Leave(c)) \/ \E s \in Servers : Dispose(s)

GateSpec == GateInit /\ [][GateNext]_gateVars
=============================================================================
