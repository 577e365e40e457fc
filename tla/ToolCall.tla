------------------------------ MODULE ToolCall ------------------------------
(***************************************************************************)
(* What a tool call is made of, and does not change while it is served: the *)
(* MCP server it is made on, one per session, and what it wants to do.      *)
(***************************************************************************)
EXTENDS Naturals, Sequences, FiniteSets

CONSTANTS
    Calls,      \* the tool calls
    Servers,    \* the MCP servers of the process
    Bindings    \* what a call may want to do: the bindingFingerprint of its facts

ASSUME CallAssumption == IsFiniteSet(Calls)

VARIABLES
    home,       \* call -> server
    want,       \* call -> binding
    limits      \* bounds: the ticks, failed writes and closings of this behaviour

callFacts == <<home, want, limits>>

On(s) == {c \in Calls : home[c] = s}
=============================================================================
