-------------------------- MODULE TransactionOutcome ------------------------
(***************************************************************************)
(* What a transaction promises its caller, whatever the engine and the     *)
(* recovery do underneath: its visible effects come and go only while its  *)
(* outcome is open; it is committed with all of them or void with none;    *)
(* and once the caller has been told that it committed, that is final.     *)
(***************************************************************************)
CONSTANTS Tx, Path, Targets(_)

VARIABLES
    outcome,  \* "none", "open", "committed" or "void"
    effects,  \* effects[t]: the paths where t's effect is visible
    told      \* what the caller of t has been told: "nothing", "yes", "no"

Init == /\ outcome = [t \in Tx |-> "none"]
        /\ effects = [t \in Tx |-> {}]
        /\ told = [t \in Tx |-> "nothing"]

Become(t, state) == outcome' = [outcome EXCEPT ![t] = state]
Tell(t, answer) == told' = [told EXCEPT ![t] = answer]

Open(t) == /\ outcome[t] = "none" /\ Become(t, "open")
           /\ UNCHANGED <<effects, told>>

Change(t, S) == /\ outcome[t] = "open"
                /\ effects' = [effects EXCEPT ![t] = S]
                /\ UNCHANGED <<outcome, told>>

Commit(t) == /\ outcome[t] = "open" /\ effects[t] = Targets(t)
             /\ Become(t, "committed")
             /\ UNCHANGED <<effects, told>>

Void(t) == /\ outcome[t] = "open" /\ effects[t] = {}
           /\ Become(t, "void")
           /\ UNCHANGED effects
           /\ UNCHANGED told \/ Tell(t, "no")

\* Recovery may take up an outcome again, but never one the caller relies on.
Reopen(t) == /\ outcome[t] \in {"committed", "void"} /\ told[t] # "yes"
             /\ Become(t, "open")
             /\ UNCHANGED <<effects, told>>

Acknowledge(t) == /\ outcome[t] = "committed" /\ told[t] = "nothing"
                  /\ Tell(t, "yes")
                  /\ UNCHANGED <<outcome, effects>>

Next == \E t \in Tx :
    \/ Open(t) \/ Commit(t) \/ Void(t) \/ Reopen(t) \/ Acknowledge(t)
    \/ \E S \in SUBSET Path : Change(t, S)

Spec == Init /\ [][Next]_<<outcome, effects, told>>
=============================================================================
