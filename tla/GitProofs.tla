----------------------------- MODULE GitProofs ------------------------------
(***************************************************************************)
(* Proofs about GitRecovery, for any number of operations, servers,        *)
(* repositories, crashes and failing writes: the inductive invariant, and  *)
(* from it the safety properties.                                          *)
(***************************************************************************)
EXTENDS GitRecovery, TLAPS

Phase == Busy \union {"idle", "done", "failed", "dead", "interrupted"}

TypeOK ==
    /\ pc \in [Op -> Phase] /\ effect \subseteq Op
    /\ rec \in [Op -> State \union {"none"}]
    /\ frozen \subseteq Repository /\ missed \subseteq Repository
    /\ lock \in [Repository -> Op \union Server \union {"free", "orphan"}]
    /\ up \in [Server -> {"down", "starting", "ready"}]
    /\ seen \in [Server -> [Op -> State \union {"none"}]]
    /\ todo \in [Server -> SUBSET Op]
    /\ at \in [Server -> Op \union {"none"}]

\* Who works under a lock has it; a server that died during an effect keeps it.
Holding == {"locked", "prepared", "executing", "observing", "interrupted"}
LockInv ==
    /\ \A o \in Op : pc[o] \in Holding => lock[In[o]] = o
    /\ \A s \in Server : at[s] # "none" => lock[In[at[s]]] = s

\* What the record says at some of the positions.
PhaseInv ==
    \A o \in Op :
        /\ pc[o] # "completing"
        /\ pc[o] \in {"idle", "authorizing"} => rec[o] = "none"
        /\ pc[o] \in {"executing", "observing"} => rec[o] = "executing"

\* Where the operations whose effect is there can be.
EffectInv ==
    \A o \in effect :
        /\ rec[o] \in {"executing", "recovery_required"}
        /\ pc[o] \in {"executing", "observing", "requiring", "failed", "dead", "interrupted"}
        /\ pc[o] \in {"requiring", "failed", "dead", "interrupted"} =>
              In[o] \in frozen \union missed \/ lock[In[o]] = o

\* What a startup has dealt with is rolled back or has its repository frozen.
StartupInv ==
    \A s \in Server, o \in Op :
        /\ o \in todo[s] => seen[s][o] # "none"
        /\ up[s] = "starting" /\ seen[s][o] # "none" /\ o \notin todo[s] =>
              rec[o] = "rolled_back" \/ In[o] \in frozen
        /\ up[s] = "ready" /\ seen[s][o] # "none" => rec[o] = "rolled_back"

IInv == TypeOK /\ LockInv /\ PhaseInv /\ EffectInv /\ StartupInv

----------------------------------------------------------------------------
\* The transitions the proofs need to know of.
LEMMA Machine ==
    /\ Transitions["rolled_back"] = {} /\ Transitions["recovery_required"] = {}
    /\ "executing" \notin Transitions["executing"]
BY DEF Transitions, State

\* A function with one value replaced still maps into the set that value is of.
LEMMA Put ==
    ASSUME NEW A, NEW B, NEW f \in [A -> B], NEW x \in A, NEW y \in B
    PROVE  [f EXCEPT ![x] = y] \in [A -> B]
OBVIOUS

\* What the shared steps leave well typed.
LEMMA Types ==
    ASSUME TypeOK, NEW o \in Op
    PROVE  /\ \A x \in Phase : Become(o, x) => pc' \in [Op -> Phase]
           /\ \A x \in State : Record(o, x) => rec' \in [Op -> State \union {"none"}]
           /\ Record(o, rec[o]) => rec' \in [Op -> State \union {"none"}]
           /\ Freeze(In[o]) => frozen' \subseteq Repository
           /\ \A x \in Op \union Server \union {"free", "orphan"} :
                Lock(In[o], x) => lock' \in [Repository -> Op \union Server \union {"free",
                "orphan"}]
           /\ Release(o) => lock' \in [Repository -> Op \union Server \union {"free", "orphan"}]
<1> USE GitAssumption DEF TypeOK
<1>1. \A x \in Phase : Become(o, x) => pc' \in [Op -> Phase] BY DEF Become
<1>2. \A x \in State : Record(o, x) => rec' \in [Op -> State \union {"none"}] BY DEF Record
<1>3. Record(o, rec[o]) => rec' \in [Op -> State \union {"none"}] BY DEF Record
<1>4. Freeze(In[o]) => frozen' \subseteq Repository BY DEF Freeze
<1>5. \A x \in Op \union Server \union {"free", "orphan"} :
        Lock(In[o], x) => lock' \in [Repository -> Op \union Server \union {"free", "orphan"}]
  BY DEF Lock
<1>6. Release(o) => lock' \in [Repository -> Op \union Server \union {"free", "orphan"}]
  BY DEF Release
<1> QED BY <1>1, <1>2, <1>3, <1>4, <1>5, <1>6

\* Every step preserves every part of the invariant.
LEMMA IInvNext == IInv /\ [Next]_vars => IInv'
<1> SUFFICES ASSUME IInv, [Next]_vars PROVE IInv' OBVIOUS
<1> USE GitAssumption, Machine DEF disk, startup, history, vars, Busy

<1>1. ASSUME NEW o \in Op, Begin(o) PROVE IInv'
  <2>1. TypeOK' BY <1>1, Types DEF IInv, Begin, TypeOK, Phase, State
  <2>2. LockInv' BY <1>1 DEF IInv, Begin, TypeOK, LockInv, Holding, Become
  <2>3. PhaseInv' BY <1>1 DEF IInv, Begin, TypeOK, LockInv, PhaseInv, Holding, Become
  <2>4. EffectInv'
    BY <1>1 DEF IInv, Begin, TypeOK, LockInv, PhaseInv, EffectInv, Holding, Become
  <2>5. StartupInv'
    BY <1>1 DEF IInv, Begin, TypeOK, LockInv, PhaseInv, StartupInv, Holding, Become
  <2> QED BY <2>1, <2>2, <2>3, <2>4, <2>5 DEF IInv
<1>2. ASSUME NEW o \in Op, PreEffectFails(o) PROVE IInv'
  <2>1. TypeOK' BY <1>2, Types DEF IInv, PreEffectFails, TypeOK, Phase, State
  <2>2. LockInv' BY <1>2 DEF IInv, PreEffectFails, TypeOK, LockInv, Holding, Become
  <2>3. PhaseInv'
    BY <1>2 DEF IInv, PreEffectFails, TypeOK, LockInv, PhaseInv, Holding, Become
  <2>4. EffectInv'
    BY <1>2 DEF IInv, PreEffectFails, TypeOK, LockInv, PhaseInv, EffectInv, Holding, Become
  <2>5. StartupInv'
    BY <1>2 DEF IInv, PreEffectFails, TypeOK, LockInv, PhaseInv, StartupInv, Holding, Become
  <2> QED BY <2>1, <2>2, <2>3, <2>4, <2>5 DEF IInv
<1>3. ASSUME NEW o \in Op, Effect(o) PROVE IInv'
  <2>1. TypeOK' BY <1>3, Types DEF IInv, Effect, TypeOK, Phase, State
  <2>2. LockInv' BY <1>3 DEF IInv, Effect, TypeOK, LockInv, Holding
  <2>3. PhaseInv' BY <1>3 DEF IInv, Effect, TypeOK, LockInv, PhaseInv, Holding
  <2>4. EffectInv' BY <1>3 DEF IInv, Effect, TypeOK, LockInv, PhaseInv, EffectInv, Holding
  <2>5. StartupInv' BY <1>3 DEF IInv, Effect, TypeOK, LockInv, PhaseInv, StartupInv, Holding
  <2> QED BY <2>1, <2>2, <2>3, <2>4, <2>5 DEF IInv
<1>4. ASSUME NEW o \in Op, Create(o) PROVE IInv'
  <2>1. TypeOK' BY <1>4, Types DEF IInv, Create, TypeOK, Phase, State
  <2>2. LockInv' BY <1>4 DEF IInv, Create, TypeOK, LockInv, Holding, Become, Record
  <2>3. PhaseInv'
    BY <1>4 DEF IInv, Create, TypeOK, LockInv, PhaseInv, Holding, Become, Record
  <2>4. EffectInv'
    BY <1>4 DEF IInv, Create, TypeOK, LockInv, PhaseInv, EffectInv, Holding, Become, Record
  <2>5. StartupInv'
    BY <1>4 DEF IInv, Create, TypeOK, LockInv, PhaseInv, StartupInv, Holding, Become, Record
  <2> QED BY <2>1, <2>2, <2>3, <2>4, <2>5 DEF IInv
<1>5. ASSUME NEW o \in Op, Acquire(o) PROVE IInv'
  <2>1. TypeOK'
    <3>1. CASE Free(In[o]) BY <1>5, <3>1, Types DEF IInv, Acquire, TypeOK, Phase, State
    <3>2. CASE ~Free(In[o]) BY <1>5, <3>2, Types DEF IInv, Acquire, TypeOK, Phase, State
    <3> QED BY <1>5, <3>1, <3>2 DEF IInv, TypeOK, Acquire
  <2>2. LockInv'
    <3>1. CASE Free(In[o])
      BY <1>5, <3>1 DEF IInv, Acquire, TypeOK, LockInv, Holding, Become, Free, Lock
    <3>2. CASE ~Free(In[o])
      BY <1>5, <3>2 DEF IInv, Acquire, TypeOK, LockInv, Holding, Become, Free, Lock
    <3> QED BY <1>5, <3>1, <3>2 DEF IInv, TypeOK, Acquire
  <2>3. PhaseInv'
    BY <1>5 DEF IInv, Acquire, TypeOK, LockInv, PhaseInv, Holding, Become, Free, Lock
  <2>4. EffectInv'
    BY <1>5 DEF IInv, Acquire, TypeOK, LockInv, PhaseInv, EffectInv, Holding, Become,
      Free, Lock
  <2>5. StartupInv'
    BY <1>5 DEF IInv, Acquire, TypeOK, LockInv, PhaseInv, StartupInv, Holding, Become,
      Free, Lock
  <2> QED BY <2>1, <2>2, <2>3, <2>4, <2>5 DEF IInv
<1>6. ASSUME NEW o \in Op, Prepare(o) PROVE IInv'
  <2>1. TypeOK'
    <3>1. CASE CanMove(o, "preparing", "prepared")
      BY <1>6, <3>1, Types DEF IInv, Prepare, TypeOK, Phase, State, CanMove
    <3>2. CASE ~CanMove(o, "preparing", "prepared")
      BY <1>6, <3>2, Types DEF IInv, Prepare, TypeOK, Phase, State, CanMove
    <3> QED BY <1>6, <3>1, <3>2 DEF IInv, TypeOK, Prepare, CanMove
  <2>2. LockInv'
    BY <1>6 DEF IInv, Prepare, TypeOK, LockInv, Holding, Become, Record, Release, CanMove
  <2>3. PhaseInv'
    BY <1>6 DEF IInv, Prepare, TypeOK, LockInv, PhaseInv, Holding, Become, Record,
      Release, CanMove
  <2>4. EffectInv'
    <3>1. CASE CanMove(o, "preparing", "prepared")
      BY <1>6, <3>1 DEF IInv, Prepare, TypeOK, LockInv, PhaseInv, EffectInv, Holding,
        Become, Record, Release, CanMove
    <3>2. CASE ~CanMove(o, "preparing", "prepared")
      BY <1>6, <3>2 DEF IInv, Prepare, TypeOK, LockInv, PhaseInv, EffectInv, Holding,
        Become, Record, Release, CanMove
    <3> QED BY <1>6, <3>1, <3>2 DEF IInv, TypeOK, Prepare, CanMove
  <2>5. StartupInv'
    BY <1>6 DEF IInv, Prepare, TypeOK, LockInv, PhaseInv, StartupInv, Holding, Become,
      Record, Release, CanMove
  <2> QED BY <2>1, <2>2, <2>3, <2>4, <2>5 DEF IInv
<1>7. ASSUME NEW o \in Op, BeginEffect(o) PROVE IInv'
  <2>1. TypeOK' BY <1>7, Types DEF IInv, BeginEffect, TypeOK, Phase, State, CanMove
  <2>2. LockInv'
    BY <1>7 DEF IInv, BeginEffect, TypeOK, LockInv, Holding, Become, Record, CanMove
  <2>3. PhaseInv'
    BY <1>7 DEF IInv, BeginEffect, TypeOK, LockInv, PhaseInv, Holding, Become, Record,
      CanMove
  <2>4. EffectInv'
    BY <1>7 DEF IInv, BeginEffect, TypeOK, LockInv, PhaseInv, EffectInv, Holding, Become,
      Record, CanMove
  <2>5. StartupInv'
    BY <1>7 DEF IInv, BeginEffect, TypeOK, LockInv, PhaseInv, StartupInv, Holding,
      Become, Record, CanMove
  <2> QED BY <2>1, <2>2, <2>3, <2>4, <2>5 DEF IInv
<1>8. ASSUME NEW o \in Op, RollBack(o) PROVE IInv'
  <2>1. TypeOK'
    <3>1. CASE pc[o] = "undoing" /\ rec[o] = "prepared"
      BY <1>8, <3>1, Types DEF IInv, RollBack, TypeOK, Phase, State, CanMove
    <3>2. CASE pc[o] = "undone" /\ rec[o] = "rolling_back"
      BY <1>8, <3>2, Types DEF IInv, RollBack, TypeOK, Phase, State, CanMove
    <3>3. CASE pc[o] = "undoing" /\ rec[o] # "prepared"
      BY <1>8, <3>3, Types DEF IInv, RollBack, TypeOK, Phase, State, CanMove
    <3>4. CASE pc[o] = "undone" /\ rec[o] # "rolling_back"
      BY <1>8, <3>4, Types DEF IInv, RollBack, TypeOK, Phase, State, CanMove
    <3> QED BY <1>8, <3>1, <3>2, <3>3, <3>4 DEF IInv, TypeOK, RollBack, CanMove
  <2>2. LockInv'
    BY <1>8 DEF IInv, RollBack, TypeOK, LockInv, Holding, Become, Record, Release, CanMove
  <2>3. PhaseInv'
    BY <1>8 DEF IInv, RollBack, TypeOK, LockInv, PhaseInv, Holding, Become, Record,
      Release, CanMove
  <2>4. EffectInv'
    BY <1>8 DEF IInv, RollBack, TypeOK, LockInv, PhaseInv, EffectInv, Holding, Become,
      Record, Release, CanMove
  <2>5. StartupInv'
    BY <1>8 DEF IInv, RollBack, TypeOK, LockInv, PhaseInv, StartupInv, Holding, Become,
      Record, Release, CanMove
  <2> QED BY <2>1, <2>2, <2>3, <2>4, <2>5 DEF IInv
<1>9. ASSUME NEW o \in Op, EffectReturns(o) PROVE IInv'
  <2>1. TypeOK' BY <1>9, Types DEF IInv, EffectReturns, TypeOK, Phase, State
  <2>2. LockInv' BY <1>9 DEF IInv, EffectReturns, TypeOK, LockInv, Holding, Become
  <2>3. PhaseInv'
    BY <1>9 DEF IInv, EffectReturns, TypeOK, LockInv, PhaseInv, Holding, Become
  <2>4. EffectInv'
    BY <1>9 DEF IInv, EffectReturns, TypeOK, LockInv, PhaseInv, EffectInv, Holding, Become
  <2>5. StartupInv'
    BY <1>9 DEF IInv, EffectReturns, TypeOK, LockInv, PhaseInv, StartupInv, Holding, Become
  <2> QED BY <2>1, <2>2, <2>3, <2>4, <2>5 DEF IInv
<1>10. ASSUME NEW o \in Op, EffectThrows(o) PROVE IInv'
  <2>1. TypeOK' BY <1>10, Types DEF IInv, EffectThrows, TypeOK, Phase, State
  <2>2. LockInv' BY <1>10 DEF IInv, EffectThrows, TypeOK, LockInv, Holding, Become
  <2>3. PhaseInv'
    BY <1>10 DEF IInv, EffectThrows, TypeOK, LockInv, PhaseInv, Holding, Become
  <2>4. EffectInv'
    BY <1>10 DEF IInv, EffectThrows, TypeOK, LockInv, PhaseInv, EffectInv, Holding, Become
  <2>5. StartupInv'
    BY <1>10 DEF IInv, EffectThrows, TypeOK, LockInv, PhaseInv, StartupInv, Holding, Become
  <2> QED BY <2>1, <2>2, <2>3, <2>4, <2>5 DEF IInv
<1>11. ASSUME NEW o \in Op, Observe(o) PROVE IInv'
  <2>1. TypeOK'
    <3>1. CASE CanMove(o, rec[o], "recovery_required")
      BY <1>11, <3>1, Types DEF IInv, Observe, TypeOK, Phase, State, CanMove
    <3>2. CASE ~CanMove(o, rec[o], "recovery_required")
      BY <1>11, <3>2, Types DEF IInv, Observe, TypeOK, Phase, State, CanMove
    <3> QED BY <1>11, <3>1, <3>2 DEF IInv, TypeOK, Observe, CanMove
  <2>2. LockInv'
    <3>1. CASE CanMove(o, rec[o], "recovery_required")
      BY <1>11, <3>1 DEF IInv, Observe, TypeOK, LockInv, Holding, Become, Record, Freeze,
        Release, CanMove
    <3>2. CASE ~CanMove(o, rec[o], "recovery_required")
      BY <1>11, <3>2 DEF IInv, Observe, TypeOK, LockInv, Holding, Become, Record, Freeze,
        Release, CanMove
    <3> QED BY <1>11, <3>1, <3>2 DEF IInv, TypeOK, Observe, CanMove
  <2>3. PhaseInv'
    BY <1>11 DEF IInv, Observe, TypeOK, LockInv, PhaseInv, Holding, Become, Record,
      Freeze, Release, CanMove
  <2>4. EffectInv'
    <3>1. CASE CanMove(o, rec[o], "recovery_required")
      BY <1>11, <3>1 DEF IInv, Observe, TypeOK, LockInv, PhaseInv, EffectInv, Holding,
        Become, Record, Freeze, Release, CanMove
    <3>2. CASE ~CanMove(o, rec[o], "recovery_required")
      BY SMTT(30), <1>11, <3>2 DEF IInv, Observe, TypeOK, LockInv, PhaseInv, EffectInv, Holding,
        Become, Record, Freeze, Release, CanMove
    <3> QED BY <1>11, <3>1, <3>2 DEF IInv, TypeOK, Observe, CanMove
  <2>5. StartupInv'
    BY <1>11 DEF IInv, Observe, TypeOK, LockInv, PhaseInv, StartupInv, Holding, Become,
      Record, Freeze, Release, CanMove
  <2> QED BY <2>1, <2>2, <2>3, <2>4, <2>5 DEF IInv
<1>12. ASSUME NEW o \in Op, Settle(o) PROVE IInv'
  <2>1. TypeOK'
    <3>1. CASE pc[o] = "completing"
      BY <1>12, <3>1, Types DEF IInv, Settle, TypeOK, Phase, State, CanMove
    <3>2. CASE pc[o] = "requiring"
      BY <1>12, <3>2, Types DEF IInv, Settle, TypeOK, Phase, State, CanMove
    <3> QED BY <1>12, <3>1, <3>2 DEF IInv, TypeOK, Settle, CanMove
  <2>2. LockInv'
    BY <1>12 DEF IInv, Settle, TypeOK, LockInv, Holding, Become, Record, Freeze, Release,
      CanMove
  <2>3. PhaseInv'
    BY <1>12 DEF IInv, Settle, TypeOK, LockInv, PhaseInv, Holding, Become, Record,
      Freeze, Release, CanMove
  <2>4. EffectInv'
    BY <1>12 DEF IInv, Settle, TypeOK, LockInv, PhaseInv, EffectInv, Holding, Become,
      Record, Freeze, Release, CanMove
  <2>5. StartupInv'
    BY <1>12 DEF IInv, Settle, TypeOK, LockInv, PhaseInv, StartupInv, Holding, Become,
      Record, Freeze, Release, CanMove
  <2> QED BY <2>1, <2>2, <2>3, <2>4, <2>5 DEF IInv
<1>13. ASSUME NEW o \in Op, Refused(o), UNCHANGED startup PROVE IInv'
  <2>1. TypeOK' BY <1>13, Types DEF IInv, Refused, TypeOK, Phase, State
  <2>2. LockInv' BY <1>13 DEF IInv, Refused, TypeOK, LockInv, Holding, Become, Release
  <2>3. PhaseInv'
    BY <1>13 DEF IInv, Refused, TypeOK, LockInv, PhaseInv, Holding, Become, Release
  <2>4. EffectInv'
    BY <1>13 DEF IInv, Refused, TypeOK, LockInv, PhaseInv, EffectInv, Holding, Become,
      Release
  <2>5. StartupInv'
    BY <1>13 DEF IInv, Refused, TypeOK, LockInv, PhaseInv, StartupInv, Holding, Become,
      Release
  <2> QED BY <2>1, <2>2, <2>3, <2>4, <2>5 DEF IInv
<1>14. ASSUME NEW o \in Op, BeginEffectFails(o), UNCHANGED startup PROVE IInv'
  <2>1. TypeOK' BY <1>14, Types DEF IInv, BeginEffectFails, TypeOK, Phase, State
  <2>2. LockInv'
    BY <1>14 DEF IInv, BeginEffectFails, TypeOK, LockInv, Holding, Become, Freeze, Release
  <2>3. PhaseInv'
    BY <1>14 DEF IInv, BeginEffectFails, TypeOK, LockInv, PhaseInv, Holding, Become,
      Freeze, Release
  <2>4. EffectInv'
    BY <1>14 DEF IInv, BeginEffectFails, TypeOK, LockInv, PhaseInv, EffectInv, Holding,
      Become, Freeze, Release
  <2>5. StartupInv'
    BY <1>14 DEF IInv, BeginEffectFails, TypeOK, LockInv, PhaseInv, StartupInv, Holding,
      Become, Freeze, Release
  <2> QED BY <2>1, <2>2, <2>3, <2>4, <2>5 DEF IInv
<1>15. ASSUME NEW o \in Op, RollBackFails(o), UNCHANGED startup PROVE IInv'
  <2>1. TypeOK' BY <1>15, Types DEF IInv, RollBackFails, TypeOK, Phase, State
  <2>2. LockInv' BY <1>15 DEF IInv, RollBackFails, TypeOK, LockInv, Holding, Become, Release
  <2>3. PhaseInv'
    BY <1>15 DEF IInv, RollBackFails, TypeOK, LockInv, PhaseInv, Holding, Become, Release
  <2>4. EffectInv'
    BY <1>15 DEF IInv, RollBackFails, TypeOK, LockInv, PhaseInv, EffectInv, Holding,
      Become, Release
  <2>5. StartupInv'
    BY <1>15 DEF IInv, RollBackFails, TypeOK, LockInv, PhaseInv, StartupInv, Holding,
      Become, Release
  <2> QED BY <2>1, <2>2, <2>3, <2>4, <2>5 DEF IInv
<1>16. ASSUME NEW o \in Op, ObserveFails(o), UNCHANGED startup PROVE IInv'
  <2>1. TypeOK' BY <1>16, Types DEF IInv, ObserveFails, TypeOK, Phase, State
  <2>2. LockInv'
    BY <1>16 DEF IInv, ObserveFails, TypeOK, LockInv, Holding, Become, Freeze, Release
  <2>3. PhaseInv'
    BY <1>16 DEF IInv, ObserveFails, TypeOK, LockInv, PhaseInv, Holding, Become, Freeze,
      Release
  <2>4. EffectInv'
    BY <1>16 DEF IInv, ObserveFails, TypeOK, LockInv, PhaseInv, EffectInv, Holding,
      Become, Freeze, Release
  <2>5. StartupInv'
    BY <1>16 DEF IInv, ObserveFails, TypeOK, LockInv, PhaseInv, StartupInv, Holding,
      Become, Freeze, Release
  <2> QED BY <2>1, <2>2, <2>3, <2>4, <2>5 DEF IInv
<1>17. ASSUME NEW o \in Op, RequireFails(o), UNCHANGED startup PROVE IInv'
  <2>1. TypeOK' BY <1>17, Types DEF IInv, RequireFails, TypeOK, Phase, State
  <2>2. LockInv'
    BY <1>17 DEF IInv, RequireFails, TypeOK, LockInv, Holding, Become, Freeze, Release
  <2>3. PhaseInv'
    BY <1>17 DEF IInv, RequireFails, TypeOK, LockInv, PhaseInv, Holding, Become, Freeze,
      Release
  <2>4. EffectInv'
    BY <1>17 DEF IInv, RequireFails, TypeOK, LockInv, PhaseInv, EffectInv, Holding,
      Become, Freeze, Release
  <2>5. StartupInv'
    BY <1>17 DEF IInv, RequireFails, TypeOK, LockInv, PhaseInv, StartupInv, Holding,
      Become, Freeze, Release
  <2> QED BY <2>1, <2>2, <2>3, <2>4, <2>5 DEF IInv
<1>18. ASSUME NEW o \in Op, ReleaseFails(o), UNCHANGED startup PROVE IInv'
  <2>1. TypeOK'
    <3>1. CASE pc[o] = "requiring"
      BY <1>18, <3>1, Types DEF IInv, ReleaseFails, TypeOK, Phase, State, CanMove
    <3>2. CASE pc[o] = "undone"
      BY <1>18, <3>2, Types DEF IInv, ReleaseFails, TypeOK, Phase, State, CanMove
    <3>3. CASE pc[o] = "locked"
      BY <1>18, <3>3, Types DEF IInv, ReleaseFails, TypeOK, Phase, State, CanMove
    <3> QED BY <1>18, <3>1, <3>2, <3>3 DEF IInv, TypeOK, ReleaseFails, CanMove
  <2>2. LockInv'
    BY <1>18 DEF IInv, ReleaseFails, TypeOK, LockInv, Holding, Become, Record, Freeze,
      Release, CanMove
  <2>3. PhaseInv'
    BY <1>18 DEF IInv, ReleaseFails, TypeOK, LockInv, PhaseInv, Holding, Become, Record,
      Freeze, Release, CanMove
  <2>4. EffectInv'
    BY <1>18 DEF IInv, ReleaseFails, TypeOK, LockInv, PhaseInv, EffectInv, Holding,
      Become, Record, Freeze, Release, CanMove
  <2>5. StartupInv'
    BY <1>18 DEF IInv, ReleaseFails, TypeOK, LockInv, PhaseInv, StartupInv, Holding,
      Become, Record, Freeze, Release, CanMove
  <2> QED BY <2>1, <2>2, <2>3, <2>4, <2>5 DEF IInv
<1>19. ASSUME NEW s \in Server, NEW o \in Op, Skip(s, o) PROVE IInv'
  <2>1. TypeOK' BY <1>19, Types DEF IInv, Skip, TypeOK, Phase, State, Turn
  <2>2. LockInv' BY <1>19 DEF IInv, Skip, TypeOK, LockInv, Holding, Freeze, Free, Turn
  <2>3. PhaseInv'
    BY <1>19 DEF IInv, Skip, TypeOK, LockInv, PhaseInv, Holding, Freeze, Free, Turn
  <2>4. EffectInv'
    BY <1>19 DEF IInv, Skip, TypeOK, LockInv, PhaseInv, EffectInv, Holding, Freeze, Free,
      Turn
  <2>5. StartupInv'
    BY <1>19 DEF IInv, Skip, TypeOK, LockInv, PhaseInv, StartupInv, Holding, Freeze,
      Free, Turn
  <2> QED BY <2>1, <2>2, <2>3, <2>4, <2>5 DEF IInv
<1>20. ASSUME NEW s \in Server, NEW o \in Op, Take(s, o) PROVE IInv'
  <2>1. TypeOK' BY <1>20, Types DEF IInv, Take, TypeOK, Phase, State, Turn
  <2>2. LockInv' BY <1>20 DEF IInv, Take, TypeOK, LockInv, Holding, Free, Lock, Turn
  <2>3. PhaseInv'
    BY <1>20 DEF IInv, Take, TypeOK, LockInv, PhaseInv, Holding, Free, Lock, Turn
  <2>4. EffectInv'
    BY <1>20 DEF IInv, Take, TypeOK, LockInv, PhaseInv, EffectInv, Holding, Free, Lock, Turn
  <2>5. StartupInv'
    BY <1>20 DEF IInv, Take, TypeOK, LockInv, PhaseInv, StartupInv, Holding, Free, Lock,
      Turn
  <2> QED BY <2>1, <2>2, <2>3, <2>4, <2>5 DEF IInv
<1>21. ASSUME NEW s \in Server, NEW o \in Op, Undo(s, o) PROVE IInv'
  <2>1. TypeOK'
    <3>1. seen' \in [Server -> [Op -> State \union {"none"}]]
      <4>1. seen \in [Server -> [Op -> State \union {"none"}]] BY DEF IInv, TypeOK
      <4>2. [seen[s] EXCEPT ![o] = "rolling_back"] \in [Op -> State \union {"none"}]
        BY <4>1 DEF State
      <4>3. [seen EXCEPT ![s] = [seen[s] EXCEPT ![o] = "rolling_back"]]
               \in [Server -> [Op -> State \union {"none"}]]
        BY <4>1, <4>2, Put
      <4> QED BY <1>21, <4>1, <4>3 DEF Undo
    <3>2. todo' \in [Server -> SUBSET Op] BY <1>21 DEF IInv, TypeOK, Undo, Decided
    <3>3. rec' \in [Op -> State \union {"none"}] BY <1>21, Types DEF IInv, Undo, State
    <3> QED BY <1>21, <3>1, <3>2, <3>3 DEF IInv, TypeOK, Undo
  <2>2. LockInv'
    BY <1>21 DEF IInv, Undo, TypeOK, LockInv, Holding, Record, CanMove, Recovering,
      Decided, CanUndo, NoEffect
  <2>3. PhaseInv'
    <3>1. rec[o] # "none"
      BY <1>21 DEF IInv, TypeOK, StartupInv, Undo, Recovering, CanUndo, CanMove
    <3>2. pc[o] \notin {"executing", "observing"}
      BY SMTT(30), <1>21 DEF IInv, TypeOK, LockInv, Holding, Undo, Recovering
    <3> QED BY <1>21, <3>1, <3>2 DEF IInv, TypeOK, PhaseInv, Undo, Record
  <2>4. EffectInv'
    BY <1>21 DEF IInv, Undo, TypeOK, LockInv, PhaseInv, EffectInv, Holding, Record,
      CanMove, Recovering, Decided, CanUndo, NoEffect
  <2>5. StartupInv'
    <3>1. rec[o] # "rolled_back" BY <1>21 DEF IInv, Undo, CanUndo, CanMove
    <3>2. o \in todo[s] BY <1>21 DEF Undo, Recovering
    <3>3. seen' = seen \/ seen' = [seen EXCEPT ![s] = [seen[s] EXCEPT ![o] =
      "rolling_back"]]
      BY <1>21 DEF Undo
    <3>4. up' = up /\ frozen' = frozen BY <1>21 DEF Undo
    <3>5. \A u \in Op : rec[u] = "rolled_back" => rec'[u] = "rolled_back"
      BY <1>21, <3>1 DEF IInv, TypeOK, Undo, Record
    <3>6. \A u \in Op, z \in Server : seen'[z][u] # "none" <=> seen[z][u] # "none"
      BY <3>2, <3>3 DEF IInv, TypeOK, StartupInv
    <3>7. \A u \in Op, z \in Server :
            /\ u \in todo'[z] => u \in todo[z]
            /\ u \in todo[z] /\ u \notin todo'[z] => rec'[u] = "rolled_back"
      BY <1>21 DEF IInv, TypeOK, Undo, Decided, Record
    <3> SUFFICES ASSUME NEW z \in Server, NEW u \in Op
                 PROVE  /\ u \in todo'[z] => seen'[z][u] # "none"
                        /\ up[z] = "starting" /\ seen'[z][u] # "none" /\ u \notin
                          todo'[z] =>
                              rec'[u] = "rolled_back" \/ In[u] \in frozen
                        /\ up[z] = "ready" /\ seen'[z][u] # "none" => rec'[u] =
                          "rolled_back"
      BY <3>4 DEF StartupInv
    <3> QED BY <3>5, <3>6, <3>7 DEF IInv, StartupInv
  <2> QED BY <2>1, <2>2, <2>3, <2>4, <2>5 DEF IInv
<1>22. ASSUME NEW s \in Server, NEW o \in Op, Require(s, o) PROVE IInv'
  <2>1. TypeOK'
    BY <1>22, Types DEF IInv, Require, TypeOK, Phase, State, CanMove, Recovering,
      Decided, CanUndo, NoEffect
  <2>2. LockInv'
    BY <1>22 DEF IInv, Require, TypeOK, LockInv, Holding, Record, Freeze, CanMove,
      Recovering, Decided, CanUndo, NoEffect
  <2>3. PhaseInv'
    <3>1. rec'[o] = rec[o] \/ rec[o] # "none"
      BY <1>22 DEF IInv, TypeOK, StartupInv, Require, Recovering, Record, CanMove
    <3>2. pc[o] \notin {"executing", "observing"}
      BY <1>22 DEF IInv, TypeOK, LockInv, Holding, Require, Recovering
    <3>3. \A u \in Op : u # o => rec'[u] = rec[u] BY <1>22 DEF IInv, TypeOK, Require, Record
    <3> QED BY <1>22, <3>1, <3>2, <3>3 DEF IInv, PhaseInv, Require
  <2>4. EffectInv'
    BY <1>22 DEF IInv, Require, TypeOK, LockInv, PhaseInv, EffectInv, Holding, Record,
      Freeze, CanMove, Recovering, Decided, CanUndo, NoEffect
  <2>5. StartupInv'
    BY <1>22 DEF IInv, Require, TypeOK, LockInv, PhaseInv, StartupInv, Holding, Record,
      Freeze, CanMove, Recovering, Decided, CanUndo, NoEffect
  <2> QED BY <2>1, <2>2, <2>3, <2>4, <2>5 DEF IInv
<1>23. ASSUME NEW s \in Server, Leave(s) PROVE IInv'
  <2>1. TypeOK' BY <1>23, Types DEF IInv, Leave, TypeOK, Phase, State
  <2>2. LockInv' BY <1>23 DEF IInv, Leave, TypeOK, LockInv, Holding, Lock
  <2>3. PhaseInv' BY <1>23 DEF IInv, Leave, TypeOK, LockInv, PhaseInv, Holding, Lock
  <2>4. EffectInv'
    BY <1>23 DEF IInv, Leave, TypeOK, LockInv, PhaseInv, EffectInv, Holding, Lock
  <2>5. StartupInv'
    BY <1>23 DEF IInv, Leave, TypeOK, LockInv, PhaseInv, StartupInv, Holding, Lock
  <2> QED BY <2>1, <2>2, <2>3, <2>4, <2>5 DEF IInv
<1>24. ASSUME NEW s \in Server, Serve(s) PROVE IInv'
  <2>1. TypeOK'
    <3>1. up' \in [Server -> {"down", "starting", "ready"}] BY <1>24 DEF IInv, TypeOK, Serve
    <3>2. CASE frozen = {} BY <1>24, <3>1, <3>2 DEF IInv, TypeOK, Serve
    <3>3. CASE frozen # {}
      <4>1. [u \in Op |-> "none"] \in [Op -> State \union {"none"}] OBVIOUS
      <4>2. Forgotten(s) BY <1>24, <3>3 DEF Serve
      <4>3. /\ seen' \in [Server -> [Op -> State \union {"none"}]]
            /\ todo' \in [Server -> SUBSET Op] /\ at' \in [Server -> Op \union {"none"}]
        BY <4>1, <4>2 DEF IInv, TypeOK, Forgotten
      <4> QED BY <1>24, <3>1, <4>3 DEF IInv, TypeOK, Serve
    <3> QED BY <3>2, <3>3
  <2>2. LockInv' BY <1>24 DEF IInv, Serve, TypeOK, LockInv, Holding, Forgotten
  <2>3. PhaseInv' BY <1>24 DEF IInv, Serve, TypeOK, LockInv, PhaseInv, Holding, Forgotten
  <2>4. EffectInv'
    BY <1>24 DEF IInv, Serve, TypeOK, LockInv, PhaseInv, EffectInv, Holding, Forgotten
  <2>5. StartupInv'
    BY <1>24 DEF IInv, Serve, TypeOK, LockInv, PhaseInv, StartupInv, Holding, Forgotten
  <2> QED BY <2>1, <2>2, <2>3, <2>4, <2>5 DEF IInv
<1>25. ASSUME NEW s \in Server, Start(s) PROVE IInv'
  <2>1. TypeOK' BY <1>25, Types DEF IInv, Start, TypeOK, Phase, State, Listed, Complete
  <2>2. LockInv' BY <1>25 DEF IInv, Start, TypeOK, LockInv, Holding, Listed, Complete
  <2>3. PhaseInv'
    BY <1>25 DEF IInv, Start, TypeOK, LockInv, PhaseInv, Holding, Listed, Complete
  <2>4. EffectInv'
    BY <1>25 DEF IInv, Start, TypeOK, LockInv, PhaseInv, EffectInv, Holding, Listed,
      Complete
  <2>5. StartupInv'
    BY <1>25 DEF IInv, Start, TypeOK, LockInv, PhaseInv, StartupInv, Holding, Listed,
      Complete
  <2> QED BY <2>1, <2>2, <2>3, <2>4, <2>5 DEF IInv
<1>26. ASSUME NEW s \in Server, SkipFails(s), UNCHANGED <<pc, missed>> PROVE IInv'
  <2>1. TypeOK' BY <1>26, Types DEF IInv, SkipFails, TypeOK, Phase, State, Turn, Forgotten
  <2>2. LockInv'
    BY <1>26 DEF IInv, SkipFails, TypeOK, LockInv, Holding, Free, Turn, Forgotten
  <2>3. PhaseInv'
    BY <1>26 DEF IInv, SkipFails, TypeOK, LockInv, PhaseInv, Holding, Free, Turn, Forgotten
  <2>4. EffectInv'
    BY <1>26 DEF IInv, SkipFails, TypeOK, LockInv, PhaseInv, EffectInv, Holding, Free,
      Turn, Forgotten
  <2>5. StartupInv'
    BY <1>26 DEF IInv, SkipFails, TypeOK, LockInv, PhaseInv, StartupInv, Holding, Free,
      Turn, Forgotten
  <2> QED BY <2>1, <2>2, <2>3, <2>4, <2>5 DEF IInv
<1>27. ASSUME NEW s \in Server, RecoverFails(s), UNCHANGED <<pc, missed>> PROVE IInv'
  <2>1. TypeOK'
    BY <1>27, Types DEF IInv, RecoverFails, TypeOK, Phase, State, CanMove, Recovering,
      Decided, CanUndo, NoEffect
  <2>2. LockInv'
    BY <1>27 DEF IInv, RecoverFails, TypeOK, LockInv, Holding, Record, Freeze, CanMove,
      Recovering, Decided, CanUndo, NoEffect
  <2>3. PhaseInv'
    BY <1>27 DEF IInv, RecoverFails, TypeOK, LockInv, PhaseInv, Holding, Record, Freeze,
      CanMove, Recovering, Decided, CanUndo, NoEffect
  <2>4. EffectInv'
    BY <1>27 DEF IInv, RecoverFails, TypeOK, LockInv, PhaseInv, EffectInv, Holding,
      Record, Freeze, CanMove, Recovering, Decided, CanUndo, NoEffect
  <2>5. StartupInv'
    BY <1>27 DEF IInv, RecoverFails, TypeOK, LockInv, PhaseInv, StartupInv, Holding,
      Record, Freeze, CanMove, Recovering, Decided, CanUndo, NoEffect
  <2> QED BY <2>1, <2>2, <2>3, <2>4, <2>5 DEF IInv
<1>28. ASSUME NEW s \in Server, LeaveFails(s), UNCHANGED <<pc, missed>> PROVE IInv'
  <2>1. TypeOK' BY <1>28, Types DEF IInv, LeaveFails, TypeOK, Phase, State
  <2>2. LockInv' BY <1>28 DEF IInv, LeaveFails, TypeOK, LockInv, Holding, Freeze, Lock
  <2>3. PhaseInv'
    BY <1>28 DEF IInv, LeaveFails, TypeOK, LockInv, PhaseInv, Holding, Freeze, Lock
  <2>4. EffectInv'
    BY <1>28 DEF IInv, LeaveFails, TypeOK, LockInv, PhaseInv, EffectInv, Holding, Freeze,
      Lock
  <2>5. StartupInv'
    BY <1>28 DEF IInv, LeaveFails, TypeOK, LockInv, PhaseInv, StartupInv, Holding,
      Freeze, Lock
  <2> QED BY <2>1, <2>2, <2>3, <2>4, <2>5 DEF IInv
<1>29. ASSUME NEW s \in Server, Crash(s) PROVE IInv'
  <2>1. TypeOK' BY <1>29, Types DEF IInv, Crash, TypeOK, Phase, State, Forgotten, Orphaned
  <2>2. LockInv' BY <1>29 DEF IInv, Crash, TypeOK, LockInv, Holding, Forgotten, Orphaned
  <2>3. PhaseInv'
    BY <1>29 DEF IInv, Crash, TypeOK, LockInv, PhaseInv, Holding, Forgotten, Orphaned
  <2>4. EffectInv'
    BY <1>29 DEF IInv, Crash, TypeOK, LockInv, PhaseInv, EffectInv, Holding, Forgotten,
      Orphaned
  <2>5. StartupInv'
    BY <1>29 DEF IInv, Crash, TypeOK, LockInv, PhaseInv, StartupInv, Holding, Forgotten,
      Orphaned
  <2> QED BY <2>1, <2>2, <2>3, <2>4, <2>5 DEF IInv
<1>30. CASE UNCHANGED vars
  BY <1>30 DEF IInv, TypeOK, LockInv, PhaseInv, EffectInv, StartupInv
<1> QED
  BY <1>1, <1>2, <1>3, <1>4, <1>5, <1>6, <1>7, <1>8, <1>9, <1>10, <1>11, <1>12, <1>13,
    <1>14, <1>15, <1>16, <1>17, <1>18, <1>19, <1>20, <1>21, <1>22, <1>23, <1>24, <1>25,
    <1>26, <1>27, <1>28, <1>29, <1>30
    DEF Next, JournalStep, Failure, StartupStep, StartupFailure

----------------------------------------------------------------------------
(***************************************************************************)
(* The invariant of the Git journal and the startup of its servers.        *)
(***************************************************************************)
THEOREM GitInvariance == Spec => []IInv
<1>1. Init => IInv
  <2> SUFFICES ASSUME Init PROVE IInv OBVIOUS
  <2> USE DEF Init
  <2>1. TypeOK BY GitAssumption DEF TypeOK, Phase, Busy, State
  <2>2. LockInv BY DEF LockInv, Holding
  <2>3. PhaseInv /\ EffectInv /\ StartupInv BY DEF PhaseInv, EffectInv, StartupInv
  <2> QED BY <2>1, <2>2, <2>3 DEF IInv
<1>2. IInv /\ [Next]_vars => IInv' BY IInvNext
<1> QED BY <1>1, <1>2, PTL DEF Spec

(***************************************************************************)
(* An effect is never hidden by its record, and one that is not committed  *)
(* and nobody works on has its repository frozen or locked, or the freeze  *)
(* could not be written.                                                   *)
(***************************************************************************)
THEOREM UnprovedStaysFrozen == Spec => []UnprovedIsFrozen
<1>1. IInv => UnprovedIsFrozen
  <2> SUFFICES ASSUME IInv, NEW o \in effect
               PROVE  /\ rec[o] \in Tells
                      /\ pc[o] \notin Busy /\ rec[o] # "committed" =>
                            In[o] \in frozen \union missed \/ lock[In[o]] = o
    BY DEF UnprovedIsFrozen
  <2>1. rec[o] \in Tells BY DEF IInv, EffectInv, Tells
  <2>2. pc[o] \notin Busy => pc[o] \in {"failed", "dead", "interrupted"}
    BY DEF IInv, EffectInv, Busy
  <2>3. pc[o] \in {"failed", "dead", "interrupted"} =>
          In[o] \in frozen \union missed \/ lock[In[o]] = o
    BY DEF IInv, EffectInv
  <2> QED BY <2>1, <2>2, <2>3
<1> QED BY <1>1, GitInvariance, PTL

(***************************************************************************)
(* A server that is ready has settled what it found when it started, and   *)
(* no call on any server goes on with one of those operations.             *)
(***************************************************************************)
THEOREM SettledStaysSettled == Spec => []ReadyMeansSettled
<1>1. IInv => ReadyMeansSettled
  <2> SUFFICES ASSUME IInv, NEW s \in Server, NEW o \in Op, up[s] = "ready", seen[s][o] # "none"
               PROVE  rec[o] \in Complete /\ (o \in effect => rec[o] = "committed")
    BY DEF ReadyMeansSettled
  <2>1. rec[o] = "rolled_back" BY DEF IInv, StartupInv
  <2>2. o \notin effect BY <2>1 DEF IInv, EffectInv
  <2> QED BY <2>1, <2>2 DEF Complete
<1> QED BY <1>1, GitInvariance, PTL

(***************************************************************************)
(* No effect happens next to another one of its repository, across calls,  *)
(* servers and crashes: whoever is open holds the one lock.                *)
(***************************************************************************)
THEOREM EffectsSerialized == Spec => EffectsAreSerialized
<1> DEFINE Alone == \A o, u \in Op : o \in effect' \ effect /\ u # o /\ In[u] = In[o] => ~Open(u)
<1>1. IInv /\ [Next]_vars => [Alone]_vars
  <2> SUFFICES ASSUME IInv, Next, NEW o \in Op, NEW u \in Op,
                      o \in effect' \ effect, u # o, In[u] = In[o], Open(u)
               PROVE  FALSE
    OBVIOUS
  <2>1. pc[o] = "executing"
    <3>1. Effect(o)
      BY DEF Next, Begin, JournalStep, Create, Acquire, Prepare, BeginEffect, RollBack,
        EffectReturns, EffectThrows, Observe, Settle, PreEffectFails, Effect, Failure, Refused,
        BeginEffectFails, RollBackFails, ObserveFails, RequireFails, ReleaseFails, Start,
        StartupStep, Skip, Take, Undo, Require, Leave, Serve, StartupFailure, SkipFails,
        RecoverFails, LeaveFails, Crash, disk
    <3> QED BY <3>1 DEF Effect
  <2>2. lock[In[o]] = o BY <2>1 DEF IInv, LockInv, Holding
  <2>3. lock[In[u]] = u BY DEF Open, IInv, LockInv, PhaseInv, Holding
  <2> QED BY <2>2, <2>3
<1> QED BY <1>1, GitInvariance, PTL DEF Spec, EffectsAreSerialized
=============================================================================
