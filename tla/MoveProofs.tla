----------------------------- MODULE MoveProofs ------------------------------
(***************************************************************************)
(* Proofs about MoveSystem, for any number of paths, files and calls and    *)
(* whatever fails, crashes or is changed by other programs.                 *)
(***************************************************************************)
EXTENDS MoveInvariant, WellFoundedInduction, TLAPS

-----------------------------------------------------------------------------
(* The operation a loop has come to.                                        *)

\* The elements of a sequence are of the set it is a sequence over.
LEMMA ElementIn ==
    ASSUME NEW S, NEW s \in Seq(S), NEW i \in 1..Len(s)
    PROVE  s[i] \in S
OBVIOUS

\* A set of natural numbers that is not empty has a least element.
LEMMA Least ==
    ASSUME NEW S, S \subseteq Nat, S # {}
    PROVE  \E m \in S : \A n \in S : m <= n
<1> DEFINE R == {ss \in Nat \X Nat : ss[1] < ss[2]}
<1>1. IsWellFoundedOn(R, Nat) BY NatLessThanWellFounded DEF OpToRel
<1> HIDE DEF R
<1>2. PICK m \in S : \A n \in S : ~(<<n, m>> \in R) BY <1>1, WFMin
<1>3. ASSUME NEW n \in S PROVE m <= n
  <2>1. m \in Nat /\ n \in Nat OBVIOUS
  <2>2. <<n, m>> \notin R BY <1>2
  <2>3. ~(n < m) BY <2>1, <2>2 DEF R
  <2> QED BY <2>1, <2>3
<1> QED BY <1>3

\* Where there is something to do, Here is one of it.
LEMMA HereIn ==
    ASSUME NEW w, pos[w].todo \subseteq Paths, pos[w].todo # {},
           \A p \in pos[w].todo : Plan(On(w))[p] \in Paths
    PROVE  Here(w) \in pos[w].todo
<1> DEFINE Key(p) == IF pos[w].step \in Installing THEN Plan(On(w))[p] ELSE p
           T == {Key(p) : p \in pos[w].todo}
<1>1. \A p \in pos[w].todo : Key(p) \in Nat BY MoveAssumption
<1>2. T \subseteq Nat /\ T # {} BY <1>1
<1>3. PICK m \in T : \A n \in T : m <= n BY <1>2, Least
<1>4. PICK p \in pos[w].todo : Key(p) = m OBVIOUS
<1>5. \A q \in pos[w].todo : Key(p) <= Key(q) BY <1>3, <1>4
<1> QED BY <1>5 DEF Here
\* The plan of a call goes from paths to paths.
LEMMA PlanIs ==
    ASSUME TypeOK, NEW c \in Calls
    PROVE  Sources(c) \subseteq Paths /\ \A p \in Sources(c) : Plan(c)[p] \in Paths
<1>1. task[c] \in Requests BY DEF TypeOK, MemoryOK
<1>2. Plan(c) \in Plans BY <1>1 DEF Requests, Plan
<1>3. PICK S \in SUBSET Paths : Plan(c) \in [S -> Paths] BY <1>2 DEF Plans
<1> QED BY <1>3 DEF Sources

\* A worker that is at work is on the manifest of a call.
LEMMA OnIs ==
    ASSUME TypeOK, TodoInv, NEW w \in Workers, w = Recovery => pos[w].step \notin {"idle", "choose"}
    PROVE  /\ On(w) \in Calls
           /\ w # Recovery => On(w) = w
           /\ w = Recovery => due # <<>> /\ Len(due) \in Nat \ {0} /\ On(w) = due[1].call /\ Head(due) = due[1]
<1>1. CASE w # Recovery BY <1>1 DEF On, Workers
<1>2. CASE w = Recovery
  <2>1. due # <<>> /\ due \in Seq([call : Calls, state : States]) BY <1>2 DEF TodoInv, TypeOK, MemoryOK
  <2>2. Len(due) \in Nat \ {0} BY <2>1
  <2>3. Head(due) = due[1] BY <2>1, <2>2
  <2> DEFINE S == [call : Calls, state : States]
  <2>4. due[1] \in S
    <3>1. due \in Seq(S) /\ 1 \in 1..Len(due) BY <2>1, <2>2
    <3> HIDE DEF S
    <3> QED BY <3>1, ElementIn
  <2>5. due[1].call \in Calls BY <2>4
  <2>6. On(w) = Head(due).call BY <1>2 DEF On
  <2>7. On(w) = due[1].call BY <2>3, <2>6
  <2>8. On(w) \in Calls BY <2>5, <2>7
  <2> QED BY <1>2, <2>1, <2>2, <2>3, <2>7, <2>8
<1> QED BY <1>1, <1>2

\* The operation in hand is one of the manifest's.
LEMMA HereIs ==
    ASSUME TypeOK, TodoInv, OrderInv, NEW w \in Workers, pos[w].step \in Looping
    PROVE  /\ On(w) \in Calls
           /\ Here(w) \in pos[w].todo /\ Here(w) \in Sources(On(w)) /\ Here(w) \in Paths
           /\ Target(w) \in Paths /\ Target(w) = Plan(On(w))[Here(w)]
           /\ Object(w) = journal[On(w)].object[Here(w)]
<1>1. On(w) \in Calls BY OnIs DEF Looping
<1>2. pos[w].todo # {} /\ pos[w].todo \subseteq Sources(On(w)) BY DEF TodoInv
<1>3. Sources(On(w)) \subseteq Paths /\ \A p \in Sources(On(w)) : Plan(On(w))[p] \in Paths BY <1>1, PlanIs
<1>4. Here(w) \in pos[w].todo BY <1>2, <1>3, HereIn
<1> QED BY <1>1, <1>2, <1>3, <1>4 DEF Target, Object

-----------------------------------------------------------------------------
(* How a worker's position changes.                                         *)

Still(w) == \A v \in Workers \ {w} : pos'[v] = pos[v]

LEMMA GotoIs ==
    ASSUME TypeOK, NEW w \in Workers, NEW s \in CallSteps \cup RunSteps, Goto(w, s)
    PROVE  /\ pos' \in [Workers -> Positions] /\ Still(w)
           /\ pos'[w].step = s /\ pos'[w].todo = pos[w].todo /\ pos'[w].rolling = pos[w].rolling
           /\ pos'[w].tries = pos[w].tries
<1>1. pos \in [Workers -> Positions] BY DEF TypeOK, MemoryOK
<1>2. pos[w] \in Positions BY <1>1
<1>3. pos' = [pos EXCEPT ![w] = [pos[w] EXCEPT !.step = s]] BY DEF Goto
<1>4. [pos[w] EXCEPT !.step = s] \in Positions BY <1>2 DEF Positions
<1>5. [pos[w] EXCEPT !.step = s].step = s /\ [pos[w] EXCEPT !.step = s].todo = pos[w].todo
      /\ [pos[w] EXCEPT !.step = s].rolling = pos[w].rolling
      /\ [pos[w] EXCEPT !.step = s].tries = pos[w].tries BY <1>2 DEF Positions
<1>6. pos'[w] = [pos[w] EXCEPT !.step = s] BY <1>1, <1>3
<1>7. \A v \in Workers \ {w} : pos'[v] = pos[v] BY <1>1, <1>3
<1>8. pos' \in [Workers -> Positions] BY <1>1, <1>3, <1>4
<1> QED BY <1>5, <1>6, <1>7, <1>8 DEF Still

LEMMA LoopIs ==
    ASSUME TypeOK, NEW w \in Workers, NEW s \in CallSteps \cup RunSteps, On(w) \in Calls, Loop(w, s)
    PROVE  /\ pos' \in [Workers -> Positions] /\ Still(w)
           /\ pos'[w].step = s /\ pos'[w].todo = Sources(On(w)) /\ pos'[w].rolling = pos[w].rolling
<1>1. pos \in [Workers -> Positions] BY DEF TypeOK, MemoryOK
<1>2. pos[w] \in Positions BY <1>1
<1> DEFINE r == [pos[w] EXCEPT !.step = s, !.todo = Sources(On(w))]
<1>3. pos' = [pos EXCEPT ![w] = r] BY <1>1 DEF Loop
<1>4. Sources(On(w)) \in SUBSET Paths BY PlanIs
<1>5. r \in Positions /\ r.step = s /\ r.todo = Sources(On(w)) /\ r.rolling = pos[w].rolling
  BY <1>2, <1>4 DEF Positions
<1> HIDE DEF r
<1>6. pos'[w] = r BY <1>1, <1>3
<1>7. \A v \in Workers \ {w} : pos'[v] = pos[v] BY <1>1, <1>3
<1>8. pos' \in [Workers -> Positions] BY <1>1, <1>3, <1>5
<1> QED BY <1>5, <1>6, <1>7, <1>8 DEF Still

\* The last operation of a loop, or one before it.
LEMMA DoneIs ==
    ASSUME TypeOK, NEW w \in Workers, NEW s \in CallSteps \cup RunSteps,
           NEW n \in CallSteps \cup RunSteps, On(w) \in Calls, Done(w, s, n)
    PROVE  /\ pos' \in [Workers -> Positions] /\ Still(w)
           /\ pos'[w].rolling = pos[w].rolling
           /\ \/ /\ pos[w].todo = {Here(w)} /\ pos'[w].step = n /\ pos'[w].todo = Sources(On(w))
              \/ /\ pos[w].todo # {Here(w)} /\ pos'[w].step = s
                 /\ pos'[w].todo = pos[w].todo \ {Here(w)}
<1>1. pos \in [Workers -> Positions] BY DEF TypeOK, MemoryOK
<1>2. pos[w] \in Positions BY <1>1
<1> DEFINE last == pos[w].todo = {Here(w)}
           r == [pos[w] EXCEPT !.step = IF last THEN n ELSE s,
                               !.todo = IF last THEN Sources(On(w)) ELSE pos[w].todo \ {Here(w)}]
<1>3. pos' = [pos EXCEPT ![w] = r] BY <1>1, <1>2 DEF Done, Positions
<1>4. Sources(On(w)) \in SUBSET Paths BY PlanIs
<1>5. /\ r \in Positions /\ r.rolling = pos[w].rolling
      /\ r.step = IF last THEN n ELSE s
      /\ r.todo = IF last THEN Sources(On(w)) ELSE pos[w].todo \ {Here(w)}
  BY <1>2, <1>4 DEF Positions
<1> HIDE DEF r
<1>6. pos'[w] = r BY <1>1, <1>3
<1>7. \A v \in Workers \ {w} : pos'[v] = pos[v] BY <1>1, <1>3
<1>8. pos' \in [Workers -> Positions] BY <1>1, <1>3, <1>5
<1> QED BY <1>5, <1>6, <1>7, <1>8 DEF Still

-----------------------------------------------------------------------------
(* How a manifest changes.                                                  *)

LEMMA WriteIs ==
    ASSUME TypeOK, NEW w \in Workers, On(w) \in Calls, NEW m \in Manifests, Write(w, m)
    PROVE  /\ journal' \in [Calls -> Manifests] /\ stale' \subseteq Workers \X Calls
           /\ journal'[On(w)] = m /\ \A d \in Calls \ {On(w)} : journal'[d] = journal[d]
<1>1. journal \in [Calls -> Manifests] /\ stale \subseteq Workers \X Calls
  BY DEF TypeOK, RecordsOK, MemoryOK
<1>2. journal' = [journal EXCEPT ![On(w)] = m] BY DEF Write
<1>3. journal'[On(w)] = m /\ \A d \in Calls \ {On(w)} : journal'[d] = journal[d] BY <1>1, <1>2
<1>4. journal' \in [Calls -> Manifests] BY <1>1, <1>2
<1>5. Readers(On(w)) \subseteq Workers BY DEF Readers, Workers
<1>6. (Readers(On(w)) \ {w}) \X {On(w)} \subseteq Workers \X Calls BY <1>5
<1>7. stale' = stale \cup ((Readers(On(w)) \ {w}) \X {On(w)}) BY DEF Write
<1>8. stale' \subseteq Workers \X Calls BY <1>1, <1>6, <1>7
<1> QED BY <1>3, <1>4, <1>8

LEMMA BecomeIs ==
    ASSUME TypeOK, NEW w \in Workers, On(w) \in Calls, NEW s \in States, Become(w, s)
    PROVE  /\ journal' \in [Calls -> Manifests] /\ stale' \subseteq Workers \X Calls
           /\ journal'[On(w)].state = s /\ journal'[On(w)].object = journal[On(w)].object
           /\ \A d \in Calls \ {On(w)} : journal'[d] = journal[d]
<1> DEFINE m == [journal[On(w)] EXCEPT !.state = s]
<1>1. journal[On(w)] \in Manifests BY DEF TypeOK, RecordsOK
<1>2. m \in Manifests /\ m.state = s /\ m.object = journal[On(w)].object BY <1>1 DEF Manifests
<1>3. Write(w, m) BY DEF Become
<1> HIDE DEF m
<1> QED BY <1>2, <1>3, WriteIs

-----------------------------------------------------------------------------
(* A step of a worker on its manifest.                                      *)

\* The manifest of another call is left alone, and that of this one names the
\* files it named.
Keeps(w) ==
    /\ \A d \in Calls \ {On(w)} : journal'[d] = journal[d]
    /\ journal'[On(w)].state # "none" /\ journal'[On(w)].object = journal[On(w)].object

\* What no step of a worker changes, or only in that a call gives the lock back.
Rests(w) ==
    /\ UNCHANGED <<order, task, frozen, due, crashes, uses, foreign, touched, removed, derailed, raced>>
    /\ misled' = misled \/ (w \in Calls /\ misled' = misled \cup {w})
    /\ lock' = lock \/ (w \in Calls /\ Release(w) /\ pos'[w].step \notin Held)

\* Where a worker gets.
Arrives(w) ==
    /\ w \in Calls => /\ pos'[w].step \in CallSteps \ {"idle", "waiting", "inspect"}
                      /\ pos'[w].step \in Held => lock = w
    /\ w = Recovery => pos'[w].step \in RunSteps \ {"idle", "choose"}
    /\ pos'[w].step \in Looping => pos'[w].todo # {} /\ pos'[w].todo \subseteq Sources(On(w))

\* A worker that is at work is a call, or the run, with a manifest.
LEMMA WorksIs ==
    ASSUME BaseInv, NEW w \in Workers, Works(w)
    PROVE  /\ w = Recovery \/ w \in Calls
           /\ w \in Calls => w # Recovery /\ Active(w) /\ On(w) = w
           /\ w = Recovery => lock = Recovery /\ pos[w].step \notin {"idle", "choose"}
           /\ On(w) \in Calls
           /\ pos[w].step # "inspect" => On(w) \in Present
<1>1. Recovery \notin Calls BY MoveAssumption
<1>2. CASE w = Recovery
  <2>1. lock = Recovery /\ pos[w].step \notin {"idle", "choose"} BY <1>2 DEF Works, BaseInv, LockInv
  <2>2. On(w) \in Calls /\ On(w) = due[1].call /\ Len(due) \in Nat \ {0} BY <1>2, <2>1, OnIs DEF BaseInv
  <2>3. On(w) \in Present BY <2>2 DEF BaseInv, TodoInv
  <2> QED BY <1>1, <1>2, <2>1, <2>2, <2>3
<1>3. CASE w # Recovery
  <2>1. w \in Calls /\ Active(w) BY <1>3 DEF Works, Workers
  <2>2. On(w) = w BY <1>3 DEF On
  <2> QED BY <1>3, <2>1, <2>2 DEF BaseInv, OrderInv
<1> QED BY <1>2, <1>3

\* Where the lock was not taken next to a rollback, one worker is at work.
LEMMA Alone ==
    ASSUME BaseInv, ~raced, NEW w \in Workers, NEW v \in Workers, Works(w), Works(v)
    PROVE  v = w
<1>1. None # Recovery /\ Recovery \notin Calls /\ None \notin Calls BY MoveAssumption
<1>2. \A u \in Workers : Works(u) => (u = Recovery /\ lock = Recovery) \/ (u \in Calls /\ Active(u) /\ u # Recovery)
  BY WorksIs
<1>3. \A c \in Calls : Active(c) => lock \in {c, None} BY DEF BaseInv, LockInv
<1>4. \A c, d \in Calls : Active(c) /\ Active(d) => c = d BY DEF BaseInv, LockInv
<1> QED BY <1>1, <1>2, <1>3, <1>4

\* Such a step keeps who works, and what is known of the order and the run.
LEMMA StepKeepsBase ==
    ASSUME BaseInv, NEW w \in Workers, On(w) \in Present,
           w = Recovery => lock = Recovery /\ due # <<>>,
           w \in Calls => pos[w].step \notin {"idle", "waiting", "inspect", "over"},
           w \in Calls /\ ~raced => Active(w),
           Rests(w), Still(w), Keeps(w), Arrives(w), TypeOK'
    PROVE  BaseInv'
<1>1. (w \in Calls /\ w # Recovery /\ On(w) = w) \/ (w = Recovery /\ w \notin Calls)
  <2>1. CASE w = Recovery BY <2>1, MoveAssumption
  <2>2. CASE w # Recovery BY <2>2 DEF Workers, On
  <2> QED BY <2>1, <2>2
<1>2. UNCHANGED <<order, task, due, raced>> BY DEF Rests, history
<1>3. On(w) \in Calls BY DEF Present
<1>4. Present' = Present
  <2>1. \A d \in Calls : journal'[d].state # "none" <=> journal[d].state # "none"
    BY <1>3 DEF Keeps, Present
  <2> QED BY <2>1 DEF Present
<1>5. \A v \in Workers \ {w} : pos'[v] = pos[v] BY DEF Still
<1>6. \A c \in Calls : Sources(c)' = Sources(c) BY <1>2 DEF Sources, Plan
<1>7. \A v \in Workers : On(v)' = On(v) BY <1>2 DEF On
<1>8. lock' = lock \/ (w \in Calls /\ lock = w /\ lock' = None /\ pos'[w].step \notin Held)
  BY DEF Rests, Release
<1>9. lock # Recovery => w # Recovery BY MoveAssumption
<1>10. None # Recovery /\ None \notin Calls /\ Recovery \notin Calls BY MoveAssumption
<1>11. Calls \subseteq Workers /\ Recovery \in Workers BY DEF Workers
<1>12. LockInv'
  <2>1. \A c \in Calls : pos'[c].step \in CallSteps BY <1>5, <1>11 DEF BaseInv, LockInv, Arrives
  <2>2. pos'[Recovery].step \in RunSteps BY <1>5, <1>11 DEF BaseInv, LockInv, Arrives
  <2>3. \A c \in Calls : pos'[c].step \in Held => lock' = c
    BY <1>5, <1>8, <1>11 DEF BaseInv, LockInv, Arrives
  <2>4. \A c \in Calls : pos'[c].step = "waiting" => lock' = Recovery
    BY <1>5, <1>8, <1>10, <1>11 DEF BaseInv, LockInv, Arrives
  <2>5. pos'[Recovery].step # "idle" <=> lock' = Recovery
    <3>1. CASE w = Recovery BY <3>1, <1>8, <1>10 DEF Arrives
    <3>2. CASE w # Recovery BY <3>2, <1>5, <1>8, <1>10, <1>11 DEF BaseInv, LockInv
    <3> QED BY <3>1, <3>2
  <2>6. ASSUME ~raced'
        PROVE  /\ \A c \in Calls : Active(c)' => lock' \in {c, None}
               /\ \A c, d \in Calls : Active(c)' /\ Active(d)' => c = d
    <3>1. ~raced BY <2>6, <1>2
    <3>2. \A c \in Calls : Active(c)' => Active(c)
      <4>1. \A c \in Calls \ {w} : Active(c)' => Active(c) BY <1>5, <1>11 DEF Active
      <4>2. w \in Calls => Active(w) BY <3>1
      <4> QED BY <4>1, <4>2
    <3>3. \A c \in Calls : Active(c) => lock \in {c, None} BY <3>1 DEF BaseInv, LockInv
    <3>4. \A c, d \in Calls : Active(c) /\ Active(d) => c = d BY <3>1 DEF BaseInv, LockInv
    <3> QED BY <1>8, <3>2, <3>3, <3>4
  <2> HIDE DEF Active
  <2> QED BY <2>1, <2>2, <2>3, <2>4, <2>5, <2>6 DEF LockInv
<1>13. OrderInv'
  <2>1. \A c \in Calls : pos'[c].step \in {"idle", "waiting", "inspect"} => journal'[c].state = "none"
    <3> SUFFICES ASSUME NEW c \in Calls, pos'[c].step \in {"idle", "waiting", "inspect"}
                 PROVE  journal'[c].state = "none"
      OBVIOUS
    <3>1. c # w BY DEF Arrives
    <3>2. pos'[c] = pos[c] BY <3>1, <1>5, <1>11
    <3>3. journal[c].state = "none" BY <3>2 DEF BaseInv, OrderInv
    <3>4. c # On(w) BY <3>3 DEF Present
    <3> QED BY <3>3, <3>4 DEF Keeps
  <2>2. \A c \in Calls : Active(c)' /\ pos'[c].step # "inspect" => c \in Present'
    <3> SUFFICES ASSUME NEW c \in Calls, Active(c)', pos'[c].step # "inspect" PROVE c \in Present
      BY <1>4
    <3>1. CASE c = w BY <3>1, <1>1
    <3>2. CASE c # w
      <4>1. pos'[c] = pos[c] BY <3>2, <1>5, <1>11
      <4>2. Active(c) BY <4>1 DEF Active
      <4> QED BY <4>1, <4>2 DEF BaseInv, OrderInv
    <3> QED BY <3>1, <3>2
  <2>3. \A c \in Calls : pos'[c].step # "over" => Sources(c)' # {}
    <3> SUFFICES ASSUME NEW c \in Calls, pos'[c].step # "over" PROVE Sources(c) # {} BY <1>6
    <3>1. CASE c = w BY <3>1 DEF BaseInv, OrderInv
    <3>2. CASE c # w BY <3>2, <1>5, <1>11 DEF BaseInv, OrderInv
    <3> QED BY <3>1, <3>2
  <2>4. \A c \in Present' : Sources(c)' # {} /\ \E i \in 1..Len(order') : order'[i] = c
    BY <1>2, <1>4, <1>6 DEF BaseInv, OrderInv, Present
  <2>5. \A c \in Present' : \A p \in Sources(c)' : journal'[c].object[p] \in Objects
    <3> SUFFICES ASSUME NEW c \in Present, NEW p \in Sources(c)
                 PROVE  journal'[c].object[p] \in Objects
      BY <1>4, <1>6 DEF Present
    <3>1. journal[c].object[p] \in Objects BY DEF BaseInv, OrderInv
    <3>2. c \in Calls BY DEF Present
    <3>3. journal'[c].object = journal[c].object BY <3>2 DEF Keeps
    <3> QED BY <3>1, <3>3
  <2>6. \A i \in 1..Len(order') : order'[i] \in Present' BY <1>2, <1>4 DEF BaseInv, OrderInv
  <2>7. \A i, j \in 1..Len(order') : order'[i] = order'[j] => i = j BY <1>2 DEF BaseInv, OrderInv
  <2> QED BY <2>1, <2>2, <2>3, <2>4, <2>5, <2>6, <2>7 DEF OrderInv
<1>14. TodoInv'
  <2>1. ASSUME NEW v \in Workers, pos'[v].step \in Looping
        PROVE  pos'[v].todo # {} /\ pos'[v].todo \subseteq Sources(On(v))'
    <3>0. Sources(On(v))' = Sources(On(v)) BY <1>2, <1>7 DEF Sources, Plan
    <3>1. CASE v = w BY <3>0, <3>1, <2>1 DEF Arrives
    <3>2. CASE v # w
      <4>1. pos'[v] = pos[v] BY <3>2, <1>5
      <4>2. pos[v].todo # {} /\ pos[v].todo \subseteq Sources(On(v)) BY <4>1, <2>1 DEF BaseInv, TodoInv
      <4> QED BY <3>0, <4>1, <4>2
    <3> QED BY <3>1, <3>2
  <2>2. \A i \in 1..Len(due') : due'[i].call \in Present' BY <1>2, <1>4 DEF BaseInv, TodoInv
  <2>3. pos'[Recovery].step \notin {"idle", "choose"} => due' # <<>>
    <3>1. CASE w = Recovery BY <3>1, <1>2
    <3>2. CASE w # Recovery BY <3>2, <1>2, <1>5, <1>11 DEF BaseInv, TodoInv
    <3> QED BY <3>1, <3>2
  <2> QED BY <2>1, <2>2, <2>3 DEF TodoInv
<1> QED BY <1>12, <1>13, <1>14 DEF BaseInv

\* A worker that has a manifest in hand.
Ready(w) ==
    \/ Works(w) /\ pos[w].step # "inspect"
    \/ w = Recovery /\ lock = Recovery /\ due # <<>>

LEMMA ReadyIs ==
    ASSUME BaseInv, NEW w \in Workers, Ready(w)
    PROVE  /\ On(w) \in Present /\ On(w) \in Calls
           /\ w = Recovery => lock = Recovery /\ due # <<>> /\ On(w) = due[1].call /\ Len(due) \in Nat \ {0}
           /\ w \in Calls => /\ Active(w) /\ On(w) = w /\ w # Recovery
                             /\ pos[w].step \notin {"idle", "waiting", "inspect", "over"}
<1>1. Recovery \notin Calls BY MoveAssumption
<1>2. CASE w = Recovery
  <2>1. lock = Recovery /\ due # <<>>
    BY <1>2, WorksIs DEF Ready, BaseInv, TodoInv
  <2>2. Len(due) \in Nat \ {0} /\ Head(due) = due[1] BY <2>1 DEF BaseInv, TypeOK, MemoryOK
  <2>3. On(w) = due[1].call BY <1>2, <2>2 DEF On
  <2>4. On(w) \in Present BY <2>2, <2>3 DEF BaseInv, TodoInv
  <2> QED BY <1>1, <1>2, <2>1, <2>2, <2>3, <2>4 DEF Present
<1>3. CASE w # Recovery
  <2>1. Works(w) /\ pos[w].step # "inspect" BY <1>3 DEF Ready
  <2>2. w \in Calls /\ Active(w) /\ On(w) = w /\ On(w) \in Present BY <1>3, <2>1, WorksIs
  <2>3. pos[w].step \notin {"idle", "waiting", "inspect", "over"}
    BY <2>1, <2>2 DEF Active, Held, Undoing, Committing, Rolling
  <2> QED BY <1>3, <2>2, <2>3
<1> QED BY <1>2, <1>3

\* While it has the lock or works where nobody took it, nobody else works.
LEMMA OthersRest ==
    ASSUME BaseInv, ~raced, NEW w \in Workers, Ready(w), NEW v \in Workers, v # w
    PROVE  ~Works(v)
<1>1. None # Recovery /\ Recovery \notin Calls /\ None \notin Calls BY MoveAssumption
<1>2. SUFFICES ASSUME Works(v) PROVE FALSE OBVIOUS
<1>3. (v = Recovery /\ lock = Recovery) \/ (v \in Calls /\ v # Recovery /\ Active(v)) BY <1>2, WorksIs
<1>4. (w = Recovery /\ lock = Recovery) \/ (w \in Calls /\ w # Recovery /\ Active(w))
  BY ReadyIs DEF Workers
<1>5. \A c \in Calls : Active(c) => lock \in {c, None} BY DEF BaseInv, LockInv
<1>6. \A c, d \in Calls : Active(c) /\ Active(d) => c = d BY DEF BaseInv, LockInv
<1> QED BY <1>1, <1>3, <1>4, <1>5, <1>6

LEMMA StepKeeps ==
    ASSUME MoveInv, NEW w \in Workers, Ready(w), Rests(w), Still(w), Keeps(w), Arrives(w), TypeOK',
           ~raced => /\ StageInv' /\ FileInv'
                     /\ Works(w)' => PhaseAt(w)' /\ LoopAt(w)'
    PROVE  MoveInv'
<1>0. BaseInv BY DEF MoveInv
<1>1. BaseInv' BY <1>0, ReadyIs, StepKeepsBase
<1>2. UNCHANGED <<order, task, due, raced>> BY DEF Rests, history
<1>3. SUFFICES ASSUME ~raced PROVE WorkInv' BY <1>1, <1>2 DEF MoveInv
<1>4. WorkInv BY <1>3 DEF MoveInv
<1>5. On(w) \in Calls /\ On(w) \in Present BY <1>0, ReadyIs
<1>6. \A v \in Workers \ {w} : pos'[v] = pos[v] BY DEF Still
<1>7. Calls \subseteq Workers /\ Recovery \in Workers BY DEF Workers
<1>8. \A v \in Workers \ {w} : ~Works(v) BY <1>0, <1>3, OthersRest
<1>9. Present' = Present
  <2>1. \A d \in Calls : journal'[d].state # "none" <=> journal[d].state # "none"
    BY <1>5 DEF Keeps, Present
  <2> QED BY <2>1 DEF Present
<1>10. RunInv'
  <2> SUFFICES ASSUME lock' = Recovery PROVE RunInv' BY DEF RunInv
  <2>1. lock = Recovery /\ w = Recovery
    <3>1. None # Recovery /\ Recovery \notin Calls BY MoveAssumption
    <3>2. lock = Recovery BY <3>1 DEF Rests, Release
    <3>3. w \in Calls => lock \in {w, None} BY <1>0, <1>3, ReadyIs DEF BaseInv, LockInv
    <3> QED BY <3>1, <3>2, <3>3 DEF Workers
  <2>2. On(w) = due[1].call /\ Len(due) \in Nat \ {0} BY <1>0, <2>1, ReadyIs
  <2>3. \A d \in Present' : journal'[d].state \in Final \/ \E i \in 1..Len(due') : due'[i].call = d
    <3> SUFFICES ASSUME NEW d \in Present
                 PROVE  journal'[d].state \in Final \/ \E i \in 1..Len(due) : due[i].call = d
      BY <1>2, <1>9
    <3>1. CASE d = On(w) BY <3>1, <2>2
    <3>2. CASE d # On(w)
      <4>1. journal'[d] = journal[d] BY <3>2 DEF Keeps, Present
      <4>2. journal[d].state \in Final \/ \E i \in 1..Len(due) : due[i].call = d
        BY <1>4, <2>1 DEF WorkInv, RunInv
      <4> QED BY <4>1, <4>2
    <3> QED BY <3>1, <3>2
  <2>4. \A i, j \in 1..Len(due) : due[i].call = due[j].call => i = j BY <1>4, <2>1 DEF WorkInv, RunInv
  <2>5. \A i \in 1..Len(due') : (i # 1 \/ pos'[Recovery].step = "choose") =>
          due'[i].state = journal'[due'[i].call].state
    <3> SUFFICES ASSUME NEW i \in 1..Len(due), i # 1 PROVE due[i].state = journal'[due[i].call].state
      BY <1>2, <2>1 DEF Arrives
    <3>1. due[i].call # On(w) /\ due[i].call \in Present
      BY <2>2, <2>4, <1>0 DEF BaseInv, TodoInv
    <3>2. journal'[due[i].call] = journal[due[i].call] BY <3>1 DEF Keeps, Present
    <3>3. due[i].state = journal[due[i].call].state BY <1>4, <2>1 DEF WorkInv, RunInv
    <3> QED BY <3>2, <3>3
  <2> QED BY <1>2, <2>3, <2>4, <2>5 DEF RunInv
<1>11. RecoveredBeforeMove'
  <2> SUFFICES ASSUME NEW c \in Calls, pos'[c].step = "inspect" PROVE FALSE
    BY DEF RecoveredBeforeMove
  <2>1. c # w BY DEF Arrives
  <2>2. pos[c].step = "inspect" /\ c # Recovery BY <2>1, <1>6, <1>7, MoveAssumption
  <2>3. Works(c) BY <2>2 DEF Works, Active, Held
  <2> QED BY <2>1, <2>3, <1>7, <1>8
<1>12. ASSUME NEW v \in Workers, Works(v)' PROVE PhaseAt(v)' /\ LoopAt(v)'
  <2>1. CASE v = w BY <2>1, <1>3, <1>12
  <2>2. CASE v # w
    <3>1. pos'[v] = pos[v] BY <2>2, <1>6
    <3>2. Works(v) BY <3>1, <1>12 DEF Works, Active
    <3> QED BY <2>2, <3>2, <1>8
  <2> QED BY <2>1, <2>2
<1> QED BY <1>3, <1>10, <1>11, <1>12 DEF WorkInv

\* The position of a worker tells that it has a manifest in hand.
LEMMA AtWork ==
    ASSUME BaseInv, NEW w \in Workers,
           pos[w].step \in (Held \cup Undoing \cup RunSteps) \ {"inspect", "idle", "choose"}
    PROVE  /\ Ready(w) /\ Works(w) /\ On(w) \in Present /\ On(w) \in Calls /\ On(w)' = (IF w = Recovery THEN Head(due').call ELSE w)
           /\ w \in Calls => On(w) = w /\ w # Recovery
<1>1. CASE w = Recovery
  <2>1. Works(w) BY <1>1 DEF Works
  <2> QED BY <1>1, <2>1, ReadyIs DEF Ready, On
<1>2. CASE w # Recovery
  <2>1. w \in Calls BY <1>2 DEF Workers
  <2>2. pos[w].step \in CallSteps BY <2>1 DEF BaseInv, LockInv
  <2>3. pos[w].step \in Held \cup Undoing
    BY <2>2 DEF CallSteps, RunSteps, Held, Undoing, Rolling, Committing
  <2>4. Works(w) BY <1>2, <2>3 DEF Works, Active
  <2> QED BY <1>2, <2>4, ReadyIs DEF Ready, On
<1> QED BY <1>1, <1>2

-----------------------------------------------------------------------------
(* What such a step changes: the manifest, or the names of its files.       *)

LEMMA StepTypes ==
    ASSUME TypeOK, NEW w \in Workers, Rests(w), pos' \in [Workers -> Positions], DiskOK', RecordsOK',
           stale' \subseteq Workers \X Calls, faults' \in Nat
    PROVE  TypeOK'
<1>1. UNCHANGED <<task, frozen, due, crashes, uses, foreign, touched, removed, derailed, raced>>
  BY DEF Rests
<1>2. lock' \in Workers \cup {None} BY DEF Rests, Release, TypeOK, MemoryOK
<1>3. MemoryOK' BY <1>1, <1>2 DEF TypeOK, MemoryOK
<1>4. misled' \subseteq Calls BY DEF Rests, TypeOK, HistoryOK
<1>5. HistoryOK' BY <1>1, <1>4 DEF TypeOK, HistoryOK
<1> QED BY <1>3, <1>5 DEF TypeOK

Named(o) ==
    \/ o \in removed
    \/ \E q \in Paths : at[q] = o
    \/ \E d \in Calls : \E q \in Paths : stage[d][q] = o

\* Files that had a name and have one.
LEMMA FilesKeep ==
    ASSUME BaseInv, FileInv, task' = task, Present' = Present,
           \A d \in Present : journal'[d].object = journal[d].object,
           (\A d \in Present : Anchored(d)) => \A o \in Objects : Named(o) => Named(o)'
    PROVE  FileInv'
<1>1. \A d \in Present : Anchored(d)' <=> Anchored(d)
  <2> SUFFICES ASSUME NEW d \in Present PROVE Anchored(d)' <=> Anchored(d) OBVIOUS
  <2>1. journal'[d].object = journal[d].object OBVIOUS
  <2>2. Sources(d)' = Sources(d) /\ Plan(d)' = Plan(d) BY DEF Sources, Plan
  <2> QED BY <2>1, <2>2 DEF Anchored, Anchor
<1>2. CASE \E d \in Present : ~Anchored(d) BY <1>1, <1>2 DEF FileInv
<1>3. CASE \A d \in Present : Anchored(d)
  <2>1. \A o \in Objects : Named(o) => Named(o)' BY <1>3
  <2>2. FilesKept BY <1>3 DEF FileInv
  <2>3. \A d \in Present : \A p \in Sources(d) : Named(journal[d].object[p])
    BY <2>2 DEF FilesKept, Named
  <2>4. \A d \in Present : \A p \in Sources(d) : journal[d].object[p] \in Objects BY DEF BaseInv, OrderInv
  <2>5. ASSUME NEW d \in Present', NEW p \in Sources(d)'
        PROVE  \/ journal'[d].object[p] \in removed'
               \/ \E q \in Paths : at'[q] = journal'[d].object[p]
               \/ \E e \in Calls : \E q \in Paths : stage'[e][q] = journal'[d].object[p]
    <3>1. d \in Present /\ p \in Sources(d) BY DEF Sources, Plan
    <3>2. PICK o \in Objects : o = journal[d].object[p] BY <2>4, <3>1
    <3>3. Named(o)' BY <2>1, <2>3, <3>1, <3>2
    <3>4. journal'[d].object[p] = o BY <3>1, <3>2
    <3> QED BY <3>3, <3>4 DEF Named
  <2>6. FilesKept' BY <2>5 DEF FilesKept
  <2> QED BY <2>6 DEF FileInv
<1> QED BY <1>2, <1>3

LEMMA KeepsPresent ==
    ASSUME NEW w, On(w) \in Present, Keeps(w)
    PROVE  Present' = Present /\ \A d \in Present : journal'[d].object = journal[d].object
<1>1. On(w) \in Calls BY DEF Present
<1>2. \A d \in Calls : journal'[d].state # "none" <=> journal[d].state # "none"
  BY <1>1 DEF Keeps, Present
<1> QED BY <1>2 DEF Present, Keeps

Installed == {Pending, "commit_decided", "committed"}

\* A step that writes the manifest, or nothing.
LEMMA LogStep ==
    ASSUME MoveInv, NEW w \in Workers, Ready(w), Rests(w), pos' \in [Workers -> Positions], Still(w),
           Arrives(w), Keeps(w), UNCHANGED <<at, bytes, stage>>, dir' \in Directories, RecordsOK',
           stale' \subseteq Workers \X Calls, faults' \in Nat,
           ~raced => /\ journal'[On(w)].state \in Installed =>
                          journal[On(w)].state \in Installed \/ \A p \in Sources(On(w)) : stage[On(w)][p] = None
                     /\ Works(w)' => PhaseAt(w)' /\ LoopAt(w)'
    PROVE  MoveInv'
<1>0. BaseInv /\ TypeOK BY DEF MoveInv, BaseInv
<1>1. TypeOK' BY <1>0, StepTypes DEF TypeOK, DiskOK
<1>2. On(w) \in Present /\ On(w) \in Calls BY <1>0, ReadyIs
<1>3. Present' = Present /\ \A d \in Present : journal'[d].object = journal[d].object BY <1>2, KeepsPresent
<1>4. UNCHANGED <<task, removed>> BY DEF Rests, history
<1>5. ASSUME ~raced PROVE StageInv' /\ FileInv'
  <2>1. StageInv /\ FileInv BY <1>5 DEF MoveInv, WorkInv
  <2>2. FileInv' BY <1>0, <1>3, <1>4, <2>1, FilesKeep DEF Named
  <2>3. ASSUME NEW d \in Calls, NEW p \in Paths, stage'[d][p] # None
        PROVE  /\ d \in Present' /\ p \in Sources(d)' /\ stage'[d][p] = journal'[d].object[p]
               /\ journal'[d].state \notin Installed
    <3>1. stage[d][p] # None /\ stage'[d][p] = stage[d][p] BY <2>3
    <3>2. d \in Present /\ p \in Sources(d) /\ stage[d][p] = journal[d].object[p]
          /\ journal[d].state \notin Installed BY <2>1, <3>1 DEF StageInv, Installed
    <3>3. Sources(d)' = Sources(d) BY <1>4 DEF Sources, Plan
    <3>4. journal'[d].state \notin Installed
      <4>1. CASE d = On(w) BY <4>1, <1>5, <3>1, <3>2
      <4>2. CASE d # On(w) BY <4>2, <3>2 DEF Keeps
      <4> QED BY <4>1, <4>2
    <3> QED BY <1>3, <3>1, <3>2, <3>3, <3>4
  <2>4. StageInv' BY <2>3 DEF StageInv, Installed
  <2> QED BY <2>2, <2>4
<1> QED BY <1>1, <1>5, StepKeeps

\* A step that gives a file names or takes names from it.
LEMMA FileStep ==
    ASSUME MoveInv, NEW w \in Workers, Ready(w), Rests(w), pos' \in [Workers -> Positions], Still(w),
           Arrives(w), UNCHANGED <<bytes, dir, journal, changeset, audited, stale, faults>>,
           at' \in [Paths -> Names], stage' \in [Calls -> [Paths -> Names]],
           ~raced => /\ \A d \in Calls, p \in Paths : stage'[d][p] \in {None, stage[d][p]} \/
                          /\ d = On(w) /\ p \in Sources(d) /\ stage'[d][p] = journal[d].object[p]
                          /\ journal[d].state \notin Installed
                     /\ (\A d \in Present : Anchored(d)) => \A o \in Objects : Named(o) => Named(o)'
                     /\ Works(w)' => PhaseAt(w)' /\ LoopAt(w)'
    PROVE  MoveInv'
<1>0. BaseInv /\ TypeOK BY DEF MoveInv, BaseInv
<1>1. TypeOK'
  <2>1. RecordsOK' BY <1>0 DEF TypeOK, RecordsOK, Rests
  <2>2. DiskOK' BY <1>0 DEF TypeOK, DiskOK
  <2>3. stale' \subseteq Workers \X Calls /\ faults' \in Nat BY <1>0 DEF TypeOK, MemoryOK, HistoryOK
  <2> QED BY <1>0, <2>1, <2>2, <2>3, StepTypes
<1>2. On(w) \in Present /\ On(w) \in Calls BY <1>0, ReadyIs
<1>3. Keeps(w) BY <1>2 DEF Keeps, Present
<1>4. Present' = Present /\ \A d \in Present : journal'[d].object = journal[d].object BY DEF Present
<1>5. UNCHANGED <<task, removed>> BY DEF Rests, history
<1>6. ASSUME ~raced PROVE StageInv' /\ FileInv'
  <2>1. StageInv /\ FileInv BY <1>6 DEF MoveInv, WorkInv
  <2>2. FileInv' BY <1>0, <1>4, <1>5, <1>6, <2>1, FilesKeep
  <2>3. ASSUME NEW d \in Calls, NEW p \in Paths, stage'[d][p] # None
        PROVE  /\ d \in Present' /\ p \in Sources(d)' /\ stage'[d][p] = journal'[d].object[p]
               /\ journal'[d].state \notin Installed
    <3>1. Sources(d)' = Sources(d) BY <1>5 DEF Sources, Plan
    <3>2. CASE stage'[d][p] = stage[d][p]
      BY <1>4, <2>1, <2>3, <3>1, <3>2 DEF StageInv, Installed
    <3>3. CASE stage'[d][p] # stage[d][p] BY <1>2, <1>4, <1>6, <2>3, <3>1, <3>3
    <3> QED BY <3>2, <3>3
  <2>4. StageInv' BY <2>3 DEF StageInv, Installed
  <2> QED BY <2>2, <2>4
<1> QED BY <1>1, <1>3, <1>6, StepKeeps

\* What is known of a worker with a manifest, and what its steps share.
LEMMA AtHand ==
    ASSUME MoveInv, NEW w \in Workers,
           pos[w].step \in (Held \cup Undoing \cup RunSteps) \ {"inspect", "idle", "choose"}
    PROVE  /\ BaseInv /\ TypeOK /\ TodoInv /\ OrderInv
           /\ Ready(w) /\ Works(w) /\ On(w) \in Present /\ On(w) \in Calls
           /\ w \in Calls => On(w) = w /\ w # Recovery
           /\ pos[w] \in Positions /\ journal[On(w)] \in Manifests
           /\ Sources(On(w)) # {} /\ Sources(On(w)) \subseteq Paths
           /\ w \in Calls => pos[w].step \in CallSteps /\ (pos[w].step \in Held => lock = w)
           /\ w = Recovery => pos[w].step \in RunSteps /\ lock = Recovery
           /\ ~raced => StageInv /\ FileInv /\ PhaseAt(w) /\ LoopAt(w)
<1>1. BaseInv /\ TypeOK /\ TodoInv /\ OrderInv BY DEF MoveInv, BaseInv
<1>2. Ready(w) /\ Works(w) /\ On(w) \in Present /\ On(w) \in Calls /\ (w \in Calls => On(w) = w /\ w # Recovery)
  BY <1>1, AtWork
<1>3. pos[w] \in Positions /\ journal[On(w)] \in Manifests BY <1>1, <1>2 DEF TypeOK, MemoryOK, RecordsOK
<1>4. Sources(On(w)) # {} /\ Sources(On(w)) \subseteq Paths BY <1>1, <1>2, PlanIs DEF OrderInv
<1>5. w \in Calls => pos[w].step \in CallSteps /\ (pos[w].step \in Held => lock = w)
  BY <1>1 DEF BaseInv, LockInv
<1>6. w = Recovery => pos[w].step \in RunSteps /\ lock = Recovery BY <1>1, <1>2, ReadyIs DEF BaseInv, LockInv
<1>7. ~raced => StageInv /\ FileInv /\ PhaseAt(w) /\ LoopAt(w) BY <1>2 DEF MoveInv, WorkInv
<1> QED BY <1>1, <1>2, <1>3, <1>4, <1>5, <1>6, <1>7

LEMMA StaysIs ==
    ASSUME NEW w, Stays
    PROVE  /\ Rests(w) /\ UNCHANGED <<changeset, audited, faults, task, due>> /\ On(w)' = On(w)
           /\ \A c \in Calls : Sources(c)' = Sources(c) /\ Plan(c)' = Plan(c)
BY DEF Stays, Rests, records, memory, limits, history, On, Sources, Plan

LEMMA LoopFree ==
    ASSUME NEW w, pos'[w].step \notin {"show", "settle", "link", "pend", "restage", "remove", "restore", "unstage"}
    PROVE  LoopAt(w)'
BY DEF LoopAt

\* What is to be shown of the position of a call.
LEMMA CallPhase ==
    ASSUME NEW c \in Calls, journal'[c].state \in StateAt(pos'[c].step),
           pos'[c].step \in Held => ~pos'[c].rolling,
           pos'[c].step \in Undoing /\ pos'[c].rolling => journal'[c].state = "rolling_back",
           pos'[c].step \in Rolling \ {"rollback"} => pos'[c].rolling,
           pos'[c].step \notin {"probe", "confirm"}
    PROVE  PhaseAt(c)'
<1>1. c # Recovery /\ On(c)' = c BY MoveAssumption DEF On
<1> QED BY <1>1 DEF PhaseAt

-----------------------------------------------------------------------------
(* The commit of a call.                                                    *)

\* A call that has the lock and a manifest.
LEMMA HasLock ==
    ASSUME MoveInv, NEW c \in Calls, pos[c].step \in Held \ {"inspect"}
    PROVE  /\ TypeOK /\ TodoInv /\ OrderInv /\ Ready(c)
           /\ c \in Workers /\ c # Recovery /\ On(c) = c /\ lock = c /\ c \in Present
           /\ pos[c] \in Positions /\ journal[c] \in Manifests
           /\ Sources(c) # {} /\ Sources(c) \subseteq Paths
           /\ ~raced => /\ StageInv /\ FileInv /\ PhaseAt(c) /\ LoopAt(c)
                        /\ ~pos[c].rolling /\ journal[c].state \in StateAt(pos[c].step)
<1>1. c \in Workers /\ pos[c].step \in (Held \cup Undoing \cup RunSteps) \ {"inspect", "idle", "choose"}
  BY DEF Workers, Held, Committing
<1>2. ~raced => PhaseAt(c) BY <1>1, AtHand
<1>3. On(c) = c BY <1>1, AtHand
<1>4. ~raced => ~pos[c].rolling /\ journal[c].state \in StateAt(pos[c].step) BY <1>2, <1>3 DEF PhaseAt
<1> QED BY <1>1, <1>4, AtHand

\* The loop goes on with what is left, or has been through all of it.
LEMMA DoneGoes ==
    ASSUME TypeOK, TodoInv, OrderInv, NEW w \in Workers, pos[w].step \in Looping, On(w) \in Present,
           NEW s \in CallSteps \cup RunSteps, NEW n \in CallSteps \cup RunSteps, Done(w, s, n)
    PROVE  /\ pos' \in [Workers -> Positions] /\ Still(w) /\ pos'[w].rolling = pos[w].rolling
           /\ pos'[w].todo # {} /\ pos'[w].todo \subseteq Sources(On(w))
           /\ \/ /\ pos'[w].step = n /\ pos'[w].todo = Sources(On(w))
                 /\ \A p \in Sources(On(w)) : p \in Sources(On(w)) \ pos[w].todo \/ p = Here(w)
              \/ pos'[w].step = s /\ pos'[w].todo = pos[w].todo \ {Here(w)}
<1>1. Here(w) \in pos[w].todo /\ On(w) \in Calls BY HereIs
<1>2. pos[w].todo \subseteq Sources(On(w)) /\ Sources(On(w)) # {} BY DEF TodoInv, OrderInv
<1> QED BY <1>1, <1>2, DoneIs

\* What a loop has in hand does not depend on the step of the same kind.
HereOf(todo, installing, plan) ==
    LET Key(p) == IF installing THEN plan[p] ELSE p
    IN  CHOOSE p \in todo : \A q \in todo : Key(p) <= Key(q)
LEMMA HereSame ==
    ASSUME NEW w, pos'[w].todo = pos[w].todo, pos'[w].step \in Installing, pos[w].step \in Installing,
           On(w)' = On(w), Plan(On(w))' = Plan(On(w)), journal'[On(w)].object = journal[On(w)].object
    PROVE  Here(w)' = Here(w) /\ Target(w)' = Target(w) /\ Object(w)' = Object(w)
<1>1. Here(w) = HereOf(pos[w].todo, TRUE, Plan(On(w))) BY DEF Here, HereOf
<1>2. Here(w)' = HereOf(pos'[w].todo, TRUE, Plan(On(w))') BY DEF Here, HereOf
<1>3. Here(w)' = Here(w) BY <1>1, <1>2
<1> QED BY <1>3 DEF Target, Object

LEMMA BeginKeeps ==
    ASSUME MoveInv, NEW c \in Calls, Begin(c)
    PROVE  MoveInv'
<1>1. c \in Workers /\ pos[c].step = "begin" BY DEF Begin, Workers
<1>2. pos[c].step \in (Held \cup Undoing \cup RunSteps) \ {"inspect", "idle", "choose"} BY <1>1 DEF Held, Committing
<1> USE <1>1, <1>2, AtHand
<1>3. On(c) = c /\ lock = c BY DEF Held, Committing
<1>4. /\ journal' \in [Calls -> Manifests] /\ stale' \subseteq Workers \X Calls
      /\ journal'[c].state = "committing" /\ journal'[c].object = journal[c].object
      /\ \A d \in Calls \ {c} : journal'[d] = journal[d]
  BY <1>3, BecomeIs DEF Begin, States
<1>5. /\ pos' \in [Workers -> Positions] /\ Still(c) /\ pos'[c].rolling = pos[c].rolling
      /\ pos'[c].step = "mkdir" \/ (pos'[c].step = "stage" /\ pos'[c].todo = Sources(c))
  <2>1. CASE journal[c].plans BY <2>1, <1>3, GotoIs DEF Begin, CallSteps, Held, Committing
  <2>2. CASE ~journal[c].plans BY <2>2, <1>3, LoopIs DEF Begin, CallSteps, Held, Committing
  <2> QED BY <2>1, <2>2
<1>6. Rests(c) /\ UNCHANGED <<changeset, audited, faults>> /\ UNCHANGED <<order, at, bytes, stage, dir>>
  BY StaysIs DEF Begin, disk, Stays
<1>7. Keeps(c) BY <1>3, <1>4 DEF Keeps
<1>8. Arrives(c) BY <1>3, <1>5 DEF Arrives, CallSteps, Held, Committing, Looping
<1>9. ~raced => PhaseAt(c)' /\ LoopAt(c)'
  <2>1. ~raced => ~pos[c].rolling BY DEF PhaseAt, Held, Committing
  <2>2. journal'[c].state \in StateAt(pos'[c].step) BY <1>4, <1>5 DEF StateAt, Committing
  <2> QED BY <1>5, <2>1, <2>2, CallPhase, LoopFree DEF Rolling, Undoing
<1>10. dir' \in Directories /\ RecordsOK' /\ faults' \in Nat
  BY <1>4, <1>6 DEF TypeOK, DiskOK, RecordsOK, HistoryOK
<1> QED BY <1>3, <1>4, <1>5, <1>6, <1>7, <1>8, <1>9, <1>10, LogStep DEF Installed, Pending

\* A file keeps a name if it keeps each it had, or has another for it.
LEMMA NamesStay ==
    ASSUME UNCHANGED removed,
           \A o \in Objects, q \in Paths : at[q] = o => at'[q] = o \/ Named(o)',
           \A o \in Objects, d \in Calls, q \in Paths : stage[d][q] = o => stage'[d][q] = o \/ Named(o)'
    PROVE  \A o \in Objects : Named(o) => Named(o)'
<1> SUFFICES ASSUME NEW o \in Objects, Named(o) PROVE Named(o)' OBVIOUS
<1>1. CASE o \in removed BY <1>1 DEF Named
<1>2. CASE \E q \in Paths : at[q] = o
  <2>1. PICK q \in Paths : at[q] = o BY <1>2
  <2>2. CASE at'[q] = o BY <2>2 DEF Named
  <2> QED BY <2>1, <2>2
<1>3. CASE \E d \in Calls : \E q \in Paths : stage[d][q] = o
  <2>1. PICK d \in Calls, q \in Paths : stage[d][q] = o BY <1>3
  <2>2. CASE stage'[d][q] = o BY <2>2 DEF Named
  <2> QED BY <2>1, <2>2
<1> QED BY <1>1, <1>2, <1>3 DEF Named

LEMMA MakeDirectoryKeeps ==
    ASSUME MoveInv, NEW c \in Calls, MakeDirectory(c)
    PROVE  MoveInv'
<1>1. pos[c].step = "mkdir" /\ pos[c].step \in Held \ {"inspect"} BY DEF MakeDirectory, Held, Committing
<1> USE <1>1, HasLock
<1>2. /\ pos' \in [Workers -> Positions] /\ Still(c) /\ pos'[c].rolling = pos[c].rolling
      /\ pos'[c].step = "made"
  BY GotoIs DEF MakeDirectory, CallSteps, Held, Committing
<1>3. Rests(c) /\ UNCHANGED <<order, changeset, audited, faults, at, bytes, stage, journal, stale>>
  BY StaysIs DEF MakeDirectory, Stays
<1>4. Keeps(c) BY <1>3 DEF Keeps, Present
<1>5. Arrives(c) BY <1>2 DEF Arrives, CallSteps, Held, Committing, Looping
<1>6. ~raced => PhaseAt(c)' /\ LoopAt(c)'
  <2>1. ~raced => journal'[c].state \in StateAt(pos'[c].step) BY <1>2, <1>3 DEF StateAt, Committing
  <2> QED BY <1>2, <2>1, CallPhase, LoopFree DEF Rolling, Undoing
<1>7. dir' \in Directories /\ RecordsOK' /\ faults' \in Nat /\ stale' \subseteq Workers \X Calls
  BY <1>3 DEF TypeOK, DiskOK, RecordsOK, MemoryOK, HistoryOK, MakeDirectory, Directories
<1> QED BY <1>2, <1>3, <1>4, <1>5, <1>6, <1>7, LogStep DEF Installed

LEMMA RecordDirectoryKeeps ==
    ASSUME MoveInv, NEW c \in Calls, RecordDirectory(c)
    PROVE  MoveInv'
<1>1. pos[c].step = "made" /\ pos[c].step \in Held \ {"inspect"} BY DEF RecordDirectory, Held, Committing
<1> USE <1>1, HasLock
<1> DEFINE m == [journal[c] EXCEPT !.made = dir]
<1>2. m \in Manifests /\ m.state = journal[c].state /\ m.object = journal[c].object
  BY DEF TypeOK, DiskOK, Manifests
<1>3. Write(c, m) BY DEF RecordDirectory
<1> HIDE DEF m
<1>4. /\ journal' \in [Calls -> Manifests] /\ stale' \subseteq Workers \X Calls
      /\ journal'[c].state = journal[c].state /\ journal'[c].object = journal[c].object
      /\ \A d \in Calls \ {c} : journal'[d] = journal[d]
  BY <1>2, <1>3, WriteIs
<1>5. /\ pos' \in [Workers -> Positions] /\ Still(c) /\ pos'[c].rolling = pos[c].rolling
      /\ pos'[c].step = "stage" /\ pos'[c].todo = Sources(c)
  BY LoopIs DEF RecordDirectory, CallSteps, Held, Committing
<1>6. Rests(c) /\ UNCHANGED <<changeset, audited, faults>> /\ UNCHANGED <<order, at, bytes, stage, dir>>
  BY StaysIs DEF RecordDirectory, disk, Stays
<1>7. Keeps(c) BY <1>4 DEF Keeps, Present
<1>8. Arrives(c) BY <1>5 DEF Arrives, CallSteps, Held, Committing, Looping
<1>9. ~raced => PhaseAt(c)' /\ LoopAt(c)'
  <2>1. ~raced => journal'[c].state \in StateAt(pos'[c].step) BY <1>4, <1>5 DEF StateAt, Committing
  <2> QED BY <1>5, <2>1, CallPhase, LoopFree DEF Rolling, Undoing
<1>10. dir' \in Directories /\ RecordsOK' /\ faults' \in Nat
  BY <1>4, <1>6 DEF TypeOK, DiskOK, RecordsOK, HistoryOK
<1> QED BY <1>4, <1>5, <1>6, <1>7, <1>8, <1>9, <1>10, LogStep DEF Installed

LEMMA LinkStageKeeps ==
    ASSUME MoveInv, NEW c \in Calls, LinkStage(c)
    PROVE  MoveInv'
<1>1. pos[c].step = "stage" /\ pos[c].step \in Held \ {"inspect"} /\ pos[c].step \in Looping
  BY DEF LinkStage, Held, Committing, Looping
<1> USE <1>1, HasLock
<1>2. /\ Here(c) \in pos[c].todo /\ Here(c) \in Sources(c) /\ Here(c) \in Paths
      /\ Object(c) = journal[c].object[Here(c)] /\ pos[c].todo \subseteq Sources(c)
  BY HereIs DEF TodoInv
<1>3. Object(c) \in Names BY <1>2 DEF OrderInv, Names
<1>4. /\ pos' \in [Workers -> Positions] /\ Still(c) /\ pos'[c].rolling = pos[c].rolling
      /\ pos'[c].step = "unlink" /\ pos'[c].todo = pos[c].todo
  BY GotoIs DEF LinkStage, CallSteps, Held, Committing
<1>5. Rests(c) /\ UNCHANGED <<changeset, audited, faults, at, bytes, dir, journal, stale>>
  BY StaysIs DEF LinkStage
<1>6. Arrives(c) BY <1>2, <1>4 DEF Arrives, CallSteps, Held, Committing, Looping
<1>7. /\ stage' \in [Calls -> [Paths -> Names]] /\ at' \in [Paths -> Names]
      /\ \A d \in Calls, p \in Paths :
           stage'[d][p] = IF d = c /\ p = Here(c) THEN Object(c) ELSE stage[d][p]
  <2>1. stage \in [Calls -> [Paths -> Names]] /\ at \in [Paths -> Names] BY DEF TypeOK, DiskOK
  <2>2. stage' = [stage EXCEPT ![c][Here(c)] = Object(c)] BY DEF LinkStage
  <2> QED BY <1>2, <1>3, <1>5, <2>1, <2>2
<1>8. ASSUME ~raced
      PROVE  /\ \A d \in Calls, p \in Paths : stage'[d][p] \in {None, stage[d][p]} \/
                  /\ d = On(c) /\ p \in Sources(d) /\ stage'[d][p] = journal[d].object[p]
                  /\ journal[d].state \notin Installed
             /\ \A o \in Objects : Named(o) => Named(o)'
             /\ PhaseAt(c)' /\ LoopAt(c)'
  <2>1. journal[c].state = "committing" BY <1>8 DEF StateAt, Committing
  <2>2. \A d \in Calls, p \in Paths : stage'[d][p] \in {None, stage[d][p]} \/
          /\ d = On(c) /\ p \in Sources(d) /\ stage'[d][p] = journal[d].object[p]
          /\ journal[d].state \notin Installed
    BY <1>2, <1>7, <2>1 DEF Installed, Pending
  <2>3. stage[c][Here(c)] \in {None, Object(c)} BY <1>2, <1>8 DEF StageInv
  <2>4. \A o \in Objects : Named(o) => Named(o)'
    <3>1. \A o \in Objects : o # None BY MoveAssumption
    <3>2. UNCHANGED removed BY <1>5 DEF Rests, history
    <3> QED BY <1>5, <1>7, <2>3, <3>1, <3>2, NamesStay
  <2>5. journal'[c].state \in StateAt(pos'[c].step) BY <1>4, <1>5, <2>1 DEF StateAt, Committing
  <2>6. PhaseAt(c)' /\ LoopAt(c)' BY <1>4, <1>8, <2>5, CallPhase, LoopFree DEF Rolling, Undoing
  <2> QED BY <2>2, <2>4, <2>6
<1> QED BY <1>4, <1>5, <1>6, <1>7, <1>8, FileStep

LEMMA UnlinkSourceKeeps ==
    ASSUME MoveInv, NEW c \in Calls, UnlinkSource(c)
    PROVE  MoveInv'
<1>1. pos[c].step = "unlink" /\ pos[c].step \in Held \ {"inspect"} /\ pos[c].step \in Looping
  BY DEF UnlinkSource, Held, Committing, Looping
<1> USE <1>1, HasLock
<1>2. /\ Here(c) \in Sources(c) /\ Here(c) \in Paths /\ Object(c) = journal[c].object[Here(c)]
  BY HereIs
<1>4. /\ pos' \in [Workers -> Positions] /\ Still(c) /\ pos'[c].rolling = pos[c].rolling
      /\ pos'[c].todo # {} /\ pos'[c].todo \subseteq Sources(c)
      /\ \/ pos'[c].step = "stage"
         \/ pos'[c].step = "link" /\ pos'[c].todo = Sources(c)
  <2>1. "stage" \in CallSteps /\ "link" \in CallSteps /\ Done(c, "stage", "link")
    BY DEF UnlinkSource, CallSteps, Held, Committing
  <2> QED BY <2>1, DoneGoes
<1>5. Rests(c) /\ UNCHANGED <<changeset, audited, faults, task, bytes, dir, stage, journal, stale>>
  BY StaysIs DEF UnlinkSource
<1>6. Arrives(c) BY <1>4 DEF Arrives, CallSteps, Held, Committing
<1>7. /\ stage' \in [Calls -> [Paths -> Names]] /\ at' \in [Paths -> Names]
      /\ \A p \in Paths : at'[p] = IF p = Here(c) THEN None ELSE at[p]
  <2>1. stage \in [Calls -> [Paths -> Names]] /\ at \in [Paths -> Names] BY DEF TypeOK, DiskOK
  <2>2. at' = [at EXCEPT ![Here(c)] = None] BY DEF UnlinkSource
  <2> QED BY <1>2, <1>5, <2>1, <2>2 DEF Names
<1>8. \A o \in Objects : Named(o) => Named(o)'
  <2>1. at[Here(c)] = Object(c) /\ stage[c][Here(c)] = Object(c)
    BY DEF UnlinkSource, AtOwnSource, AtStage
  <2>2. \A o \in Objects : o = Object(c) => Named(o)' BY <1>2, <1>5, <2>1 DEF Named
  <2>3. \A o \in Objects, q \in Paths : at[q] = o => at'[q] = o \/ Named(o)' BY <1>7, <2>1, <2>2
  <2>4. UNCHANGED removed BY <1>5 DEF Rests, history
  <2> QED BY <1>5, <2>3, <2>4, NamesStay
<1>9. ASSUME ~raced PROVE PhaseAt(c)' /\ LoopAt(c)'
  <2>1. journal'[c].state \in StateAt(pos'[c].step) BY <1>4, <1>5, <1>9 DEF StateAt, Committing
  <2>2. PhaseAt(c)' BY <1>4, <1>9, <2>1, CallPhase DEF Rolling, Undoing
  <2>3. CASE pos'[c].step = "stage" BY <2>2, <2>3, LoopFree
  <2>4. CASE pos'[c].step = "link"
    <3>1. pos'[c].todo = Sources(c) BY <1>4, <2>4
    <3>2. On(c)' = c /\ Sources(c)' = Sources(c) BY <1>5 DEF On, Sources, Plan
    <3> QED BY <2>2, <2>4, <3>1, <3>2 DEF LoopAt
  <2> QED BY <1>4, <2>2, <2>3, <2>4
<1>10. \A d \in Calls, p \in Paths : stage'[d][p] \in {None, stage[d][p]} BY <1>5
<1> QED BY <1>4, <1>5, <1>6, <1>7, <1>8, <1>9, <1>10, FileStep

LEMMA LinkKeeps ==
    ASSUME MoveInv, NEW c \in Calls, Link(c)
    PROVE  MoveInv'
<1>1. pos[c].step = "link" /\ pos[c].step \in Held \ {"inspect"} /\ pos[c].step \in Looping
  BY DEF Link, Held, Committing, Looping
<1> USE <1>1, HasLock
<1>2. /\ Here(c) \in Sources(c) /\ Target(c) \in Paths /\ Object(c) = journal[c].object[Here(c)]
      /\ pos[c].todo # {} /\ pos[c].todo \subseteq Sources(c)
  BY HereIs DEF TodoInv
<1>3. Object(c) \in Names BY <1>2 DEF OrderInv, Names
<1>4. /\ pos' \in [Workers -> Positions] /\ Still(c) /\ pos'[c].rolling = pos[c].rolling
      /\ pos'[c].step = "show" /\ pos'[c].todo = pos[c].todo
  BY GotoIs DEF Link, CallSteps, Held, Committing
<1>5. Rests(c) /\ UNCHANGED <<changeset, audited, faults, task, due, bytes, dir, stage, journal, stale>>
  BY StaysIs DEF Link
<1>6. Arrives(c) BY <1>2, <1>4 DEF Arrives, CallSteps, Held, Committing
<1>7. /\ stage' \in [Calls -> [Paths -> Names]] /\ at' \in [Paths -> Names]
      /\ \A p \in Paths : at'[p] = IF p = Target(c) THEN Object(c) ELSE at[p]
  <2>1. stage \in [Calls -> [Paths -> Names]] /\ at \in [Paths -> Names] BY DEF TypeOK, DiskOK
  <2>2. at' = [at EXCEPT ![Target(c)] = Object(c)] BY DEF Link
  <2> QED BY <1>2, <1>3, <1>5, <2>1, <2>2
<1>8. \A o \in Objects : Named(o) => Named(o)'
  <2>1. at[Target(c)] = None BY DEF Link, Vacant
  <2>2. \A o \in Objects : o # None BY MoveAssumption
  <2>3. \A o \in Objects, q \in Paths : at[q] = o => at'[q] = o BY <1>7, <2>1, <2>2
  <2>4. UNCHANGED removed BY <1>5 DEF Rests, history
  <2> QED BY <1>5, <2>3, <2>4, NamesStay
<1>9. ASSUME ~raced PROVE PhaseAt(c)' /\ LoopAt(c)'
  <2>1. journal'[c].state \in StateAt(pos'[c].step) BY <1>4, <1>5, <1>9 DEF StateAt, Committing
  <2>2. PhaseAt(c)' BY <1>4, <1>9, <2>1, CallPhase DEF Rolling, Undoing
  <2>3. On(c)' = c /\ Sources(c)' = Sources(c) /\ Plan(c)' = Plan(c) BY <1>5 DEF On, Sources, Plan
  <2>4. Target(c)' = Target(c) /\ Object(c)' = Object(c)
    BY <1>4, <1>5, <2>3, HereSame DEF Installing
  <2>5. at'[Target(c)'] = Object(c)' BY <1>2, <1>7, <2>4
  <2>6. \A p \in Sources(c) \ pos[c].todo : stage[c][p] = None BY <1>9 DEF LoopAt
  <2>7. LoopAt(c)' BY <1>4, <1>5, <2>3, <2>5, <2>6 DEF LoopAt
  <2> QED BY <2>2, <2>7
<1>10. \A d \in Calls, p \in Paths : stage'[d][p] \in {None, stage[d][p]} BY <1>5
<1> QED BY <1>4, <1>5, <1>6, <1>7, <1>8, <1>9, <1>10, FileStep

LEMMA ShowKeeps ==
    ASSUME MoveInv, NEW c \in Calls, Show(c)
    PROVE  MoveInv'
<1>1. pos[c].step = "show" /\ pos[c].step \in Held \ {"inspect"} /\ pos[c].step \in Looping
  BY DEF Show, Held, Committing, Looping
<1> USE <1>1, HasLock
<1>2. /\ Here(c) \in Sources(c) /\ Here(c) \in Paths /\ pos[c].todo # {} /\ pos[c].todo \subseteq Sources(c)
  BY HereIs DEF TodoInv
<1> DEFINE m == [journal[c] EXCEPT !.shown = @ \cup {Here(c)}]
<1>3. m \in Manifests /\ m.state = journal[c].state /\ m.object = journal[c].object BY <1>2 DEF Manifests
<1>4. Write(c, m) BY DEF Show
<1> HIDE DEF m
<1>5. /\ journal' \in [Calls -> Manifests] /\ stale' \subseteq Workers \X Calls
      /\ journal'[c].state = journal[c].state /\ journal'[c].object = journal[c].object
      /\ \A d \in Calls \ {c} : journal'[d] = journal[d]
  BY <1>3, <1>4, WriteIs
<1>6. /\ pos' \in [Workers -> Positions] /\ Still(c) /\ pos'[c].rolling = pos[c].rolling
      /\ pos'[c].step = "settle" /\ pos'[c].todo = pos[c].todo
  BY GotoIs DEF Show, CallSteps, Held, Committing
<1>7. Rests(c) /\ UNCHANGED <<changeset, audited, faults, task, due>> /\ UNCHANGED <<order, at, bytes, stage, dir>>
  BY StaysIs DEF Show, disk, Stays
<1>8. Keeps(c) BY <1>5 DEF Keeps, Present
<1>9. Arrives(c) BY <1>2, <1>6 DEF Arrives, CallSteps, Held, Committing
<1>10. ASSUME ~raced PROVE PhaseAt(c)' /\ LoopAt(c)'
  <2>1. journal'[c].state \in StateAt(pos'[c].step) BY <1>5, <1>6, <1>10 DEF StateAt, Committing
  <2>2. PhaseAt(c)' BY <1>6, <1>10, <2>1, CallPhase DEF Rolling, Undoing
  <2>3. On(c)' = c /\ Sources(c)' = Sources(c) /\ Plan(c)' = Plan(c) BY <1>7 DEF On, Sources, Plan
  <2>4. Target(c)' = Target(c) /\ Object(c)' = Object(c)
    BY <1>5, <1>6, <2>3, HereSame DEF Installing
  <2>5. at[Target(c)] = Object(c) BY DEF Show, Ours
  <2>6. \A p \in Sources(c) \ pos[c].todo : stage[c][p] = None BY <1>10 DEF LoopAt
  <2>7. LoopAt(c)' BY <1>6, <1>7, <2>3, <2>4, <2>5, <2>6 DEF LoopAt
  <2> QED BY <2>2, <2>7
<1>11. dir' \in Directories /\ RecordsOK' /\ faults' \in Nat
  BY <1>5, <1>7 DEF TypeOK, DiskOK, RecordsOK, HistoryOK
<1> QED BY <1>5, <1>6, <1>7, <1>8, <1>9, <1>10, <1>11, LogStep DEF Installed

LEMMA SettleKeeps ==
    ASSUME MoveInv, NEW c \in Calls, Settle(c)
    PROVE  MoveInv'
<1>1. pos[c].step = "settle" /\ pos[c].step \in Held \ {"inspect"} /\ pos[c].step \in Looping
  BY DEF Settle, Held, Committing, Looping
<1> USE <1>1, HasLock
<1>2. /\ Here(c) \in Sources(c) /\ Here(c) \in Paths /\ Target(c) \in Paths
      /\ Object(c) = journal[c].object[Here(c)]
  BY HereIs
<1>4. /\ pos' \in [Workers -> Positions] /\ Still(c) /\ pos'[c].rolling = pos[c].rolling
      /\ pos'[c].todo # {} /\ pos'[c].todo \subseteq Sources(c)
      /\ \/ /\ pos'[c].step = "pend"
            /\ \A p \in Sources(c) : p \in Sources(c) \ pos[c].todo \/ p = Here(c)
         \/ pos'[c].step = "link" /\ pos'[c].todo = pos[c].todo \ {Here(c)}
  <2>1. "link" \in CallSteps /\ "pend" \in CallSteps /\ Done(c, "link", "pend")
    BY DEF Settle, CallSteps, Held, Committing
  <2> QED BY <2>1, DoneGoes
<1>5. Rests(c) /\ UNCHANGED <<changeset, audited, faults, task, at, bytes, dir, journal, stale>>
  BY StaysIs DEF Settle
<1>6. Arrives(c) BY <1>4 DEF Arrives, CallSteps, Held, Committing
<1>7. /\ stage' \in [Calls -> [Paths -> Names]] /\ at' \in [Paths -> Names]
      /\ \A d \in Calls, p \in Paths :
           stage'[d][p] = IF d = c /\ p = Here(c) THEN None ELSE stage[d][p]
  <2>1. stage \in [Calls -> [Paths -> Names]] /\ at \in [Paths -> Names] BY DEF TypeOK, DiskOK
  <2>2. stage' = [stage EXCEPT ![c][Here(c)] = None] BY DEF Settle
  <2> QED BY <1>2, <1>5, <2>1, <2>2 DEF Names
<1>8. ASSUME ~raced PROVE \A o \in Objects : Named(o) => Named(o)'
  <2>1. stage[c][Here(c)] = Object(c) BY DEF Settle, AtStage
  <2>2. at[Target(c)] = Object(c) \/ Object(c) \in removed BY <1>8 DEF LoopAt
  <2>3. UNCHANGED removed BY <1>5 DEF Rests, history
  <2>4. \A o \in Objects : o = Object(c) => Named(o)' BY <1>2, <1>5, <2>2, <2>3 DEF Named
  <2>5. \A o \in Objects, d \in Calls, q \in Paths : stage[d][q] = o => stage'[d][q] = o \/ Named(o)'
    BY <1>7, <2>1, <2>4
  <2> QED BY <1>5, <2>3, <2>5, NamesStay
<1>9. ASSUME ~raced PROVE PhaseAt(c)' /\ LoopAt(c)'
  <2>1. journal'[c].state \in StateAt(pos'[c].step) BY <1>4, <1>5, <1>9 DEF StateAt, Committing
  <2>2. PhaseAt(c)' BY <1>4, <1>9, <2>1, CallPhase DEF Rolling, Undoing
  <2>3. On(c)' = c /\ Sources(c)' = Sources(c) BY <1>5 DEF On, Sources, Plan
  <2>4. \A p \in Sources(c) \ pos[c].todo : stage[c][p] = None BY <1>9 DEF LoopAt
  <2>5. \A p \in (Sources(c) \ pos[c].todo) \cup {Here(c)} : stage'[c][p] = None BY <1>2, <1>7, <2>4
  <2>6. CASE pos'[c].step = "link"
    <3>1. \A p \in Sources(c) \ pos'[c].todo : stage'[c][p] = None BY <1>4, <2>5, <2>6
    <3> QED BY <2>2, <2>3, <2>6, <3>1 DEF LoopAt
  <2>7. CASE pos'[c].step = "pend"
    <3>1. \A p \in Sources(c) : stage'[c][p] = None BY <1>4, <2>5, <2>7
    <3> QED BY <2>2, <2>3, <2>7, <3>1 DEF LoopAt
  <2> QED BY <1>4, <2>6, <2>7
<1>10. \A d \in Calls, p \in Paths : stage'[d][p] \in {None, stage[d][p]} BY <1>7
<1> QED BY <1>4, <1>5, <1>6, <1>7, <1>8, <1>9, <1>10, FileStep

LEMMA PendKeeps ==
    ASSUME MoveInv, NEW c \in Calls, Pend(c)
    PROVE  MoveInv'
<1>1. pos[c].step = "pend" /\ pos[c].step \in Held \ {"inspect"} BY DEF Pend, Held, Committing
<1> USE <1>1, HasLock
<1>2. /\ journal' \in [Calls -> Manifests] /\ stale' \subseteq Workers \X Calls
      /\ journal'[c].state = Pending /\ journal'[c].object = journal[c].object
      /\ \A d \in Calls \ {c} : journal'[d] = journal[d]
  BY BecomeIs DEF Pend, States
<1>3. /\ pos' \in [Workers -> Positions] /\ Still(c) /\ pos'[c].rolling = pos[c].rolling
      /\ pos'[c].step = "effect"
  BY GotoIs DEF Pend, CallSteps, Held
<1>4. Rests(c) /\ UNCHANGED <<changeset, audited, faults>> /\ UNCHANGED <<order, at, bytes, stage, dir>>
  BY StaysIs DEF Pend, disk, Stays
<1>5. Keeps(c) BY <1>2 DEF Keeps, Pending
<1>6. Arrives(c) BY <1>3 DEF Arrives, CallSteps, Held, Looping
<1>7. ASSUME ~raced PROVE PhaseAt(c)' /\ LoopAt(c)'
  <2>1. journal'[c].state \in StateAt(pos'[c].step) BY <1>2, <1>3 DEF StateAt, Committing
  <2> QED BY <1>3, <1>7, <2>1, CallPhase, LoopFree DEF Rolling, Undoing
<1>8. ~raced => \A p \in Sources(c) : stage[c][p] = None BY DEF LoopAt
<1>9. dir' \in Directories /\ RecordsOK' /\ faults' \in Nat
  BY <1>2, <1>4 DEF TypeOK, DiskOK, RecordsOK, HistoryOK
<1> QED BY <1>2, <1>3, <1>4, <1>5, <1>6, <1>7, <1>8, <1>9, LogStep

\* A failure leaves the rest as it is but for the faults that may yet happen.
LEMMA FaultIs ==
    ASSUME TypeOK, NEW c, NEW b, FailsAs(c, b)
    PROVE  faults' \in Nat
BY DEF FailsAs, Fault, TypeOK, HistoryOK

LEMMA CommitFailsKeeps ==
    ASSUME MoveInv, NEW c \in Calls, CommitFails(c)
    PROVE  MoveInv'
<1>1. pos[c].step \in Committing /\ pos[c].step \in Held \ {"inspect"} BY DEF CommitFails, Held, Committing
<1> USE <1>1, HasLock
<1>2. /\ pos' \in [Workers -> Positions] /\ Still(c) /\ pos'[c].rolling = pos[c].rolling
      /\ pos'[c].step = "rollback"
  <2>1. pos \in [Workers -> Positions] BY DEF TypeOK, MemoryOK
  <2> DEFINE r == [pos[c] EXCEPT !.step = "rollback", !.todo = {}, !.tries = 2]
  <2>2. r \in Positions /\ r.rolling = pos[c].rolling /\ r.step = "rollback"
    BY DEF Positions, CallSteps, Undoing, Rolling
  <2>3. pos' = [pos EXCEPT ![c] = r] BY <2>1 DEF CommitFails
  <2> HIDE DEF r
  <2> QED BY <2>1, <2>2, <2>3 DEF Still
<1>3. Rests(c) /\ UNCHANGED <<order, changeset, audited, at, bytes, stage, dir, journal, stale>>
  BY DEF CommitFails, OnlyFaults, Rests, disk, records, memory, history
<1>4. faults' \in Nat BY FaultIs DEF CommitFails
<1>5. Keeps(c) BY <1>3 DEF Keeps, Present
<1>6. Arrives(c) BY <1>2 DEF Arrives, CallSteps, Held, Committing, Undoing, Rolling, Looping
<1>7. ASSUME ~raced PROVE PhaseAt(c)' /\ LoopAt(c)'
  <2>1. journal'[c].state \in StateAt(pos'[c].step)
    BY <1>2, <1>3 DEF StateAt, Committing, Manifests
  <2> QED BY <1>2, <1>7, <2>1, CallPhase, LoopFree DEF Rolling, Undoing
<1>8. dir' \in Directories /\ RecordsOK' /\ stale' \subseteq Workers \X Calls
  BY <1>3 DEF TypeOK, DiskOK, RecordsOK, MemoryOK
<1> QED BY <1>2, <1>3, <1>4, <1>5, <1>6, <1>7, <1>8, LogStep DEF Installed

-----------------------------------------------------------------------------
(* The participants, and the end of a commit.                               *)

LEMMA OverIs ==
    ASSUME TypeOK, NEW c \in Calls, Over(c)
    PROVE  pos' \in [Workers -> Positions] /\ Still(c) /\ pos'[c].step = "over"
<1> DEFINE r == [Resting EXCEPT !.step = "over"]
<1>1. r \in Positions /\ r.step = "over" BY DEF Resting, Positions, CallSteps
<1>2. pos \in [Workers -> Positions] /\ c \in Workers BY DEF TypeOK, MemoryOK, Workers
<1>3. pos' = [pos EXCEPT ![c] = r] BY DEF Over
<1> HIDE DEF r
<1> QED BY <1>1, <1>2, <1>3 DEF Still

\* A call that is over, or has only its change set to see to, is not at work.
LEMMA Resigned ==
    ASSUME NEW c \in Calls, pos'[c].step \in {"over", "reconcile"}
    PROVE  ~Works(c)' /\ Arrives(c)
<1>1. c # Recovery BY MoveAssumption
<1>2. pos'[c].step \notin Held \cup Undoing BY DEF Held, Committing, Undoing, Rolling
<1> QED BY <1>1, <1>2 DEF Works, Active, Arrives, CallSteps, Looping

LEMMA EffectKeeps ==
    ASSUME MoveInv, NEW c \in Calls, Effect(c)
    PROVE  MoveInv'
<1>1. pos[c].step = "effect" /\ pos[c].step \in Held \ {"inspect"} BY DEF Effect, Held
<1> USE <1>1, HasLock
<1>2. /\ pos' \in [Workers -> Positions] /\ Still(c) /\ pos'[c].rolling = pos[c].rolling
      /\ pos'[c].step = "fact"
  BY GotoIs DEF Effect, CallSteps, Held
<1>3. Rests(c) /\ UNCHANGED <<order, at, bytes, stage, dir, journal, stale, faults>>
  BY DEF Effect, Rests, disk, memory, limits, history
<1>4. changeset' \in [Calls -> {"none", "active", "undone", "recovery_required"}] /\ audited' \subseteq Calls
  <2>1. /\ changeset \in [Calls -> {"none", "active", "undone", "recovery_required"}]
        /\ audited \subseteq Calls BY DEF TypeOK, RecordsOK
  <2>2. CASE Turn(c) = "change_set" BY <1>1, <2>1, <2>2 DEF Effect
  <2>3. CASE Turn(c) = "audit" BY <1>1, <2>1, <2>3 DEF Effect
  <2>4. CASE Turn(c) \notin {"change_set", "audit"} BY <1>1, <2>1, <2>4 DEF Effect
  <2> QED BY <2>2, <2>3, <2>4
<1>5. Keeps(c) BY <1>3 DEF Keeps, Present
<1>6. Arrives(c) BY <1>2 DEF Arrives, CallSteps, Held, Looping
<1>7. ASSUME ~raced PROVE PhaseAt(c)' /\ LoopAt(c)'
  <2>1. journal'[c].state \in StateAt(pos'[c].step) BY <1>2, <1>3, <1>7 DEF StateAt, Committing
  <2> QED BY <1>2, <1>7, <2>1, CallPhase, LoopFree DEF Rolling, Undoing
<1>8. dir' \in Directories /\ RecordsOK' /\ faults' \in Nat /\ stale' \subseteq Workers \X Calls
  BY <1>3, <1>4 DEF TypeOK, DiskOK, RecordsOK, MemoryOK, HistoryOK
<1> QED BY <1>2, <1>3, <1>5, <1>6, <1>7, <1>8, LogStep DEF Installed

LEMMA EffectFailsKeeps ==
    ASSUME MoveInv, NEW c \in Calls, EffectFails(c)
    PROVE  MoveInv'
<1>1. pos[c].step = "effect" /\ pos[c].step \in Held \ {"inspect"} BY DEF EffectFails, Held
<1> USE <1>1, HasLock
<1>2. /\ pos' \in [Workers -> Positions] /\ Still(c) /\ pos'[c].rolling = pos[c].rolling
      /\ pos'[c].step = "failed"
  BY GotoIs DEF EffectFails, CallSteps, Held
<1>3. Rests(c) /\ UNCHANGED <<order, at, bytes, stage, dir, journal, stale>>
  BY DEF EffectFails, Rests, disk, memory
<1>4. faults' \in Nat BY FaultIs DEF EffectFails
<1>5. audited' \subseteq Calls /\ changeset' \in [Calls -> {"none", "active", "undone", "recovery_required"}]
  <2>1. audited' \in {audited, audited \cup {c}} BY DEF EffectFails
  <2>2. changeset' = changeset \/ changeset' = [changeset EXCEPT ![Original(c)] = "undone"] BY DEF EffectFails
  <2> QED BY <2>1, <2>2 DEF TypeOK, RecordsOK
<1>6. Keeps(c) BY <1>3 DEF Keeps, Present
<1>7. Arrives(c) BY <1>2 DEF Arrives, CallSteps, Held, Looping
<1>8. ASSUME ~raced PROVE PhaseAt(c)' /\ LoopAt(c)'
  <2>1. journal'[c].state \in StateAt(pos'[c].step) BY <1>2, <1>3, <1>8 DEF StateAt, Committing
  <2> QED BY <1>2, <1>8, <2>1, CallPhase, LoopFree DEF Rolling, Undoing
<1>9. dir' \in Directories /\ RecordsOK' /\ stale' \subseteq Workers \X Calls
  BY <1>3, <1>5 DEF TypeOK, DiskOK, RecordsOK, MemoryOK
<1> QED BY <1>2, <1>3, <1>4, <1>6, <1>7, <1>8, <1>9, LogStep DEF Installed

\* To record what became of a participant.
LEMMA SetFactIs ==
    ASSUME MoveInv, NEW c \in Calls, pos[c].step \in Held \ {"inspect"},
           NEW fact \in {"committed", "failed"}, SetFact(c, fact)
    PROVE  /\ journal' \in [Calls -> Manifests] /\ stale' \subseteq Workers \X Calls
           /\ journal'[c].state = journal[c].state /\ journal'[c].object = journal[c].object
           /\ \A d \in Calls \ {c} : journal'[d] = journal[d]
<1> DEFINE m == [journal[c] EXCEPT !.facts[Turn(c)] = fact]
           Facts == UNION {[S -> {"pending", "committed", "failed"}] :
                           S \in SUBSET {"change_set", "audit", "original_change_set"}}
<1>1. journal[c] \in Manifests BY HasLock
<1>2. journal[c].facts \in Facts BY <1>1 DEF Manifests
<1>3. PICK S \in SUBSET {"change_set", "audit", "original_change_set"} :
        journal[c].facts \in [S -> {"pending", "committed", "failed"}] BY <1>2
<1>4. [journal[c].facts EXCEPT ![Turn(c)] = fact] \in [S -> {"pending", "committed", "failed"}] BY <1>3
<1>5. [journal[c].facts EXCEPT ![Turn(c)] = fact] \in Facts BY <1>4
<1>6. m = [journal[c] EXCEPT !.facts = [journal[c].facts EXCEPT ![Turn(c)] = fact]] OBVIOUS
<1> HIDE DEF Facts
<1>7. m \in Manifests /\ m.state = journal[c].state /\ m.object = journal[c].object
  BY <1>1, <1>5, <1>6 DEF Manifests, Facts
<1>8. Write(c, m) BY DEF SetFact
<1> HIDE DEF m
<1> QED BY <1>7, <1>8, HasLock, WriteIs

LEMMA FactKeeps ==
    ASSUME MoveInv, NEW c \in Calls, Fact(c)
    PROVE  MoveInv'
<1>1. pos[c].step = "fact" /\ pos[c].step \in Held \ {"inspect"} BY DEF Fact, Held
<1> USE <1>1, HasLock
<1>2. /\ journal' \in [Calls -> Manifests] /\ stale' \subseteq Workers \X Calls
      /\ journal'[c].state = journal[c].state /\ journal'[c].object = journal[c].object
      /\ \A d \in Calls \ {c} : journal'[d] = journal[d]
  BY SetFactIs DEF Fact
<1>3. /\ pos' \in [Workers -> Positions] /\ Still(c) /\ pos'[c].rolling = pos[c].rolling
      /\ pos'[c].step \in {"decide", "effect"}
  <2>1. PICK s \in {"decide", "effect"} : Goto(c, s) BY Zenon DEF Fact
  <2> QED BY <2>1, GotoIs DEF CallSteps, Held
<1>4. Rests(c) /\ UNCHANGED <<changeset, audited, faults>> /\ UNCHANGED <<order, at, bytes, stage, dir>>
  BY StaysIs DEF Fact, disk, Stays
<1>5. Keeps(c) BY <1>2 DEF Keeps, Present
<1>6. Arrives(c) BY <1>3 DEF Arrives, CallSteps, Held, Looping
<1>7. ASSUME ~raced PROVE PhaseAt(c)' /\ LoopAt(c)'
  <2>1. journal'[c].state \in StateAt(pos'[c].step) BY <1>2, <1>3, <1>7 DEF StateAt, Committing
  <2> QED BY <1>3, <1>7, <2>1, CallPhase, LoopFree DEF Rolling, Undoing
<1>8. dir' \in Directories /\ RecordsOK' /\ faults' \in Nat
  BY <1>2, <1>4 DEF TypeOK, DiskOK, RecordsOK, HistoryOK
<1> QED BY <1>2, <1>3, <1>4, <1>5, <1>6, <1>7, <1>8, LogStep DEF Installed

LEMMA FactFailsKeeps ==
    ASSUME MoveInv, NEW c \in Calls, FactFails(c)
    PROVE  MoveInv'
<1>1. pos[c].step = "fact" /\ pos[c].step \in Held \ {"inspect"} BY DEF FactFails, Held
<1> USE <1>1, HasLock
<1>2. /\ pos' \in [Workers -> Positions] /\ Still(c)
      /\ pos'[c].step = "over" \/ (pos'[c].step = "unproven" /\ pos'[c].rolling = pos[c].rolling)
  <2>1. CASE Turn(c) = "original_change_set" BY <2>1, OverIs DEF FactFails
  <2>2. CASE Turn(c) # "original_change_set"
    <3>1. pos \in [Workers -> Positions] BY DEF TypeOK, MemoryOK
    <3> DEFINE r == [pos[c] EXCEPT !.step = "unproven", !.tries = 1]
    <3>2. r \in Positions /\ r.rolling = pos[c].rolling /\ r.step = "unproven"
      BY DEF Positions, CallSteps, Undoing
    <3>3. pos' = [pos EXCEPT ![c] = r] BY <2>2, <3>1 DEF FactFails
    <3> HIDE DEF r
    <3> QED BY <3>1, <3>2, <3>3 DEF Still
  <2> QED BY <2>1, <2>2
<1>3. UNCHANGED <<order, task, changeset, audited, at, bytes, stage, dir, journal, stale>>
  BY DEF FactFails, OnlyLock, disk, records
<1>4. Rests(c)
  <2>1. pos'[c].step \notin Held BY <1>2 DEF Held, Committing
  <2> QED BY <2>1, <1>3 DEF FactFails, OnlyLock, OnlyFaults, Rests, history
<1>5. faults' \in Nat BY FaultIs DEF FactFails
<1>6. Keeps(c) BY <1>3 DEF Keeps, Present
<1>7. Arrives(c)
  <2>1. CASE pos'[c].step = "over" BY <2>1, Resigned
  <2>2. CASE pos'[c].step = "unproven"
    BY <2>2 DEF Arrives, CallSteps, Held, Committing, Undoing, Looping
  <2> QED BY <1>2, <2>1, <2>2
<1>8. ASSUME ~raced PROVE Works(c)' => PhaseAt(c)' /\ LoopAt(c)'
  <2>1. CASE pos'[c].step = "over" BY <2>1, Resigned
  <2>2. CASE pos'[c].step = "unproven" /\ pos'[c].rolling = pos[c].rolling
    <3>1. journal'[c].state \in StateAt(pos'[c].step) BY <1>3, <2>2 DEF StateAt, Committing, Manifests
    <3> QED BY <1>8, <2>2, <3>1, CallPhase, LoopFree DEF Rolling
  <2> QED BY <1>2, <2>1, <2>2
<1>9. dir' \in Directories /\ RecordsOK' /\ stale' \subseteq Workers \X Calls
  BY <1>3 DEF TypeOK, DiskOK, RecordsOK, MemoryOK
<1> QED BY <1>2, <1>3, <1>4, <1>5, <1>6, <1>7, <1>8, <1>9, LogStep DEF Installed

LEMMA FailedKeeps ==
    ASSUME MoveInv, NEW c \in Calls, Failed(c)
    PROVE  MoveInv'
<1>1. pos[c].step = "failed" /\ pos[c].step \in Held \ {"inspect"} BY DEF Failed, Held
<1> USE <1>1, HasLock
<1>2. /\ journal' \in [Calls -> Manifests] /\ stale' \subseteq Workers \X Calls
      /\ journal'[c].state = journal[c].state /\ journal'[c].object = journal[c].object
      /\ \A d \in Calls \ {c} : journal'[d] = journal[d]
  BY SetFactIs DEF Failed
<1>3. /\ pos' \in [Workers -> Positions] /\ Still(c) /\ pos'[c].rolling = pos[c].rolling
      /\ pos'[c].step = "rollback"
  <2>1. pos \in [Workers -> Positions] BY DEF TypeOK, MemoryOK
  <2> DEFINE r == [pos[c] EXCEPT !.step = "rollback", !.tries = 2]
  <2>2. r \in Positions /\ r.rolling = pos[c].rolling /\ r.step = "rollback"
    BY DEF Positions, CallSteps, Undoing, Rolling
  <2>3. pos' = [pos EXCEPT ![c] = r] BY <2>1 DEF Failed
  <2> HIDE DEF r
  <2> QED BY <2>1, <2>2, <2>3 DEF Still
<1>4. Rests(c) /\ UNCHANGED <<changeset, audited, faults>> /\ UNCHANGED <<order, at, bytes, stage, dir>>
  BY StaysIs DEF Failed, disk, Stays
<1>5. Keeps(c) BY <1>2 DEF Keeps, Present
<1>6. Arrives(c) BY <1>3 DEF Arrives, CallSteps, Held, Committing, Undoing, Rolling, Looping
<1>7. ASSUME ~raced PROVE PhaseAt(c)' /\ LoopAt(c)'
  <2>1. journal'[c].state \in StateAt(pos'[c].step)
    BY <1>2, <1>3 DEF StateAt, Committing, Manifests
  <2> QED BY <1>3, <1>7, <2>1, CallPhase, LoopFree DEF Rolling, Undoing
<1>8. dir' \in Directories /\ RecordsOK' /\ faults' \in Nat
  BY <1>2, <1>4 DEF TypeOK, DiskOK, RecordsOK, HistoryOK
<1> QED BY <1>2, <1>3, <1>4, <1>5, <1>6, <1>7, <1>8, LogStep DEF Installed

LEMMA FailedFailsKeeps ==
    ASSUME MoveInv, NEW c \in Calls, FailedFails(c)
    PROVE  MoveInv'
<1>1. pos[c].step = "failed" /\ pos[c].step \in Held \ {"inspect"} BY DEF FailedFails, Held
<1> USE <1>1, HasLock
<1>2. /\ pos' \in [Workers -> Positions] /\ Still(c) /\ pos'[c].rolling = pos[c].rolling
      /\ pos'[c].step = "unproven"
  <2>1. pos \in [Workers -> Positions] BY DEF TypeOK, MemoryOK
  <2> DEFINE r == [pos[c] EXCEPT !.step = "unproven", !.tries = 1]
  <2>2. r \in Positions /\ r.rolling = pos[c].rolling /\ r.step = "unproven"
    BY DEF Positions, CallSteps, Undoing
  <2>3. pos' = [pos EXCEPT ![c] = r] BY <2>1 DEF FailedFails
  <2> HIDE DEF r
  <2> QED BY <2>1, <2>2, <2>3 DEF Still
<1>3. Rests(c) /\ UNCHANGED <<order, changeset, audited, at, bytes, stage, dir, journal, stale>>
  BY DEF FailedFails, OnlyFaults, Rests, disk, records, memory, history
<1>4. faults' \in Nat BY FaultIs DEF FailedFails
<1>5. Keeps(c) BY <1>3 DEF Keeps, Present
<1>6. Arrives(c) BY <1>2 DEF Arrives, CallSteps, Held, Committing, Undoing, Looping
<1>7. ASSUME ~raced PROVE PhaseAt(c)' /\ LoopAt(c)'
  <2>1. journal'[c].state \in StateAt(pos'[c].step)
    BY <1>2, <1>3 DEF StateAt, Committing, Manifests
  <2> QED BY <1>2, <1>7, <2>1, CallPhase, LoopFree DEF Rolling, Undoing
<1>8. dir' \in Directories /\ RecordsOK' /\ stale' \subseteq Workers \X Calls
  BY <1>3 DEF TypeOK, DiskOK, RecordsOK, MemoryOK
<1> QED BY <1>2, <1>3, <1>4, <1>5, <1>6, <1>7, <1>8, LogStep DEF Installed

\* What is to be shown of the position of any worker.
LEMMA WorkerPhase ==
    ASSUME NEW w \in Workers, due' = due, On(w)' = On(w),
           journal'[On(w)].state \in StateAt(pos'[w].step),
           pos'[w].step \in Held \cup {"probe", "confirm"} => ~pos'[w].rolling,
           pos'[w].step \in Undoing /\ pos'[w].rolling => journal'[On(w)].state = "rolling_back",
           pos'[w].step \in Rolling \ {"rollback"} => pos'[w].rolling,
           w = Recovery => Seen # "rolled_back" /\ pos'[w].step # "verify"
    PROVE  PhaseAt(w)'
BY DEF PhaseAt, Seen

LEMMA DecideKeeps ==
    ASSUME MoveInv, NEW w \in Workers, Decide(w)
    PROVE  MoveInv'
<1>1. pos[w].step = "decide"
      /\ pos[w].step \in (Held \cup Undoing \cup RunSteps) \ {"inspect", "idle", "choose"}
  BY DEF Decide, Held
<1> USE <1>1, AtHand
<1>2. /\ journal' \in [Calls -> Manifests] /\ stale' \subseteq Workers \X Calls
      /\ journal'[On(w)].state = "commit_decided" /\ journal'[On(w)].object = journal[On(w)].object
      /\ \A d \in Calls \ {On(w)} : journal'[d] = journal[d]
  BY BecomeIs DEF Decide, States
<1>3. /\ pos' \in [Workers -> Positions] /\ Still(w) /\ pos'[w].rolling = pos[w].rolling
      /\ pos'[w].step \in {"drop", "finish"}
  <2>1. PICK s \in {"drop", "finish"} : Goto(w, s) BY Zenon DEF Decide
  <2> QED BY <2>1, GotoIs DEF CallSteps, Held
<1>4. /\ Rests(w) /\ UNCHANGED <<changeset, audited, faults, due>> /\ On(w)' = On(w)
      /\ UNCHANGED <<order, at, bytes, stage, dir>>
  BY StaysIs DEF Decide, disk, Stays
<1>5. Keeps(w) BY <1>2 DEF Keeps
<1>6. Arrives(w) BY <1>3 DEF Arrives, CallSteps, RunSteps, Held, Looping
<1>7. ASSUME ~raced
      PROVE  PhaseAt(w)' /\ LoopAt(w)' /\ journal[On(w)].state = Pending
  <2>1. /\ journal[On(w)].state = Pending /\ ~pos[w].rolling
        /\ w = Recovery => Seen # "rolled_back"
    BY <1>7 DEF PhaseAt, StateAt, Committing, Held
  <2>2. journal'[On(w)].state \in StateAt(pos'[w].step) BY <1>2, <1>3 DEF StateAt, Committing
  <2>3. PhaseAt(w)' BY <1>3, <1>4, <2>1, <2>2, WorkerPhase DEF Rolling, Undoing
  <2> QED BY <1>3, <2>1, <2>3, LoopFree
<1>8. dir' \in Directories /\ RecordsOK' /\ faults' \in Nat
  BY <1>2, <1>4 DEF TypeOK, DiskOK, RecordsOK, HistoryOK
<1> QED BY <1>2, <1>3, <1>4, <1>5, <1>6, <1>7, <1>8, LogStep DEF Installed

LEMMA DropKeeps ==
    ASSUME MoveInv, NEW w \in Workers, Drop(w)
    PROVE  MoveInv'
<1>1. pos[w].step = "drop"
      /\ pos[w].step \in (Held \cup Undoing \cup RunSteps) \ {"inspect", "idle", "choose"}
  BY DEF Drop, Held
<1> USE <1>1, AtHand
<1>2. /\ pos' \in [Workers -> Positions] /\ Still(w) /\ pos'[w].rolling = pos[w].rolling
      /\ pos'[w].step = "dropped"
  BY GotoIs DEF Drop, CallSteps, Held
<1>3. /\ Rests(w) /\ UNCHANGED <<changeset, audited, faults, due>> /\ On(w)' = On(w)
      /\ UNCHANGED <<order, at, bytes, stage, journal, stale>> /\ dir' = None
  BY StaysIs DEF Drop, Stays
<1>4. Keeps(w) BY <1>3 DEF Keeps, Present
<1>5. Arrives(w) BY <1>2 DEF Arrives, CallSteps, RunSteps, Held, Looping
<1>6. ASSUME ~raced PROVE PhaseAt(w)' /\ LoopAt(w)'
  <2>1. /\ journal[On(w)].state = "commit_decided" /\ ~pos[w].rolling
        /\ w = Recovery => Seen # "rolled_back"
    BY <1>6 DEF PhaseAt, StateAt, Committing, Held
  <2>2. journal'[On(w)].state \in StateAt(pos'[w].step) BY <1>2, <1>3, <2>1 DEF StateAt, Committing
  <2>3. PhaseAt(w)' BY <1>2, <1>3, <2>1, <2>2, WorkerPhase DEF Rolling, Undoing
  <2> QED BY <1>2, <2>3, LoopFree
<1>7. dir' \in Directories /\ RecordsOK' /\ faults' \in Nat /\ stale' \subseteq Workers \X Calls
  BY <1>3 DEF TypeOK, DiskOK, RecordsOK, MemoryOK, HistoryOK, Directories
<1> QED BY <1>2, <1>3, <1>4, <1>5, <1>6, <1>7, LogStep DEF Installed

LEMMA DroppedKeeps ==
    ASSUME MoveInv, NEW w \in Workers, Dropped(w)
    PROVE  MoveInv'
<1>1. pos[w].step = "dropped"
      /\ pos[w].step \in (Held \cup Undoing \cup RunSteps) \ {"inspect", "idle", "choose"}
  BY DEF Dropped, Held
<1> USE <1>1, AtHand
<1>2. /\ journal' \in [Calls -> Manifests] /\ stale' \subseteq Workers \X Calls
      /\ journal'[On(w)].state = journal[On(w)].state /\ journal'[On(w)].object = journal[On(w)].object
      /\ \A d \in Calls \ {On(w)} : journal'[d] = journal[d]
  <2>1. CASE journal[On(w)].dropped
    BY <2>1 DEF Dropped, TypeOK, RecordsOK, MemoryOK
  <2>2. CASE ~journal[On(w)].dropped
    <3> DEFINE m == [journal[On(w)] EXCEPT !.dropped = TRUE]
    <3>1. m \in Manifests /\ m.state = journal[On(w)].state /\ m.object = journal[On(w)].object
      BY ZenonT(60) DEF Manifests
    <3>2. Write(w, m) BY <2>2 DEF Dropped
    <3> HIDE DEF m
    <3> QED BY <3>1, <3>2, WriteIs
  <2> QED BY <2>1, <2>2
<1>3. /\ pos' \in [Workers -> Positions] /\ Still(w) /\ pos'[w].rolling = pos[w].rolling
      /\ pos'[w].step = "finish"
  BY GotoIs DEF Dropped, CallSteps, Held
<1>4. /\ Rests(w) /\ UNCHANGED <<changeset, audited, faults, due>> /\ On(w)' = On(w)
      /\ UNCHANGED <<order, at, bytes, stage, dir>>
  BY StaysIs DEF Dropped, disk, Stays
<1>5. Keeps(w) BY <1>2 DEF Keeps, Present
<1>6. Arrives(w) BY <1>3 DEF Arrives, CallSteps, RunSteps, Held, Looping
<1>7. ASSUME ~raced PROVE PhaseAt(w)' /\ LoopAt(w)'
  <2>1. /\ journal[On(w)].state = "commit_decided" /\ ~pos[w].rolling
        /\ w = Recovery => Seen # "rolled_back"
    BY <1>7 DEF PhaseAt, StateAt, Committing, Held
  <2>2. journal'[On(w)].state \in StateAt(pos'[w].step) BY <1>2, <1>3, <2>1 DEF StateAt, Committing
  <2>3. PhaseAt(w)' BY <1>3, <1>4, <2>1, <2>2, WorkerPhase DEF Rolling, Undoing
  <2> QED BY <1>3, <2>3, LoopFree
<1>8. dir' \in Directories /\ RecordsOK' /\ faults' \in Nat
  BY <1>2, <1>4 DEF TypeOK, DiskOK, RecordsOK, HistoryOK
<1> QED BY <1>2, <1>3, <1>4, <1>5, <1>6, <1>7, <1>8, LogStep DEF Installed

LEMMA FinishKeeps ==
    ASSUME MoveInv, NEW c \in Calls, Finish(c)
    PROVE  MoveInv'
<1>1. pos[c].step = "finish" /\ pos[c].step \in Held \ {"inspect"} BY DEF Finish, Held
<1> USE <1>1, HasLock
<1>2. /\ journal' \in [Calls -> Manifests] /\ stale' \subseteq Workers \X Calls
      /\ journal'[c].state = "committed" /\ journal'[c].object = journal[c].object
      /\ \A d \in Calls \ {c} : journal'[d] = journal[d]
  BY BecomeIs DEF Finish, States
<1>3. pos' \in [Workers -> Positions] /\ Still(c) /\ pos'[c].step = "over" BY OverIs DEF Finish
<1>4. UNCHANGED <<changeset, audited, faults, order, at, bytes, stage, dir>>
  BY DEF Finish, disk, records, limits
<1>5. Rests(c)
  <2>1. pos'[c].step \notin Held BY <1>3 DEF Held, Committing
  <2> QED BY <2>1 DEF Finish, OnlyLock, limits, Rests, history
<1>6. Keeps(c) BY <1>2 DEF Keeps
<1>7. ~raced => journal[c].state \in Installed BY DEF StateAt, Committing, Installed
<1>8. dir' \in Directories /\ RecordsOK' /\ faults' \in Nat
  BY <1>2, <1>4 DEF TypeOK, DiskOK, RecordsOK, HistoryOK
<1> QED BY <1>2, <1>3, <1>4, <1>5, <1>6, <1>7, <1>8, Resigned, LogStep

LEMMA FinalizeFailsKeeps ==
    ASSUME MoveInv, NEW c \in Calls, FinalizeFails(c)
    PROVE  MoveInv'
<1>1. pos[c].step \in Held \ {"inspect"} BY DEF FinalizeFails, Held
<1> USE <1>1, HasLock
<1>2. pos' \in [Workers -> Positions] /\ Still(c) /\ pos'[c].step = "over" BY OverIs DEF FinalizeFails
<1>3. UNCHANGED <<journal, stale, changeset, audited, order, at, bytes, stage, dir>>
  BY DEF FinalizeFails, disk, records
<1>4. Rests(c)
  <2>1. pos'[c].step \notin Held BY <1>2 DEF Held, Committing
  <2> QED BY <2>1, <1>3 DEF FinalizeFails, OnlyLock, OnlyFaults, Rests, history
<1>5. faults' \in Nat BY FaultIs DEF FinalizeFails
<1>6. Keeps(c) BY <1>3 DEF Keeps, Present
<1>7. dir' \in Directories /\ RecordsOK' /\ stale' \subseteq Workers \X Calls
  BY <1>3 DEF TypeOK, DiskOK, RecordsOK, MemoryOK
<1> QED BY <1>2, <1>3, <1>4, <1>5, <1>6, <1>7, Resigned, LogStep DEF Installed

-----------------------------------------------------------------------------
(* The rollback.                                                            *)

\* What is known of a worker in a loop of a rollback.
LEMMA InRollback ==
    ASSUME MoveInv, NEW w \in Workers, pos[w].step \in {"restage", "remove", "restore", "unstage"}
    PROVE  /\ TypeOK /\ TodoInv /\ OrderInv /\ Ready(w) /\ On(w) \in Calls /\ On(w) \in Present
           /\ Here(w) \in Sources(On(w)) /\ Here(w) \in Paths /\ Target(w) \in Paths
           /\ Here(w) \in pos[w].todo /\ pos[w].todo \subseteq Sources(On(w))
           /\ Target(w) = Plan(On(w))[Here(w)]
           /\ Object(w) = journal[On(w)].object[Here(w)] /\ Object(w) \in Objects
           /\ pos[w].step \in Looping
           /\ ~raced => /\ StageInv /\ FileInv /\ LoopAt(w)
                        /\ pos[w].rolling /\ journal[On(w)].state = "rolling_back"
                        /\ w = Recovery => Seen # "rolled_back"
<1>1. /\ pos[w].step \in (Held \cup Undoing \cup RunSteps) \ {"inspect", "idle", "choose"}
      /\ pos[w].step \in Looping /\ pos[w].step \in Undoing /\ pos[w].step \in Rolling \ {"rollback"}
  BY DEF Undoing, Rolling, Looping
<1>2. ~raced => PhaseAt(w) BY <1>1, AtHand
<1>3. ~raced => pos[w].rolling /\ journal[On(w)].state = "rolling_back" /\ (w = Recovery => Seen # "rolled_back")
  BY <1>1, <1>2 DEF PhaseAt
<1> QED BY <1>1, <1>3, AtHand, HereIs DEF TodoInv, OrderInv

\* The loops of a rollback follow one another.
LEMMA RollbackGoes ==
    ASSUME MoveInv, NEW w \in Workers, pos[w].step \in {"restage", "remove", "restore", "unstage"},
           NEW s \in {"restage", "remove", "restore", "unstage"},
           NEW n \in {"remove", "restore", "unstage", "rmdir"}, Done(w, s, n), Stays,
           UNCHANGED <<journal, stale>>
    PROVE  /\ pos' \in [Workers -> Positions] /\ Still(w) /\ Arrives(w) /\ Rests(w)
           /\ UNCHANGED <<changeset, audited, faults, task, due, removed>> /\ On(w)' = On(w)
           /\ Sources(On(w))' = Sources(On(w)) /\ Plan(On(w))' = Plan(On(w))
           /\ ~raced => PhaseAt(w)'
           /\ \/ /\ pos'[w].step = n /\ pos'[w].todo = Sources(On(w))
                 /\ \A p \in Sources(On(w)) : p \in Sources(On(w)) \ pos[w].todo \/ p = Here(w)
              \/ /\ pos'[w].step = s
                 /\ Sources(On(w)) \ pos'[w].todo = (Sources(On(w)) \ pos[w].todo) \cup {Here(w)}
<1> USE InRollback
<1>1. s \in CallSteps \cup RunSteps /\ n \in CallSteps \cup RunSteps BY DEF RunSteps, Rolling
<1>2. /\ pos' \in [Workers -> Positions] /\ Still(w) /\ pos'[w].rolling = pos[w].rolling
      /\ pos'[w].todo # {} /\ pos'[w].todo \subseteq Sources(On(w))
      /\ \/ /\ pos'[w].step = n /\ pos'[w].todo = Sources(On(w))
            /\ \A p \in Sources(On(w)) : p \in Sources(On(w)) \ pos[w].todo \/ p = Here(w)
         \/ pos'[w].step = s /\ pos'[w].todo = pos[w].todo \ {Here(w)}
  BY <1>1, DoneGoes
<1>3. Rests(w) /\ UNCHANGED <<changeset, audited, faults, task, due>> /\ On(w)' = On(w)
      /\ Sources(On(w))' = Sources(On(w)) /\ Plan(On(w))' = Plan(On(w))
  BY StaysIs
<1>4. UNCHANGED removed BY <1>3 DEF Rests, history
<1>5. pos'[w].step \in {"restage", "remove", "restore", "unstage", "rmdir"} BY <1>2
<1>6. Arrives(w) BY <1>2, <1>5 DEF Arrives, CallSteps, RunSteps, Held, Committing, Undoing, Rolling
<1>7. ~raced => PhaseAt(w)'
  <2>1. ~raced => journal'[On(w)].state \in StateAt(pos'[w].step) BY <1>5 DEF StateAt, Committing, States
  <2> QED BY <1>2, <1>3, <1>5, <2>1, WorkerPhase DEF Held, Committing
<1>8. pos'[w].todo = pos[w].todo \ {Here(w)} =>
        Sources(On(w)) \ pos'[w].todo = (Sources(On(w)) \ pos[w].todo) \cup {Here(w)}
  OBVIOUS
<1> QED BY <1>2, <1>3, <1>4, <1>6, <1>7, <1>8

LEMMA BeginRollbackKeeps ==
    ASSUME MoveInv, NEW w \in Workers, BeginRollback(w)
    PROVE  MoveInv'
<1>1. pos[w].step = "rollback" /\ pos[w].step \in Undoing
      /\ pos[w].step \in (Held \cup Undoing \cup RunSteps) \ {"inspect", "idle", "choose"}
  BY DEF BeginRollback, Undoing, Rolling
<1> USE <1>1, AtHand
<1>2. ~raced => (w = Recovery => Seen # "rolled_back") BY DEF PhaseAt
<1>3. ~raced => (pos[w].rolling => journal[On(w)].state = "rolling_back") BY <1>2 DEF PhaseAt
<1>4. /\ journal' \in [Calls -> Manifests] /\ stale' \subseteq Workers \X Calls
      /\ journal'[On(w)].object = journal[On(w)].object
      /\ journal'[On(w)].state = journal[On(w)].state \/ journal'[On(w)].state = "rolling_back"
      /\ ~raced => journal'[On(w)].state = "rolling_back"
      /\ \A d \in Calls \ {On(w)} : journal'[d] = journal[d]
  <2>1. CASE pos[w].rolling
    BY <2>1, <1>3 DEF BeginRollback, TypeOK, RecordsOK, MemoryOK
  <2>2. CASE ~pos[w].rolling BY <2>2, BecomeIs DEF BeginRollback, States
  <2> QED BY <2>1, <2>2
<1>5. /\ pos' \in [Workers -> Positions] /\ Still(w) /\ pos'[w].rolling
      /\ pos'[w].step = "restage" /\ pos'[w].todo = Sources(On(w))
  <2>1. pos \in [Workers -> Positions] BY DEF TypeOK, MemoryOK
  <2> DEFINE r == [pos[w] EXCEPT !.step = "restage", !.todo = Sources(On(w)), !.rolling = TRUE]
  <2>2. r \in Positions /\ r.rolling /\ r.step = "restage" /\ r.todo = Sources(On(w))
    BY DEF Positions, CallSteps, Undoing, Rolling
  <2>3. pos' = [pos EXCEPT ![w] = r] BY <2>1 DEF BeginRollback
  <2> HIDE DEF r
  <2> QED BY <2>1, <2>2, <2>3 DEF Still
<1>6. /\ Rests(w) /\ UNCHANGED <<changeset, audited, faults, due>> /\ On(w)' = On(w)
      /\ UNCHANGED <<order, at, bytes, stage, dir>> /\ Sources(On(w))' = Sources(On(w))
  BY StaysIs DEF BeginRollback, disk, Stays
<1>7. Keeps(w) BY <1>4 DEF Keeps, Present
<1>8. Arrives(w)
  BY <1>5 DEF Arrives, CallSteps, RunSteps, Held, Committing, Undoing, Rolling, Looping
<1>9. ASSUME ~raced PROVE PhaseAt(w)' /\ LoopAt(w)'
  <2>1. journal'[On(w)].state \in StateAt(pos'[w].step) BY <1>4, <1>5, <1>9 DEF StateAt, Committing, States
  <2>2. PhaseAt(w)' BY <1>2, <1>4, <1>5, <1>6, <1>9, <2>1, WorkerPhase DEF Held, Committing
  <2>3. LoopAt(w)' BY <1>5, <1>6 DEF LoopAt
  <2> QED BY <2>2, <2>3
<1>10. dir' \in Directories /\ RecordsOK' /\ faults' \in Nat
  BY <1>4, <1>6 DEF TypeOK, DiskOK, RecordsOK, HistoryOK
<1> QED BY <1>4, <1>5, <1>6, <1>7, <1>8, <1>9, <1>10, LogStep DEF Installed, Pending

LEMMA RestageKeeps ==
    ASSUME MoveInv, NEW w \in Workers, Restage(w)
    PROVE  MoveInv'
<1>1. pos[w].step = "restage" /\ UNCHANGED <<at, bytes, dir, journal, stale>> /\ Stays
  BY DEF Restage
<1>0. PICK c \in Calls, h \in Paths, o \in Objects : c = On(w) /\ h = Here(w) /\ o = Object(w)
  BY <1>1, InRollback
<1>2. /\ TypeOK /\ Ready(w) /\ c \in Calls /\ h \in Sources(c) /\ h \in Paths
      /\ o = journal[c].object[h] /\ o \in Objects
      /\ ~raced => StageInv /\ LoopAt(w) /\ journal[c].state = "rolling_back"
  BY <1>0, <1>1, InRollback
<1>3. /\ pos' \in [Workers -> Positions] /\ Still(w) /\ Arrives(w) /\ Rests(w)
      /\ UNCHANGED <<changeset, audited, faults, task, due, removed>> /\ On(w)' = On(w)
      /\ Sources(c)' = Sources(c) /\ (~raced => PhaseAt(w)')
      /\ \/ /\ pos'[w].step = "remove"
            /\ \A p \in Sources(c) : p \in Sources(c) \ pos[w].todo \/ p = h
         \/ /\ pos'[w].step = "restage"
            /\ Sources(c) \ pos'[w].todo = (Sources(c) \ pos[w].todo) \cup {h}
  BY <1>0, <1>1, RollbackGoes DEF Restage
<1>4. at[h] = o \/ stage'[c][h] = o
  <2>1. stage \in [Calls -> [Paths -> Names]] BY <1>2 DEF TypeOK, DiskOK
  <2>2. CASE AtSource(w) BY <1>0, <2>2 DEF AtSource
  <2>3. CASE ~AtSource(w)
    <3>1. stage' = [stage EXCEPT ![c][h] = o] BY <1>0, <2>3 DEF Restage
    <3> QED BY <1>2, <2>1, <3>1
  <2> QED BY <2>2, <2>3
<1>5. /\ stage' \in [Calls -> [Paths -> Names]] /\ at' \in [Paths -> Names]
      /\ \A d \in Calls, p \in Paths : stage'[d][p] = stage[d][p] \/ (d = c /\ p = h /\ stage'[d][p] = o)
  <2>1. stage \in [Calls -> [Paths -> Names]] /\ at \in [Paths -> Names] BY <1>2 DEF TypeOK, DiskOK
  <2>2. stage' = stage \/ stage' = [stage EXCEPT ![c][h] = o] BY <1>0 DEF Restage
  <2> QED BY <1>1, <1>2, <2>1, <2>2 DEF Names
<1>6. ASSUME ~raced
      PROVE  /\ \A d \in Calls, p \in Paths : stage'[d][p] \in {None, stage[d][p]} \/
                  /\ d = c /\ p \in Sources(d) /\ stage'[d][p] = journal[d].object[p]
                  /\ journal[d].state \notin Installed
             /\ \A n \in Objects : Named(n) => Named(n)'
             /\ PhaseAt(w)' /\ LoopAt(w)'
  <2>1. \A d \in Calls, p \in Paths : stage'[d][p] \in {None, stage[d][p]} \/
          /\ d = c /\ p \in Sources(d) /\ stage'[d][p] = journal[d].object[p]
          /\ journal[d].state \notin Installed
    BY <1>2, <1>5, <1>6 DEF Installed, Pending
  <2>2. stage[c][h] \in {None, o} BY <1>2, <1>6 DEF StageInv
  <2>3. \A n \in Objects : Named(n) => Named(n)'
    <3>1. \A n \in Objects : n # None BY MoveAssumption
    <3> QED BY <1>1, <1>3, <1>5, <2>2, <3>1, NamesStay
  <2>4. \A p \in Sources(c) \ pos[w].todo : Safe(c, p) BY <1>0, <1>1, <1>2, <1>6 DEF LoopAt
  <2>5. Sources(c) \subseteq Paths BY <1>2, PlanIs
  <2>6. \A p \in (Sources(c) \ pos[w].todo) \cup {h} : Safe(c, p)'
    <3>1. Safe(c, h)' BY <1>1, <1>2, <1>4 DEF Safe
    <3>2. ASSUME NEW p \in Sources(c) \ pos[w].todo PROVE Safe(c, p)'
      <4>1. Safe(c, p) /\ p \in Paths BY <2>4, <2>5
      <4>2. CASE stage'[c][p] = stage[c][p] BY <1>1, <1>3, <4>1, <4>2 DEF Safe, Gone
      <4>3. CASE p = h BY <3>1, <4>3
      <4> QED BY <1>2, <1>5, <4>1, <4>2, <4>3
    <3> QED BY <3>1, <3>2
  <2>7. CASE pos'[w].step = "remove"
    <3>1. \A p \in Sources(c) : Safe(c, p)' BY <1>3, <2>6, <2>7
    <3>2. LoopAt(w)' BY <1>0, <1>3, <2>7, <3>1 DEF LoopAt
    <3> QED BY <1>3, <1>6, <2>1, <2>3, <3>2
  <2>8. CASE pos'[w].step = "restage" /\ Sources(c) \ pos'[w].todo = (Sources(c) \ pos[w].todo) \cup {h}
    <3>1. LoopAt(w)' BY <1>0, <1>3, <2>6, <2>8 DEF LoopAt
    <3> QED BY <1>3, <1>6, <2>1, <2>3, <3>1
  <2> QED BY <1>3, <2>7, <2>8
<1> QED BY <1>0, <1>1, <1>2, <1>3, <1>5, <1>6, FileStep

\* What removes a destination leaves the file the name its operation or, when
\* it had been installed by no operation of this move, an anchor for it.
LEMMA RemoveKeeps ==
    ASSUME MoveInv, NEW w \in Workers, Remove(w)
    PROVE  MoveInv'
<1>1. pos[w].step = "remove" /\ UNCHANGED <<bytes, dir, stage, journal, stale>> /\ Stays
  BY DEF Remove
<1>0. PICK c \in Calls, h \in Paths, o \in Objects, t \in Paths :
        c = On(w) /\ h = Here(w) /\ o = Object(w) /\ t = Target(w)
  BY <1>1, InRollback
<1>2. /\ TypeOK /\ Ready(w) /\ h \in Sources(c) /\ c \in Present
      /\ o = journal[c].object[h] /\ t = Plan(c)[h]
      /\ ~raced => StageInv /\ LoopAt(w) /\ journal[c].state = "rolling_back"
  BY <1>0, <1>1, InRollback
<1>3. /\ pos' \in [Workers -> Positions] /\ Still(w) /\ Arrives(w) /\ Rests(w)
      /\ UNCHANGED <<changeset, audited, faults, task, due, removed>> /\ On(w)' = On(w)
      /\ Sources(c)' = Sources(c) /\ Plan(c)' = Plan(c) /\ (~raced => PhaseAt(w)')
      /\ \/ pos'[w].step = "restore" /\ pos'[w].todo = Sources(c)
         \/ pos'[w].step = "remove"
  BY <1>0, <1>1, RollbackGoes DEF Remove
<1>4. /\ at' \in [Paths -> Names] /\ stage' \in [Calls -> [Paths -> Names]]
      /\ \A q \in Paths : at'[q] = at[q] \/ (q = t /\ at[q] = o)
  <2>1. at \in [Paths -> Names] /\ stage \in [Calls -> [Paths -> Names]] BY <1>2 DEF TypeOK, DiskOK
  <2>2. at' = at \/ (at[t] = o /\ at' = [at EXCEPT ![t] = None]) BY <1>0, Zenon DEF Remove, Ours
  <2> QED BY <1>1, <2>1, <2>2 DEF Names
<1>5. \A d \in Calls, p \in Paths : stage'[d][p] \in {None, stage[d][p]} BY <1>1
<1>6. ASSUME ~raced
      PROVE  /\ (\A d \in Present : Anchored(d)) => \A n \in Objects : Named(n) => Named(n)'
             /\ PhaseAt(w)' /\ LoopAt(w)'
  <2>1. \A r \in Sources(c) : Anchor(c, r, r) => Safe(c, r) BY <1>0, <1>1, <1>6, <1>2 DEF LoopAt
  <2>2. Sources(c) \subseteq Paths BY <1>2, PlanIs
  <2>3. ASSUME NEW r \in Sources(c), Anchor(c, r, r) PROVE Safe(c, r) /\ Safe(c, r)'
    <3>1. Safe(c, r) BY <2>1, <2>3
    <3>2. r = t => at[r] # o \/ journal[c].object[r] # o BY <1>2, <2>3 DEF Anchor
    <3>3. at[r] = journal[c].object[r] => at'[r] = at[r] BY <1>4, <2>2, <3>2
    <3> QED BY <1>1, <1>3, <3>1, <3>3 DEF Safe, Gone
  <2>4. ASSUME \A d \in Present : Anchored(d) PROVE \A n \in Objects : Named(n) => Named(n)'
    <3>1. PICK r \in Sources(c) : Anchor(c, h, r) BY <1>2, <2>4 DEF Anchored
    <3>2. journal[c].object[r] = o /\ Anchor(c, r, r) BY <1>2, <3>1 DEF Anchor
    <3>3. Safe(c, r)' BY <2>3, <3>2
    <3>4. at'[r] = o \/ stage'[c][r] = o \/ o \in removed' BY <1>1, <3>2, <3>3 DEF Safe, Gone
    <3>5. \A n \in Objects : n = o => Named(n)' BY <2>2, <3>4 DEF Named
    <3>6. \A n \in Objects, q \in Paths : at[q] = n => at'[q] = n \/ Named(n)' BY <1>4, <3>5
    <3> QED BY <1>1, <1>3, <3>6, NamesStay
  <2>5. CASE pos'[w].step = "remove"
    <3>1. \A r \in Sources(c) : Anchor(c, r, r)' => Anchor(c, r, r) BY <1>1, <1>3 DEF Anchor
    <3>2. \A r \in Sources(c) : Anchor(c, r, r)' => Safe(c, r)' BY <2>3, <3>1
    <3>3. LoopAt(w)' BY <1>0, <1>3, <2>5, <3>2 DEF LoopAt
    <3> QED BY <1>3, <1>6, <2>4, <3>3
  <2>6. CASE pos'[w].step = "restore" /\ pos'[w].todo = Sources(c)
    <3>1. LoopAt(w)' BY <1>0, <1>3, <2>6 DEF LoopAt
    <3> QED BY <1>3, <1>6, <2>4, <3>1
  <2> QED BY <1>3, <2>5, <2>6
<1> QED BY <1>0, <1>1, <1>2, <1>3, <1>4, <1>5, <1>6, FileStep

LEMMA RestoreKeeps ==
    ASSUME MoveInv, NEW w \in Workers, Restore(w)
    PROVE  MoveInv'
<1>1. pos[w].step = "restore" /\ UNCHANGED <<bytes, dir, stage, journal, stale>> /\ Stays
  BY DEF Restore
<1>0. PICK c \in Calls, h \in Paths, o \in Objects : c = On(w) /\ h = Here(w) /\ o = Object(w)
  BY <1>1, InRollback
<1>2. /\ TypeOK /\ TodoInv /\ Ready(w) /\ h \in Sources(c) /\ c \in Present /\ o = journal[c].object[h]
      /\ pos[w].todo \subseteq Sources(c) /\ h \in pos[w].todo
      /\ ~raced => /\ StageInv /\ LoopAt(w) /\ journal[c].state = "rolling_back" /\ pos[w].rolling
                   /\ w = Recovery => Seen # "rolled_back"
  BY <1>0, <1>1, InRollback
<1>3. /\ Rests(w) /\ UNCHANGED <<changeset, audited, faults, task, due>> /\ On(w)' = On(w)
      /\ Sources(c)' = Sources(c)
  BY <1>1, StaysIs
<1>4. UNCHANGED removed BY <1>3 DEF Rests, history
<1>5. at \in [Paths -> Names] /\ stage \in [Calls -> [Paths -> Names]] /\ pos \in [Workers -> Positions]
  BY <1>2 DEF TypeOK, DiskOK, MemoryOK
<1>6. Sources(c) \subseteq Paths BY <1>2, PlanIs
<1>7. ~raced => \A p \in Sources(c) \ pos[w].todo : Back(c, p) BY <1>0, <1>1, <1>2 DEF LoopAt
<1>8. CASE AtSource(w)
  <2>1. at[h] = o /\ UNCHANGED at BY <1>0, <1>8 DEF AtSource, Restore
  <2>2. /\ pos' \in [Workers -> Positions] /\ Still(w) /\ Arrives(w)
        /\ (~raced => PhaseAt(w)')
        /\ \/ /\ pos'[w].step = "unstage"
              /\ \A p \in Sources(c) : p \in Sources(c) \ pos[w].todo \/ p = h
           \/ /\ pos'[w].step = "restore"
              /\ Sources(c) \ pos'[w].todo = (Sources(c) \ pos[w].todo) \cup {h}
    BY <1>0, <1>1, <1>8, RollbackGoes DEF Restore
  <2>3. ASSUME ~raced PROVE PhaseAt(w)' /\ LoopAt(w)'
    <3>1. \A p \in (Sources(c) \ pos[w].todo) \cup {h} : Back(c, p)'
      BY <1>1, <1>2, <1>4, <1>7, <2>1, <2>3 DEF Back, Gone
    <3>2. CASE pos'[w].step = "unstage"
      <4>1. \A p \in Sources(c) : Back(c, p)' BY <2>2, <3>1, <3>2
      <4> QED BY <1>0, <1>3, <2>2, <2>3, <3>2, <4>1 DEF LoopAt
    <3>3. CASE pos'[w].step = "restore" /\ Sources(c) \ pos'[w].todo = (Sources(c) \ pos[w].todo) \cup {h}
      BY <1>0, <1>3, <2>2, <2>3, <3>1, <3>3 DEF LoopAt
    <3> QED BY <2>2, <3>2, <3>3
  <2>4. \A n \in Objects : Named(n) => Named(n)' BY <1>1, <1>4, <2>1 DEF Named
  <2> QED BY <1>0, <1>1, <1>2, <1>3, <1>5, <2>1, <2>2, <2>3, <2>4, FileStep
<1>9. CASE ~AtSource(w)
  <2>1. at[h] = None /\ UNCHANGED pos /\ at' = [at EXCEPT ![h] = o]
    BY <1>0, <1>9 DEF CanRestore, Restore
  <2>2. /\ at' \in [Paths -> Names]
        /\ \A q \in Paths : at'[q] = IF q = h THEN o ELSE at[q]
    BY <1>5, <2>1 DEF Names
  <2>3. Still(w) /\ pos' \in [Workers -> Positions] BY <1>5, <2>1 DEF Still
  <2>4. Arrives(w)
    BY <1>0, <1>1, <1>2, <2>1 DEF Arrives, CallSteps, RunSteps, Held, Committing, Undoing, Rolling
  <2>5. \A n \in Objects : Named(n) => Named(n)'
    <3>1. \A n \in Objects : n # None BY MoveAssumption
    <3> QED BY <1>1, <1>4, <2>1, <2>2, <3>1, NamesStay
  <2>6. ASSUME ~raced PROVE PhaseAt(w)' /\ LoopAt(w)'
    <3>1. journal'[On(w)].state \in StateAt(pos'[w].step)
      BY <1>0, <1>1, <1>2, <2>1, <2>6 DEF StateAt, Committing, States
    <3>2. PhaseAt(w)'
      BY <1>0, <1>1, <1>2, <1>3, <2>1, <2>6, <3>1, WorkerPhase DEF Held, Committing
    <3>3. \A p \in Sources(c) \ pos'[w].todo : Back(c, p)'
      BY <1>1, <1>2, <1>4, <1>6, <1>7, <2>1, <2>2, <2>6 DEF Back, Gone
    <3>4. LoopAt(w)' BY <1>0, <1>1, <1>3, <2>1, <3>3 DEF LoopAt
    <3> QED BY <3>2, <3>4
  <2> QED BY <1>0, <1>1, <1>2, <1>3, <1>5, <2>2, <2>3, <2>4, <2>5, <2>6, FileStep
<1> QED BY <1>8, <1>9

LEMMA UnstageKeeps ==
    ASSUME MoveInv, NEW w \in Workers, Unstage(w)
    PROVE  MoveInv'
<1>1. pos[w].step = "unstage" /\ UNCHANGED <<at, bytes, dir, journal, stale>> /\ Stays
  BY DEF Unstage
<1>0. PICK c \in Calls, h \in Paths : c = On(w) /\ h = Here(w)
  BY <1>1, InRollback
<1>2. /\ TypeOK /\ Ready(w) /\ h \in Sources(c)
      /\ ~raced => StageInv /\ LoopAt(w)
  BY <1>0, <1>1, InRollback
<1>3. /\ pos' \in [Workers -> Positions] /\ Still(w) /\ Arrives(w) /\ Rests(w)
      /\ UNCHANGED <<changeset, audited, faults, task, due, removed>> /\ On(w)' = On(w)
      /\ Sources(c)' = Sources(c) /\ (~raced => PhaseAt(w)')
      /\ pos'[w].step \in {"unstage", "rmdir"}
  BY <1>0, <1>1, RollbackGoes DEF Unstage
<1>4. /\ at' \in [Paths -> Names] /\ stage' \in [Calls -> [Paths -> Names]]
      /\ \A d \in Calls, p \in Paths : stage'[d][p] = IF d = c /\ p = h THEN None ELSE stage[d][p]
  <2>1. at \in [Paths -> Names] /\ stage \in [Calls -> [Paths -> Names]] BY <1>2 DEF TypeOK, DiskOK
  <2>2. stage' = [stage EXCEPT ![c][h] = None] BY <1>0 DEF Unstage
  <2> QED BY <1>1, <2>1, <2>2 DEF Names
<1>5. \A d \in Calls, p \in Paths : stage'[d][p] \in {None, stage[d][p]} BY <1>4
<1>6. ASSUME ~raced
      PROVE  (\A n \in Objects : Named(n) => Named(n)') /\ PhaseAt(w)' /\ LoopAt(w)'
  <2>1. \A p \in Sources(c) : Back(c, p) BY <1>0, <1>1, <1>2, <1>6 DEF LoopAt
  <2>2. \A p \in Sources(c) : Back(c, p)' BY <1>1, <1>3, <2>1 DEF Back, Gone
  <2>3. LoopAt(w)' BY <1>0, <1>3, <2>2 DEF LoopAt
  <2>4. stage[c][h] # None => stage[c][h] = at[h] \/ stage[c][h] \in removed
    BY <1>2, <1>6, <2>1 DEF StageInv, Back, Gone
  <2>5. \A n \in Objects : n # None BY MoveAssumption
  <2>6. \A n \in Objects : n = stage[c][h] => Named(n)' BY <1>1, <1>3, <2>4, <2>5 DEF Named
  <2>7. \A n \in Objects, d \in Calls, q \in Paths : stage[d][q] = n => stage'[d][q] = n \/ Named(n)'
    BY <1>4, <2>6
  <2>8. \A n \in Objects : Named(n) => Named(n)' BY <1>1, <1>3, <2>7, NamesStay
  <2> QED BY <1>3, <1>6, <2>3, <2>8
<1> QED BY <1>0, <1>1, <1>2, <1>3, <1>4, <1>5, <1>6, FileStep

LEMMA RemoveDirectoryKeeps ==
    ASSUME MoveInv, NEW w \in Workers, RemoveDirectory(w)
    PROVE  MoveInv'
<1>1. pos[w].step = "rmdir" /\ pos[w].step \in Undoing
      /\ pos[w].step \in (Held \cup Undoing \cup RunSteps) \ {"inspect", "idle", "choose"}
  BY DEF RemoveDirectory, Undoing, Rolling
<1> USE <1>1, AtHand
<1>2. /\ pos' \in [Workers -> Positions] /\ Still(w) /\ pos'[w].rolling = pos[w].rolling
      /\ pos'[w].step = "conclude"
  BY GotoIs DEF RemoveDirectory, CallSteps, Undoing, Rolling
<1>3. /\ Rests(w) /\ UNCHANGED <<changeset, audited, faults, due>> /\ On(w)' = On(w)
      /\ UNCHANGED <<order, at, bytes, stage, journal, stale>>
  BY StaysIs DEF RemoveDirectory, Stays
<1>4. Keeps(w) BY <1>3 DEF Keeps, Present
<1>5. Arrives(w)
  BY <1>2 DEF Arrives, CallSteps, RunSteps, Held, Committing, Undoing, Rolling, Looping
<1>6. ASSUME ~raced PROVE PhaseAt(w)' /\ LoopAt(w)'
  <2>1. journal[On(w)].state \in {"rolling_back", "rolled_back"} BY <1>6 DEF PhaseAt, StateAt, Committing
  <2>2. journal'[On(w)].state \in StateAt(pos'[w].step) BY <1>2, <1>3, <2>1 DEF StateAt, Committing
  <2>3. "conclude" \in Undoing /\ "conclude" \notin Held \cup {"probe", "confirm"} /\ "conclude" \in Rolling \ {"rollback"}
        /\ "rmdir" \in Rolling \ {"rollback"}
    BY DEF Undoing, Rolling, Held, Committing
  <2>4. PhaseAt(w) /\ Seen' = Seen BY <1>3, <1>6 DEF Seen
  <2>5. PhaseAt(w)' BY <1>2, <1>3, <2>2, <2>3, <2>4 DEF PhaseAt
  <2> QED BY <1>2, <2>5, LoopFree
<1>7. dir' \in Directories /\ RecordsOK' /\ faults' \in Nat /\ stale' \subseteq Workers \X Calls
  BY <1>3 DEF TypeOK, DiskOK, RecordsOK, MemoryOK, HistoryOK, RemoveDirectory, Directories
<1> QED BY <1>2, <1>3, <1>4, <1>5, <1>6, <1>7, LogStep DEF Installed

\* What a rollback or a service does with the change set of a transaction that
\* is not to stand.
LEMMA GiveUpIs ==
    ASSUME TypeOK, NEW c \in Calls, GiveUp(c)
    PROVE  changeset' \in [Calls -> {"none", "active", "undone", "recovery_required"}] /\ faults' \in Nat
<1> DEFINE C == {"none", "active", "undone", "recovery_required"}
<1>1. changeset \in [Calls -> C] /\ faults \in Nat BY DEF TypeOK, RecordsOK, HistoryOK
<1>2. CASE /\ changeset' = [changeset EXCEPT ![c] = IF @ = "active" THEN "recovery_required" ELSE @]
           /\ UNCHANGED faults
  BY <1>1, <1>2
<1>3. CASE Fault /\ UNCHANGED changeset BY <1>1, <1>3 DEF Fault
<1> QED BY <1>2, <1>3 DEF GiveUp

LEMMA RollbackFailsKeeps ==
    ASSUME MoveInv, NEW c \in Calls, RollbackFails(c)
    PROVE  MoveInv'
<1>1. c \in Workers /\ pos[c].step \in Undoing
      /\ pos[c].step \in (Held \cup Undoing \cup RunSteps) \ {"inspect", "idle", "choose"}
  BY DEF RollbackFails, Undoing, Rolling, Workers
<1> USE <1>1, AtHand
<1>2. /\ journal' \in [Calls -> Manifests] /\ stale' \subseteq Workers \X Calls
      /\ journal'[c].object = journal[c].object
      /\ journal'[c] = journal[c] \/ (Fresh(c) /\ journal'[c].state = "recovery_required")
      /\ \A d \in Calls \ {c} : journal'[d] = journal[d]
  <2>1. CASE Fresh(c) BY <2>1, BecomeIs DEF RollbackFails, States
  <2>2. CASE ~Fresh(c) BY <2>2 DEF RollbackFails, TypeOK, RecordsOK, MemoryOK
  <2> QED BY <2>1, <2>2
<1>3. /\ pos' \in [Workers -> Positions] /\ Still(c)
      /\ pos'[c].step = "over" \/ /\ pos'[c].step = "unproven"
                                  /\ pos'[c].rolling => pos[c].rolling /\ ~Fresh(c)
  <2>1. CASE pos[c].tries > 1
    <3>1. pos \in [Workers -> Positions] BY DEF TypeOK, MemoryOK
    <3> DEFINE r == [step |-> "unproven", todo |-> {}, tries |-> 1, rolling |-> pos[c].rolling /\ ~Fresh(c)]
    <3>2. r.rolling = (pos[c].rolling /\ ~Fresh(c)) /\ r.step = "unproven" OBVIOUS
    <3>3. r \in Positions
      <4>1. (pos[c].rolling /\ ~Fresh(c)) \in BOOLEAN OBVIOUS
      <4>2. "unproven" \in CallSteps \cup RunSteps BY DEF CallSteps, Undoing
      <4> QED BY <4>1, <4>2 DEF Positions
    <3>4. pos' = [pos EXCEPT ![c] = r] BY <2>1 DEF RollbackFails
    <3> HIDE DEF r
    <3> QED BY <3>1, <3>2, <3>3, <3>4 DEF Still
  <2>2. CASE ~(pos[c].tries > 1) BY <2>2, OverIs DEF RollbackFails
  <2> QED BY <2>1, <2>2
<1>4. UNCHANGED <<order, changeset, audited, at, bytes, stage, dir>>
  BY DEF RollbackFails, disk, records
<1>5. Rests(c)
  <2>1. pos'[c].step \notin Held BY <1>3 DEF Held, Committing
  <2> QED BY <2>1, <1>4 DEF RollbackFails, OnlyLock, OnlyFaults, Rests, history
<1>6. faults' \in Nat BY FaultIs DEF RollbackFails
<1>7. Keeps(c) BY <1>2 DEF Keeps, Present
<1>8. Arrives(c)
  <2>1. CASE pos'[c].step = "over" BY <2>1, Resigned
  <2>2. CASE pos'[c].step = "unproven"
    BY <2>2 DEF Arrives, CallSteps, Held, Committing, Undoing, Looping
  <2> QED BY <1>3, <2>1, <2>2
<1>9. ASSUME ~raced PROVE Works(c)' => PhaseAt(c)' /\ LoopAt(c)'
  <2>1. CASE pos'[c].step = "over" BY <2>1, Resigned
  <2>2. CASE pos'[c].step = "unproven" /\ (pos'[c].rolling => pos[c].rolling /\ ~Fresh(c))
    <3>1. journal'[c].state \in StateAt(pos'[c].step) BY <1>2, <2>2 DEF StateAt, Committing, Manifests
    <3>2. PhaseAt(c) BY <1>9
    <3>3. pos'[c].rolling => journal'[c].state = "rolling_back" BY <1>2, <2>2, <3>2 DEF PhaseAt
    <3>4. "unproven" \notin Held \cup Rolling \cup {"probe", "confirm"} BY DEF Held, Committing, Rolling
    <3> QED BY <2>2, <3>1, <3>3, <3>4, CallPhase, LoopFree
  <2> QED BY <1>3, <2>1, <2>2
<1>10. dir' \in Directories /\ RecordsOK' BY <1>2, <1>4 DEF TypeOK, DiskOK, RecordsOK
<1> QED BY <1>2, <1>3, <1>4, <1>5, <1>6, <1>7, <1>8, <1>9, <1>10, LogStep DEF Installed, Pending

LEMMA UnprovenKeeps ==
    ASSUME MoveInv, NEW c \in Calls, Unproven(c)
    PROVE  MoveInv'
<1>1. c \in Workers /\ pos[c].step = "unproven" /\ pos[c].step \in Undoing
      /\ pos[c].step \in (Held \cup Undoing \cup RunSteps) \ {"inspect", "idle", "choose"}
  BY DEF Unproven, Undoing, Workers
<1> USE <1>1, AtHand
<1>2. /\ pos' \in [Workers -> Positions] /\ Still(c) /\ pos'[c].rolling = pos[c].rolling
      /\ pos'[c].step = "rollback"
  BY GotoIs DEF Unproven, CallSteps, Undoing, Rolling
<1>3. Rests(c) /\ UNCHANGED <<order, at, bytes, stage, dir, journal, audited, stale>>
  BY DEF Unproven, OnlyFaults, Rests, disk, memory, history
<1>4. changeset' \in [Calls -> {"none", "active", "undone", "recovery_required"}] /\ faults' \in Nat
  BY GiveUpIs DEF Unproven
<1>5. Keeps(c) BY <1>3 DEF Keeps, Present
<1>6. Arrives(c) BY <1>2 DEF Arrives, CallSteps, Held, Committing, Undoing, Rolling, Looping
<1>7. ASSUME ~raced PROVE PhaseAt(c)' /\ LoopAt(c)'
  <2>1. journal'[c].state \in StateAt(pos'[c].step)
    BY <1>2, <1>3 DEF StateAt, Committing, Manifests
  <2>2. pos'[c].rolling => journal'[c].state = "rolling_back" BY <1>2, <1>3, <1>7 DEF PhaseAt
  <2> QED BY <1>2, <2>1, <2>2, CallPhase, LoopFree DEF Held, Committing
<1>8. dir' \in Directories /\ RecordsOK' /\ stale' \subseteq Workers \X Calls
  BY <1>3, <1>4 DEF TypeOK, DiskOK, RecordsOK, MemoryOK
<1> QED BY <1>2, <1>3, <1>4, <1>5, <1>6, <1>7, <1>8, LogStep DEF Installed

LEMMA ConcludeKeeps ==
    ASSUME MoveInv, NEW c \in Calls, Conclude(c)
    PROVE  MoveInv'
<1>1. c \in Workers /\ pos[c].step = "conclude"
      /\ pos[c].step \in (Held \cup Undoing \cup RunSteps) \ {"inspect", "idle", "choose"}
  BY DEF Conclude, Undoing, Rolling, Workers
<1> USE <1>1, AtHand
<1>2. /\ journal' \in [Calls -> Manifests] /\ stale' \subseteq Workers \X Calls
      /\ journal'[c].state = "rolled_back" /\ journal'[c].object = journal[c].object
      /\ \A d \in Calls \ {c} : journal'[d] = journal[d]
  BY BecomeIs DEF Conclude, States
<1>3. pos' \in [Workers -> Positions] /\ Still(c) /\ pos'[c].step = "reconcile"
  BY GotoIs DEF Conclude, CallSteps
<1>4. UNCHANGED <<order, changeset, audited, faults, at, bytes, stage, dir>>
  BY DEF Conclude, disk, records, limits
<1>5. Rests(c)
  <2>1. pos'[c].step \notin Held BY <1>3 DEF Held, Committing
  <2> QED BY <2>1, <1>4 DEF Conclude, OnlyLock, limits, Rests, history
<1>6. Keeps(c) BY <1>2 DEF Keeps
<1>7. dir' \in Directories /\ RecordsOK' /\ faults' \in Nat
  BY <1>2, <1>4 DEF TypeOK, DiskOK, RecordsOK, HistoryOK
<1> QED BY <1>2, <1>3, <1>4, <1>5, <1>6, <1>7, Resigned, LogStep DEF Installed, Pending

-----------------------------------------------------------------------------
(* A call that comes to its end, or waits.                                  *)

\* That changes nothing the others rely on.
LEMMA CallEnds ==
    ASSUME MoveInv, NEW c \in Calls, Still(c), pos'[c].step \in {"over", "waiting"},
           pos' \in [Workers -> Positions],
           pos'[c].step = "waiting" => pos[c].step = "idle" /\ lock = Recovery,
           lock' = lock \/ (Release(c) /\ pos'[c].step = "over"),
           UNCHANGED <<disk, journal, order, task, frozen, due, stale>>,
           UNCHANGED <<crashes, uses, foreign, history>>, RecordsOK', faults' \in Nat
    PROVE  MoveInv'
<1>1. BaseInv /\ TypeOK /\ LockInv /\ OrderInv /\ TodoInv BY DEF MoveInv, BaseInv
<1>2. UNCHANGED <<at, bytes, dir, stage, removed, touched, derailed, misled, raced>> BY DEF disk, history
<1>3. \A v \in Workers \ {c} : pos'[v] = pos[v] BY DEF Still
<1>4. Calls \subseteq Workers /\ Recovery \in Workers /\ Recovery \notin Calls BY MoveAssumption DEF Workers
<1>0. Recovery # None /\ None \notin Calls BY MoveAssumption
<1>16. lock' = lock \/ (lock = c /\ lock' = None /\ pos'[c].step = "over") BY DEF Release
<1>5. pos'[Recovery] = pos[Recovery] BY <1>3, <1>4
<1>6. \A d \in Calls : Active(d)' => Active(d) /\ d # c
  <2>1. \A d \in Calls \ {c} : Active(d)' => Active(d) BY <1>3, <1>4 DEF Active
  <2>2. ~Active(c)' BY DEF Active, Held, Committing, Undoing, Rolling
  <2> QED BY <2>1, <2>2
<1>7. \A w \in Workers : Works(w)' => Works(w) /\ w # c
  <2>1. Works(Recovery)' => Works(Recovery) /\ Recovery # c BY <1>4, <1>5 DEF Works
  <2>2. \A d \in Calls : Works(d)' => Works(d) /\ d # c BY <1>4, <1>6 DEF Works
  <2> QED BY <2>1, <2>2 DEF Workers
<1>8. Present' = Present BY DEF Present
<1>9. \A w \in Workers : On(w)' = On(w) BY DEF On
<1>10. \A d \in Calls : Sources(d)' = Sources(d) /\ Plan(d)' = Plan(d) BY DEF Sources, Plan
<1>11. TypeOK'
  <2>1. DiskOK' BY <1>1, <1>2 DEF TypeOK, DiskOK
  <2>2. MemoryOK' BY <1>1, <1>16 DEF TypeOK, MemoryOK
  <2>3. HistoryOK' BY <1>1, <1>2 DEF TypeOK, HistoryOK
  <2> QED BY <2>1, <2>2, <2>3 DEF TypeOK
<1>12. LockInv'
  <2>1. \A d \in Calls : pos'[d].step \in CallSteps BY <1>1, <1>3, <1>4 DEF LockInv, CallSteps
  <2>2. \A d \in Calls : pos'[d].step \in Held => lock' = d
    <3>1. \A d \in Calls \ {c} : pos'[d].step \in Held => lock' = d BY <1>1, <1>3, <1>4, <1>16 DEF LockInv
    <3>2. pos'[c].step \notin Held BY DEF Held, Committing
    <3> QED BY <3>1, <3>2
  <2>3. \A d \in Calls : pos'[d].step = "waiting" => lock' = Recovery
    <3>1. \A d \in Calls \ {c} : pos'[d].step = "waiting" => lock' = Recovery
      BY <1>1, <1>3, <1>4, <1>16 DEF LockInv
    <3>2. pos'[c].step = "waiting" => lock' = Recovery BY <1>16
    <3> QED BY <3>1, <3>2
  <2>4. ~raced' => /\ \A d \in Calls : Active(d)' => lock' \in {d, None}
                   /\ \A d, e \in Calls : Active(d)' /\ Active(e)' => d = e
    BY <1>1, <1>2, <1>6, <1>16 DEF LockInv
  <2>5. pos'[Recovery].step # "idle" <=> lock' = Recovery BY <1>0, <1>1, <1>4, <1>5, <1>16 DEF LockInv
  <2> HIDE DEF Active
  <2> QED BY <1>1, <1>5, <2>1, <2>2, <2>3, <2>4, <2>5 DEF LockInv
<1>13. OrderInv'
  <2>1. \A d \in Calls : pos'[d].step \in {"idle", "waiting", "inspect"} => journal'[d].state = "none"
    BY <1>1, <1>3, <1>4 DEF OrderInv
  <2>2. \A d \in Calls : Active(d)' /\ pos'[d].step # "inspect" => d \in Present'
    <3> SUFFICES ASSUME NEW d \in Calls, Active(d)', pos'[d].step # "inspect" PROVE d \in Present
      BY <1>8
    <3>1. d # c /\ Active(d) BY <1>6
    <3>2. pos'[d] = pos[d] BY <3>1, <1>3, <1>4
    <3> QED BY <1>1, <3>1, <3>2 DEF OrderInv
  <2>3. \A d \in Calls : pos'[d].step # "over" => Sources(d)' # {}
    BY <1>1, <1>3, <1>4, <1>10 DEF OrderInv
  <2>4. \A d \in Present' : Sources(d)' # {} /\ \E i \in 1..Len(order') : order'[i] = d
    BY <1>1, <1>8, <1>10 DEF OrderInv, Present
  <2>5. \A d \in Present' : \A p \in Sources(d)' : journal'[d].object[p] \in Objects
    BY <1>1, <1>8, <1>10 DEF OrderInv, Present
  <2>6. \A i \in 1..Len(order') : order'[i] \in Present' BY <1>1, <1>8 DEF OrderInv
  <2>7. \A i, j \in 1..Len(order') : order'[i] = order'[j] => i = j BY <1>1 DEF OrderInv
  <2> QED BY <2>1, <2>2, <2>3, <2>4, <2>5, <2>6, <2>7 DEF OrderInv
<1>14. TodoInv'
  <2>1. ASSUME NEW v \in Workers, pos'[v].step \in Looping
        PROVE  pos'[v].todo # {} /\ pos'[v].todo \subseteq Sources(On(v))'
    <3>1. v # c BY <2>1 DEF Looping
    <3>2. pos'[v] = pos[v] BY <3>1, <1>3
    <3>3. Sources(On(v))' = Sources(On(v)) BY <1>9 DEF Sources, Plan
    <3> QED BY <1>1, <2>1, <3>2, <3>3 DEF TodoInv
  <2>2. \A i \in 1..Len(due') : due'[i].call \in Present' BY <1>1, <1>8 DEF TodoInv
  <2>3. pos'[Recovery].step \notin {"idle", "choose"} => due' # <<>> BY <1>1, <1>5 DEF TodoInv
  <2> QED BY <2>1, <2>2, <2>3 DEF TodoInv
<1>15. ASSUME ~raced PROVE WorkInv'
  <2>1. WorkInv BY <1>15 DEF MoveInv
  <2>2. RunInv' BY <2>1, <1>0, <1>5, <1>8, <1>16 DEF WorkInv, RunInv
  <2>3. StageInv' BY <2>1, <1>2, <1>8, <1>10 DEF WorkInv, StageInv
  <2>4. FileInv'
    <3>1. \A o \in Objects : Named(o) => Named(o)' BY <1>2 DEF Named
    <3> QED BY <1>1, <1>8, <2>1, <3>1, FilesKeep DEF WorkInv
  <2>5. RecoveredBeforeMove'
    <3> SUFFICES ASSUME NEW d \in Calls, pos'[d].step = "inspect"
                 PROVE  \A e \in Present : journal[e].state \in Final
      BY <1>8 DEF RecoveredBeforeMove
    <3>1. pos[d].step = "inspect" BY <1>3, <1>4
    <3> QED BY <2>1, <3>1, <1>15 DEF WorkInv, RecoveredBeforeMove
  <2>6. ASSUME NEW w \in Workers, Works(w)' PROVE PhaseAt(w)' /\ LoopAt(w)'
    <3>1. Works(w) /\ pos'[w] = pos[w] BY <1>3, <1>7, <2>6
    <3>2. PhaseAt(w) /\ LoopAt(w) BY <2>1, <3>1 DEF WorkInv
    <3>3. PhaseAt(w)' BY <1>9, <3>1, <3>2 DEF PhaseAt, Seen
    <3>4. Here(w)' = HereOf(pos[w].todo, pos[w].step \in Installing, Plan(On(w)))
      BY <1>9, <3>1 DEF Here, HereOf, Plan
    <3>5. Here(w) = HereOf(pos[w].todo, pos[w].step \in Installing, Plan(On(w))) BY DEF Here, HereOf
    <3>6. Target(w)' = Target(w) /\ Object(w)' = Object(w)
      BY <1>9, <3>4, <3>5 DEF Target, Object, Plan
    <3>7. \A p \in Sources(On(w)) : Safe(On(w), p) => Safe(On(w), p)' BY <1>2, <1>9 DEF Safe, Gone
    <3>8. \A p \in Sources(On(w)) : Back(On(w), p) => Back(On(w), p)' BY <1>2, <1>9 DEF Back, Gone
    <3>9. \A p \in Sources(On(w)) : Anchor(On(w), p, p)' => Anchor(On(w), p, p)
      BY <1>9 DEF Anchor, Sources, Plan
    <3>10. Sources(On(w))' = Sources(On(w)) BY <1>9 DEF Sources, Plan
    <3>11. LoopAt(w)' BY <1>2, <1>9, <3>1, <3>2, <3>6, <3>7, <3>8, <3>9, <3>10 DEF LoopAt
    <3> QED BY <3>3, <3>11
  <2> QED BY <2>2, <2>3, <2>4, <2>5, <2>6 DEF WorkInv
<1> QED BY <1>2, <1>11, <1>12, <1>13, <1>14, <1>15 DEF MoveInv, BaseInv

LEMMA ReconcileKeeps ==
    ASSUME MoveInv, NEW c \in Calls, Reconcile(c)
    PROVE  MoveInv'
<1>1. TypeOK BY DEF MoveInv, BaseInv
<1>2. pos' \in [Workers -> Positions] /\ Still(c) /\ pos'[c].step = "over"
  BY <1>1, OverIs DEF Reconcile
<1>3. changeset' \in [Calls -> {"none", "active", "undone", "recovery_required"}] /\ faults' \in Nat
  BY <1>1, GiveUpIs DEF Reconcile
<1>4. RecordsOK' BY <1>1, <1>3 DEF TypeOK, RecordsOK, Reconcile
<1> QED BY <1>2, <1>3, <1>4, CallEnds DEF Reconcile, memory, OnlyFaults

\* The participants of a call are some of the three there are.
LEMMA RequiredIs ==
    ASSUME NEW c
    PROVE  Required(c) \in SUBSET {"change_set", "audit", "original_change_set"}
<1>1. CASE IsUndo(c)
  <2>1. Participants(c) = <<"change_set", "audit", "original_change_set">> BY <1>1 DEF Participants
  <2> QED BY <2>1 DEF Required
<1>2. CASE ~IsUndo(c)
  <2>1. Participants(c) = <<"change_set", "audit">> BY <1>2 DEF Participants
  <2> QED BY <2>1 DEF Required
<1> QED BY <1>1, <1>2

\* A call that has not planned has an empty manifest.
LEMMA NoManifestIs ==
    ASSUME NEW c \in Calls, Sources(c) \subseteq Paths
    PROVE  NoManifest(c) \in Manifests
<1> DEFINE none == [p \in Sources(c) |-> None]
           facts == [i \in Required(c) |-> "pending"]
<1>1. facts \in UNION {[S -> {"pending", "committed", "failed"}] :
                         S \in SUBSET {"change_set", "audit", "original_change_set"}}
  <2>1. facts \in [Required(c) -> {"pending", "committed", "failed"}] OBVIOUS
  <2> QED BY <2>1, RequiredIs
<1>2. NoManifest(c) = [state |-> "none", object |-> none, bytes |-> none, parent |-> None, shown |-> {},
                       plans |-> FALSE, made |-> None, drops |-> None, dropped |-> FALSE, facts |-> facts]
  BY DEF NoManifest
<1>3. none \in [Sources(c) -> Names] BY DEF Names
<1>4. none \in UNION {[S -> Names] : S \in SUBSET Paths} BY <1>3
<1>5. "none" \in States /\ None \in Directories BY DEF States, Directories
<1> HIDE DEF none, facts
<1> QED BY <1>1, <1>2, <1>4, <1>5 DEF Manifests

\* The manifest of a call that has planned.
LEMMA PlannedIs ==
    ASSUME MoveInv, NEW c \in Calls, pos[c].step = "inspect", Fits(c),
           NEW s \in {"prepared", "preparing"}, Journaled(c, s)
    PROVE  /\ journal' \in [Calls -> Manifests] /\ order' \in Seq(Calls)
           /\ journal'[c].state = s /\ \A p \in Sources(c) : journal'[c].object[p] = at[p] /\ at[p] \in Objects
           /\ \A d \in Calls \ {c} : journal'[d] = journal[d]
           /\ Len(order') = Len(order) + 1 /\ order'[Len(order) + 1] = c
           /\ \A i \in 1..Len(order) : order'[i] = order[i]
<1>1. TypeOK /\ OrderInv BY DEF MoveInv, BaseInv
<1>2. Sources(c) \subseteq Paths BY <1>1, PlanIs
<1> DEFINE m == Planned(c, s)
           plans == dir = None /\ Targets(c) \cap InDir # {}
           object == [p \in Sources(c) |-> at[p]]
           version == [p \in Sources(c) |-> bytes[at[p]]]
<1>4. \A p \in Sources(c) : at[p] \in Objects
  <2>1. \A p \in Sources(c) : at[p] # None BY DEF Fits
  <2> QED BY <1>1, <1>2, <2>1 DEF TypeOK, DiskOK, Names
<1>5. object \in [Sources(c) -> Names] BY <1>4 DEF Names
<1>6. version \in [Sources(c) -> Names]
  <2>1. \A p \in Sources(c) : bytes[at[p]] \in Names BY <1>1, <1>4 DEF TypeOK, DiskOK, Names
  <2> QED BY <2>1
<1>7. dir \in Directories /\ None \in Directories BY <1>1 DEF TypeOK, DiskOK, Directories
<1>8. Drops(c) \in Directories
  <2>1. CASE IsUndo(c)
    <3>1. task[c] \in Requests BY <1>1 DEF TypeOK, MemoryOK
    <3>2. Original(c) \in Calls BY <2>1, <3>1 DEF Requests, IsUndo, Original
    <3>3. journal[Original(c)] \in Manifests BY <1>1, <3>2 DEF TypeOK, RecordsOK
    <3> QED BY <2>1, <3>3 DEF Manifests, Drops
  <2>2. CASE ~IsUndo(c) BY <2>2 DEF Drops, Directories
  <2> QED BY <2>1, <2>2
<1>10. s \in States /\ {} \in SUBSET Paths /\ plans \in BOOLEAN /\ FALSE \in BOOLEAN
  BY DEF States
<1>11. object \in UNION {[S -> Names] : S \in SUBSET Paths} BY <1>2, <1>5
<1>12. version \in UNION {[S -> Names] : S \in SUBSET Paths} BY <1>2, <1>6
<1>3. NoManifest(c) \in Manifests BY <1>2, NoManifestIs
<1>18. m \in Manifests /\ m.state = s /\ m.object = object
  <2>1. m = [NoManifest(c) EXCEPT !.state = s, !.object = object, !.bytes = version, !.plans = plans,
                                  !.parent = dir, !.drops = Drops(c)]
    BY DEF Planned
  <2> HIDE DEF m, plans, object, version
  <2> QED BY <1>3, <1>7, <1>8, <1>10, <1>11, <1>12, <2>1 DEF Manifests
<1> HIDE DEF m
<1>13. m \in Manifests BY <1>18
<1>14. journal' = [journal EXCEPT ![c] = m] /\ order' = Append(order, c) BY DEF Journaled, m
<1>15. journal \in [Calls -> Manifests] /\ order \in Seq(Calls) BY <1>1 DEF TypeOK, RecordsOK
<1>16. journal' \in [Calls -> Manifests] /\ journal'[c] = m /\ \A d \in Calls \ {c} : journal'[d] = journal[d]
  BY <1>13, <1>14, <1>15
<1>17. /\ order' \in Seq(Calls) /\ Len(order') = Len(order) + 1 /\ order'[Len(order) + 1] = c
       /\ \A i \in 1..Len(order) : order'[i] = order[i]
  BY <1>14, <1>15
<1>19. \A p \in Sources(c) : m.object[p] = at[p] BY <1>18
<1> QED BY <1>4, <1>16, <1>17, <1>18, <1>19

\* A call that writes its manifest begins with it, or leaves it behind.
LEMMA PlannedKeeps ==
    ASSUME MoveInv, NEW c \in Calls, pos[c].step = "inspect", Fits(c),
           NEW s \in {"prepared", "preparing"}, Journaled(c, s),
           pos' \in [Workers -> Positions], Still(c),
           \/ pos'[c].step = "begin" /\ s = "prepared" /\ pos'[c].rolling = pos[c].rolling /\ lock' = lock
           \/ pos'[c].step = "over" /\ (lock' = lock \/ Release(c)),
           UNCHANGED <<disk, changeset, audited, task, frozen, due, stale, crashes, uses, foreign, history>>,
           faults' \in Nat
    PROVE  MoveInv'
<1>1. BaseInv /\ TypeOK /\ LockInv /\ OrderInv /\ TodoInv BY DEF MoveInv, BaseInv
<1>2. /\ journal' \in [Calls -> Manifests] /\ order' \in Seq(Calls) /\ journal'[c].state = s
      /\ \A p \in Sources(c) : journal'[c].object[p] = at[p] /\ at[p] \in Objects
      /\ \A d \in Calls \ {c} : journal'[d] = journal[d]
      /\ Len(order') = Len(order) + 1 /\ order'[Len(order) + 1] = c
      /\ \A i \in 1..Len(order) : order'[i] = order[i]
  BY PlannedIs
<1>3. UNCHANGED <<at, bytes, dir, stage, removed, touched, derailed, misled, raced>> BY DEF disk, history
<1>4. \A v \in Workers \ {c} : pos'[v] = pos[v] BY DEF Still
<1>5. Calls \subseteq Workers /\ Recovery \in Workers /\ Recovery \notin Calls /\ Recovery # None /\ None \notin Calls
  BY MoveAssumption DEF Workers
<1>6. "inspect" \in Held /\ "begin" \in Held /\ "over" \notin Held \cup Undoing BY DEF Held, Committing, Undoing, Rolling
<1>7. lock = c /\ lock' \in {c, None} /\ (pos'[c].step = "begin" => lock' = c)
  BY <1>1, <1>6 DEF LockInv, Release
<1>8. c \notin Present /\ Present' = Present \cup {c}
  <2>1. journal[c].state = "none" BY <1>1 DEF OrderInv
  <2>2. s # "none" OBVIOUS
  <2> QED BY <1>2, <2>1, <2>2 DEF Present
<1>9. pos'[Recovery] = pos[Recovery] BY <1>4, <1>5
<1>10. \A d \in Calls : Sources(d)' = Sources(d) /\ Plan(d)' = Plan(d) BY DEF Sources, Plan
<1>11. Len(order) \in Nat BY <1>1 DEF TypeOK, RecordsOK
<1>12. TypeOK'
  <2>1. DiskOK' BY <1>1, <1>3 DEF TypeOK, DiskOK
  <2>2. RecordsOK' BY <1>1, <1>2 DEF TypeOK, RecordsOK
  <2>3. MemoryOK' BY <1>1, <1>5, <1>7 DEF TypeOK, MemoryOK
  <2>4. HistoryOK' BY <1>1, <1>3 DEF TypeOK, HistoryOK
  <2> QED BY <2>1, <2>2, <2>3, <2>4 DEF TypeOK
<1>13. \A d \in Calls : Active(d)' => Active(d)
  BY <1>4, <1>5, <1>6 DEF Active
<1>14. LockInv'
  <2>1. \A d \in Calls : pos'[d].step \in CallSteps BY <1>1, <1>4, <1>5, <1>6 DEF LockInv, CallSteps
  <2>2. \A d \in Calls : pos'[d].step \in Held => lock' = d BY <1>1, <1>4, <1>5, <1>6, <1>7 DEF LockInv
  <2>3. \A d \in Calls : pos'[d].step = "waiting" => lock' = Recovery BY <1>1, <1>4, <1>5, <1>7 DEF LockInv
  <2>4. ~raced' => /\ \A d \in Calls : Active(d)' => lock' \in {d, None}
                   /\ \A d, e \in Calls : Active(d)' /\ Active(e)' => d = e
    BY <1>1, <1>3, <1>5, <1>7, <1>13 DEF LockInv
  <2>5. pos'[Recovery].step # "idle" <=> lock' = Recovery BY <1>1, <1>5, <1>7, <1>9 DEF LockInv
  <2> HIDE DEF Active
  <2> QED BY <1>1, <1>9, <2>1, <2>2, <2>3, <2>4, <2>5 DEF LockInv
<1>15. OrderInv'
  <2>1. \A d \in Calls : pos'[d].step \in {"idle", "waiting", "inspect"} => journal'[d].state = "none"
    BY <1>1, <1>2, <1>4, <1>5 DEF OrderInv
  <2>2. \A d \in Calls : Active(d)' /\ pos'[d].step # "inspect" => d \in Present'
    <3> SUFFICES ASSUME NEW d \in Calls, d # c, Active(d)', pos'[d].step # "inspect" PROVE d \in Present
      BY <1>8
    <3>1. pos'[d] = pos[d] BY <1>4, <1>5
    <3> QED BY <1>1, <1>13, <3>1 DEF OrderInv
  <2>3. \A d \in Calls : pos'[d].step # "over" => Sources(d)' # {}
    BY <1>1, <1>4, <1>5, <1>10 DEF OrderInv
  <2>4. \A d \in Present' : Sources(d)' # {} /\ \E i \in 1..Len(order') : order'[i] = d
    <3>1. CASE Present = Present'
      BY <3>1, <1>8
    <3>2. ASSUME NEW d \in Present PROVE Sources(d)' # {} /\ \E i \in 1..Len(order') : order'[i] = d
      <4>1. d \in Calls /\ Sources(d) # {} /\ \E i \in 1..Len(order) : order[i] = d
        BY <1>1 DEF OrderInv, Present
      <4> QED BY <1>2, <1>10, <1>11, <4>1
    <3>3. Sources(c)' # {} /\ \E i \in 1..Len(order') : order'[i] = c
      <4>1. Len(order) + 1 \in 1..Len(order') BY <1>2, <1>11
      <4> QED BY <1>1, <1>2, <1>10, <4>1 DEF OrderInv
    <3> QED BY <1>8, <3>2, <3>3
  <2>5. \A d \in Present' : \A p \in Sources(d)' : journal'[d].object[p] \in Objects
    <3>1. ASSUME NEW d \in Present, NEW p \in Sources(d) PROVE journal'[d].object[p] \in Objects
      <4>1. d \in Calls /\ journal[d].object[p] \in Objects BY <1>1 DEF OrderInv, Present
      <4> QED BY <1>2, <1>8, <4>1
    <3>2. \A p \in Sources(c) : journal'[c].object[p] \in Objects BY <1>2
    <3>3. \A d \in Present : d \in Calls BY DEF Present
    <3> QED BY <1>8, <1>10, <3>1, <3>2, <3>3
  <2>6. \A i \in 1..Len(order') : order'[i] \in Present' BY <1>1, <1>2, <1>8, <1>11 DEF OrderInv
  <2>7. \A i, j \in 1..Len(order') : order'[i] = order'[j] => i = j
    <3> SUFFICES ASSUME NEW i \in 1..Len(order'), NEW j \in 1..Len(order'), order'[i] = order'[j] PROVE i = j
      OBVIOUS
    <3>1. \A k \in 1..Len(order) : order'[k] \in Present BY <1>1, <1>2 DEF OrderInv
    <3>2. CASE i = Len(order) + 1 /\ j = Len(order) + 1 BY <3>2
    <3>3. CASE i \in 1..Len(order) /\ j \in 1..Len(order) BY <1>1, <1>2, <3>3 DEF OrderInv
    <3>4. CASE i = Len(order) + 1 /\ j \in 1..Len(order) BY <1>2, <1>8, <3>1, <3>4
    <3>5. CASE j = Len(order) + 1 /\ i \in 1..Len(order) BY <1>2, <1>8, <3>1, <3>5
    <3> QED BY <1>2, <1>11, <3>2, <3>3, <3>4, <3>5
  <2> QED BY <2>1, <2>2, <2>3, <2>4, <2>5, <2>6, <2>7 DEF OrderInv
<1>16. TodoInv'
  <2>1. ASSUME NEW v \in Workers, pos'[v].step \in Looping
        PROVE  pos'[v].todo # {} /\ pos'[v].todo \subseteq Sources(On(v))'
    <3>1. v # c BY <2>1 DEF Looping
    <3>2. pos'[v] = pos[v] BY <3>1, <1>4
    <3>3. Sources(On(v))' = Sources(On(v)) BY DEF Sources, Plan, On
    <3> QED BY <1>1, <2>1, <3>2, <3>3 DEF TodoInv
  <2>2. \A i \in 1..Len(due') : due'[i].call \in Present' BY <1>1, <1>8 DEF TodoInv
  <2>3. pos'[Recovery].step \notin {"idle", "choose"} => due' # <<>> BY <1>1, <1>9 DEF TodoInv
  <2> QED BY <2>1, <2>2, <2>3 DEF TodoInv
<1>17. ASSUME ~raced PROVE WorkInv'
  <2>1. WorkInv BY <1>17 DEF MoveInv
  <2>2. RunInv' BY <1>5, <1>7 DEF RunInv
  <2>3. StageInv'
    <3> SUFFICES ASSUME NEW d \in Calls, NEW p \in Paths, stage[d][p] # None
                 PROVE  /\ d \in Present' /\ p \in Sources(d)' /\ stage[d][p] = journal'[d].object[p]
                        /\ journal'[d].state \notin Installed
      BY <1>3 DEF StageInv, Installed
    <3>1. /\ d \in Present /\ p \in Sources(d) /\ stage[d][p] = journal[d].object[p]
          /\ journal[d].state \notin Installed
      BY <2>1 DEF WorkInv, StageInv, Installed
    <3>2. d # c BY <3>1, <1>8
    <3> QED BY <1>2, <1>8, <1>10, <3>1, <3>2
  <2>4. FileInv'
    <3>1. \A d \in Present : d \in Calls /\ d # c BY <1>8 DEF Present
    <3>2. \A d \in Present : Anchored(d)' <=> Anchored(d)
      <4> SUFFICES ASSUME NEW d \in Present PROVE Anchored(d)' <=> Anchored(d) OBVIOUS
      <4>1. d \in Calls /\ journal'[d] = journal[d] BY <1>2, <3>1
      <4>2. Sources(d)' = Sources(d) /\ Plan(d)' = Plan(d) BY <1>10, <4>1
      <4> QED BY <4>1, <4>2 DEF Anchored, Anchor
    <3>3. CASE \E d \in Present : ~Anchored(d) BY <1>8, <3>2, <3>3 DEF FileInv
    <3>4. CASE \A d \in Present : Anchored(d)
      <4>1. FilesKept BY <2>1, <3>4 DEF WorkInv, FileInv
      <4>2. ASSUME NEW d \in Present', NEW p \in Sources(d)'
            PROVE  \/ journal'[d].object[p] \in removed'
                   \/ \E q \in Paths : at'[q] = journal'[d].object[p]
                   \/ \E e \in Calls : \E q \in Paths : stage'[e][q] = journal'[d].object[p]
        <5>1. CASE d = c
          <6>1. p \in Sources(c) /\ p \in Paths BY <1>1, <1>10, <5>1, PlanIs
          <6> QED BY <1>2, <1>3, <5>1, <6>1
        <5>2. CASE d # c
          <6>1. d \in Present /\ d \in Calls BY <1>8, <5>2, <3>1
          <6>2. p \in Sources(d) BY <1>10, <6>1
          <6>3. journal'[d] = journal[d] BY <1>2, <5>2, <6>1
          <6> QED BY <1>3, <4>1, <6>1, <6>2, <6>3 DEF FilesKept
        <5> QED BY <5>1, <5>2
      <4>3. FilesKept' BY <4>2 DEF FilesKept
      <4> QED BY <4>3 DEF FileInv
    <3> QED BY <3>3, <3>4
  <2>5. RecoveredBeforeMove'
    <3> SUFFICES ASSUME NEW d \in Calls, pos'[d].step = "inspect" PROVE FALSE
      BY DEF RecoveredBeforeMove
    <3>1. d # c OBVIOUS
    <3>2. lock = d BY <1>1, <1>4, <1>5, <1>6, <3>1 DEF LockInv
    <3> QED BY <1>7, <3>1, <3>2
  <2>6. ASSUME NEW w \in Workers, Works(w)' PROVE PhaseAt(w)' /\ LoopAt(w)'
    <3>1. Works(c) BY <1>5, <1>6 DEF Works, Active
    <3>2. CASE w # c
      <4>1. Works(w)
        <5>1. CASE w = Recovery BY <2>6, <5>1, <1>9 DEF Works
        <5>2. CASE w # Recovery
          <6>1. w \in Calls BY <5>2 DEF Workers
          <6> QED BY <2>6, <5>2, <6>1, <1>13 DEF Works
        <5> QED BY <5>1, <5>2
      <4> QED BY <1>1, <1>5, <1>17, <3>1, <3>2, <4>1, Alone
    <3>3. CASE w = c
      <4>1. pos'[c].step = "begin" /\ s = "prepared" /\ pos'[c].rolling = pos[c].rolling
        BY <1>5, <1>6, <2>6, <3>3 DEF Works, Active
      <4>2. PhaseAt(c) BY <1>5, <2>1, <3>1 DEF WorkInv
      <4>3. ~pos'[c].rolling BY <1>6, <4>1, <4>2 DEF PhaseAt
      <4>4. journal'[c].state \in StateAt(pos'[c].step) BY <1>2, <4>1 DEF StateAt
      <4>5. PhaseAt(c)' BY <4>1, <4>3, <4>4, CallPhase DEF Rolling
      <4> QED BY <3>3, <4>1, <4>5, LoopFree
    <3> QED BY <3>2, <3>3
  <2> QED BY <2>2, <2>3, <2>4, <2>5, <2>6 DEF WorkInv
<1> QED BY <1>3, <1>12, <1>14, <1>15, <1>16, <1>17 DEF MoveInv, BaseInv

LEMMA PrepareKeeps ==
    ASSUME MoveInv, NEW c \in Calls, Prepare(c)
    PROVE  MoveInv'
<1>1. TypeOK BY DEF MoveInv, BaseInv
<1>2. pos[c].step = "inspect" /\ Fits(c) /\ Journaled(c, "prepared") BY DEF Prepare
<1>3. c \in Workers BY DEF Workers
<1>4. /\ pos' \in [Workers -> Positions] /\ Still(c)
      /\ \/ pos'[c].step = "begin" /\ pos'[c].rolling = pos[c].rolling
         \/ pos'[c].step = "over"
  <2>1. CASE SameObjects(c) BY <1>1, <1>3, <2>1, GotoIs DEF Prepare, CallSteps, Held, Committing
  <2>2. CASE ~SameObjects(c) BY <1>1, <2>2, OverIs DEF Prepare
  <2> QED BY <2>1, <2>2
<1>5. UNCHANGED <<disk, changeset, audited, task, lock, frozen, due, stale, crashes, uses, foreign, faults, history>>
  BY DEF Prepare, records, memory, limits
<1>6. faults' \in Nat BY <1>1, <1>5 DEF TypeOK, HistoryOK
<1> QED BY <1>2, <1>4, <1>5, <1>6, PlannedKeeps

LEMMA PrepareFailsKeeps ==
    ASSUME MoveInv, NEW c \in Calls, PrepareFails(c)
    PROVE  MoveInv'
<1>1. TypeOK BY DEF MoveInv, BaseInv
<1>2. pos' \in [Workers -> Positions] /\ Still(c) /\ pos'[c].step = "over"
  BY <1>1, OverIs DEF PrepareFails
<1>3. UNCHANGED <<disk, changeset, audited, task, frozen, due, stale, crashes, uses, foreign, history>>
      /\ Release(c)
  BY DEF PrepareFails, records, OnlyLock
<1>4. faults' \in Nat BY <1>1 DEF PrepareFails, Fault, TypeOK, HistoryOK
<1>5. CASE UNCHANGED <<journal, order>>
  <2>1. RecordsOK' BY <1>1, <1>3, <1>5 DEF TypeOK, RecordsOK
  <2> QED BY <1>2, <1>3, <1>4, <1>5, <2>1, CallEnds
<1>6. CASE Fits(c) /\ Journaled(c, "preparing")
  <2>1. pos[c].step = "inspect" BY DEF PrepareFails
  <2> QED BY <1>2, <1>3, <1>4, <1>6, <2>1, PlannedKeeps
<1> QED BY <1>5, <1>6 DEF PrepareFails

-----------------------------------------------------------------------------
(* The steps of a run on the manifest it has come to.                       *)

\* The run is on the manifest it is due to visit next.
LEMMA RunIs ==
    /\ Recovery \in Workers /\ Recovery \notin Calls /\ On(Recovery) = Current
    /\ M = journal[On(Recovery)]
    /\ (Rest /\ UNCHANGED records) => Stays
BY MoveAssumption DEF Workers, On, Current, M, Rest, Stays

\* A run that is to visit a manifest finds it as it was when it began.
LEMMA AtChoose ==
    ASSUME MoveInv, pos[Recovery].step = "choose", due # <<>>
    PROVE  /\ BaseInv /\ TypeOK /\ OrderInv /\ TodoInv /\ lock = Recovery
           /\ Ready(Recovery) /\ On(Recovery) \in Calls /\ On(Recovery) \in Present
           /\ Sources(On(Recovery)) # {} /\ Sources(On(Recovery)) \subseteq Paths
           /\ ~raced => RunInv /\ StageInv /\ FileInv /\ Seen = journal[On(Recovery)].state
<1>1. BaseInv /\ TypeOK /\ OrderInv /\ TodoInv /\ lock = Recovery BY DEF MoveInv, BaseInv, LockInv
<1>2. Ready(Recovery) BY <1>1 DEF Ready
<1>3. On(Recovery) \in Calls /\ On(Recovery) \in Present /\ On(Recovery) = due[1].call /\ Len(due) \in Nat \ {0}
  BY <1>1, <1>2, RunIs, ReadyIs
<1>4. Sources(On(Recovery)) # {} /\ Sources(On(Recovery)) \subseteq Paths BY <1>1, <1>3, PlanIs DEF OrderInv
<1>5. ASSUME ~raced PROVE RunInv /\ StageInv /\ FileInv /\ Seen = journal[On(Recovery)].state
  <2>1. RunInv /\ StageInv /\ FileInv BY <1>5 DEF MoveInv, WorkInv
  <2>2. due[1].state = journal[due[1].call].state BY <1>1, <1>3, <2>1 DEF RunInv
  <2>3. Head(due) = due[1] BY <1>3
  <2>4. Seen = due[1].state BY <2>3 DEF Seen
  <2> QED BY <1>3, <2>1, <2>2, <2>4
<1> QED BY <1>1, <1>2, <1>3, <1>4, <1>5

LEMMA ChooseKeeps ==
    ASSUME MoveInv, Choose
    PROVE  MoveInv'
<1> DEFINE c == On(Recovery)
           s == CASE Seen = "committed"      -> "sweep"
                  [] Seen = "rolled_back"    -> "verify"
                  [] Seen = "commit_decided" -> "confirm"
                  [] Seen = Pending -> "probe"
                  [] OTHER -> "rollback"
           r == [step |-> s, todo |-> Sources(Current), tries |-> 1, rolling |-> Seen = "rolling_back"]
<1>1. pos[Recovery].step = "choose" /\ due # <<>> BY DEF Choose, At
<1> USE RunIs
<1>2. /\ BaseInv /\ TypeOK /\ OrderInv /\ TodoInv /\ lock = Recovery
      /\ Ready(Recovery) /\ c \in Calls /\ c \in Present
      /\ Sources(c) # {} /\ Sources(c) \subseteq Paths
      /\ ~raced => RunInv /\ StageInv /\ FileInv /\ Seen = journal[c].state
  BY <1>1, AtChoose
<1>3. s \in {"sweep", "verify", "confirm", "probe", "rollback"} BY DEF Pending
<1>4. /\ s = "sweep" => Seen = "committed"
      /\ (s = "verify") <=> (Seen = "rolled_back")
      /\ s = "confirm" => Seen = "commit_decided"
      /\ s = "probe" => Seen = Pending
  BY DEF Pending
<1> HIDE DEF s
<1>5. /\ r \in Positions /\ r.step = s /\ r.todo = Sources(c)
      /\ r.rolling = (Seen = "rolling_back")
  BY <1>2, <1>3 DEF Positions, RunSteps, Rolling
<1>6. pos' = [pos EXCEPT ![Recovery] = r] BY DEF Choose, s
<1> HIDE DEF r
<1>7. pos' \in [Workers -> Positions] /\ Still(Recovery) /\ pos'[Recovery] = r
  BY <1>2, <1>5, <1>6 DEF TypeOK, MemoryOK, Still
<1>8. /\ Rests(Recovery) /\ UNCHANGED <<changeset, audited, faults, task, due>> /\ On(Recovery)' = c
      /\ UNCHANGED <<order, at, bytes, stage, dir, journal, stale>>
  BY StaysIs DEF Choose, disk, records, Rest, Stays
<1>9. Keeps(Recovery) BY <1>2, <1>8 DEF Keeps, Present
<1>10. Arrives(Recovery) BY <1>2, <1>3, <1>5, <1>7 DEF Arrives, RunSteps, Rolling
<1>11. ASSUME ~raced PROVE PhaseAt(Recovery)' /\ LoopAt(Recovery)'
  <2>1. Seen' = Seen /\ journal'[c].state = Seen /\ Seen \in States
    BY <1>2, <1>8, <1>11 DEF Seen, TypeOK, RecordsOK, Manifests
  <2>2. journal'[c].state \in StateAt(pos'[Recovery].step)
    BY <1>3, <1>4, <1>5, <1>7, <2>1 DEF StateAt, Committing
  <2>3. {"sweep", "verify", "confirm"} \cap (Held \cup {"probe"} \cup Undoing \cup Rolling) = {}
        /\ "rollback" \notin Held /\ "probe" \notin Undoing \cup Rolling
    BY DEF Held, Undoing, Rolling, Committing
  <2>4. PhaseAt(Recovery)'
    BY <1>3, <1>4, <1>5, <1>7, <1>8, <2>1, <2>2, <2>3 DEF PhaseAt, Pending
  <2>5. LoopAt(Recovery)' BY <1>3, <1>5, <1>7, LoopFree
  <2> QED BY <2>4, <2>5
<1>12. dir' \in Directories /\ RecordsOK' /\ faults' \in Nat /\ stale' \subseteq Workers \X Calls
  BY <1>2, <1>8 DEF TypeOK, DiskOK, RecordsOK, MemoryOK, HistoryOK
<1> QED BY <1>2, <1>7, <1>8, <1>9, <1>10, <1>11, <1>12, LogStep DEF Installed

LEMMA CompensateKeeps ==
    ASSUME MoveInv, Compensate
    PROVE  MoveInv'
<1> USE RunIs
<1>1. pos[Recovery].step = "probe"
      /\ pos[Recovery].step \in (Held \cup Undoing \cup RunSteps) \ {"inspect", "idle", "choose"}
  BY DEF Compensate, At, RunSteps
<1> USE <1>1, AtHand
<1>2. UNCHANGED <<at, bytes, dir, stage, journal, order, audited, task, lock, frozen, due, pos, stale,
                  crashes, faults, uses, foreign, history>>
  BY DEF Compensate, disk, memory, limits
<1>3. changeset' \in [Calls -> {"none", "active", "undone", "recovery_required"}]
  <2> DEFINE C == {"none", "active", "undone", "recovery_required"}
  <2>1. changeset \in [Calls -> C] BY DEF TypeOK, RecordsOK
  <2>2. changeset' = [changeset EXCEPT ![Current] = "recovery_required"] BY DEF Compensate
  <2> QED BY <2>1, <2>2
<1>4. pos' \in [Workers -> Positions] /\ Still(Recovery) BY <1>2 DEF TypeOK, MemoryOK, Still
<1>5. Rests(Recovery) BY <1>2 DEF Rests, history
<1>6. Keeps(Recovery) BY <1>2 DEF Keeps, Present
<1>7. Arrives(Recovery) BY <1>2 DEF Arrives, RunSteps, Looping
<1>8. ASSUME ~raced PROVE PhaseAt(Recovery)' /\ LoopAt(Recovery)'
  <2>1. PhaseAt(Recovery)' BY <1>2, <1>8 DEF PhaseAt, Seen, On
  <2> QED BY <1>2, <2>1, LoopFree
<1>9. dir' \in Directories /\ RecordsOK' /\ faults' \in Nat /\ stale' \subseteq Workers \X Calls
  BY <1>2, <1>3 DEF TypeOK, DiskOK, RecordsOK, MemoryOK, HistoryOK
<1> QED BY <1>2, <1>4, <1>5, <1>6, <1>7, <1>8, <1>9, LogStep DEF Installed

LEMMA ProbeKeeps ==
    ASSUME MoveInv, Probe
    PROVE  MoveInv'
<1> USE RunIs
<1>1. pos[Recovery].step = "probe"
      /\ pos[Recovery].step \in (Held \cup Undoing \cup RunSteps) \ {"inspect", "idle", "choose"}
  BY DEF Probe, At, RunSteps
<1> USE <1>1, AtHand
<1> DEFINE c == On(Recovery)
           facts == [i \in Required(Current) |-> IF i \in Found THEN "committed" ELSE "failed"]
           m == [journal[c] EXCEPT !.facts = facts]
<1>2. m \in Manifests /\ m.state = journal[c].state /\ m.object = journal[c].object
  <2>1. facts \in [Required(Current) -> {"pending", "committed", "failed"}] OBVIOUS
  <2>2. facts \in UNION {[S -> {"pending", "committed", "failed"}] :
                         S \in SUBSET {"change_set", "audit", "original_change_set"}}
    BY <2>1, RequiredIs
  <2> HIDE DEF facts
  <2> QED BY <2>2 DEF Manifests
<1>3. Write(Recovery, m) BY DEF Probe
<1> HIDE DEF m
<1>4. /\ journal' \in [Calls -> Manifests] /\ stale' \subseteq Workers \X Calls
      /\ journal'[c].state = journal[c].state /\ journal'[c].object = journal[c].object
      /\ \A d \in Calls \ {c} : journal'[d] = journal[d]
  BY <1>2, <1>3, WriteIs
<1>5. /\ pos' \in [Workers -> Positions] /\ Still(Recovery)
      /\ pos'[Recovery].rolling = pos[Recovery].rolling
      /\ pos'[Recovery].step \in {"confirm", "rollback"} /\ pos'[Recovery].todo = Sources(c)
  <2>1. PICK s \in {"confirm", "rollback"} : Loop(Recovery, s) BY Zenon DEF Probe
  <2> QED BY <2>1, LoopIs DEF RunSteps, Rolling
<1>6. /\ Rests(Recovery) /\ UNCHANGED <<changeset, audited, faults, task, due>> /\ On(Recovery)' = c
      /\ UNCHANGED <<order, at, bytes, stage, dir>>
  BY StaysIs DEF Probe, disk, records, Rest, Stays
<1>7. Keeps(Recovery) BY <1>4 DEF Keeps, Present
<1>8. Arrives(Recovery) BY <1>5 DEF Arrives, RunSteps, Rolling
<1>9. ASSUME ~raced PROVE PhaseAt(Recovery)' /\ LoopAt(Recovery)'
  <2>1. journal[c].state = Pending /\ ~pos[Recovery].rolling /\ Seen # "rolled_back"
    BY <1>9 DEF PhaseAt, StateAt, Committing
  <2>2. journal'[c].state \in StateAt(pos'[Recovery].step)
    BY <1>4, <1>5, <2>1 DEF StateAt, Committing, States
  <2>3. "confirm" \notin Rolling BY DEF Rolling
  <2>4. PhaseAt(Recovery)' BY <1>5, <1>6, <2>1, <2>2, <2>3, WorkerPhase
  <2> QED BY <1>5, <2>4, LoopFree
<1>10. dir' \in Directories /\ RecordsOK' /\ faults' \in Nat
  BY <1>4, <1>6 DEF TypeOK, DiskOK, RecordsOK, HistoryOK
<1> QED BY <1>4, <1>5, <1>6, <1>7, <1>8, <1>9, <1>10, LogStep DEF Installed

\* A loop of the run goes on.
LEMMA RunGoes ==
    ASSUME MoveInv, NEW s \in {"confirm", "sweep", "verify"}, pos[Recovery].step = s,
           NEW n \in {"decide", "finish", "drop", "record", "rmdir"}, Done(Recovery, s, n),
           Stays
    PROVE  /\ pos' \in [Workers -> Positions] /\ Still(Recovery) /\ Arrives(Recovery) /\ Rests(Recovery)
           /\ UNCHANGED <<changeset, audited, faults, task, due, removed>> /\ On(Recovery)' = On(Recovery)
           /\ pos'[Recovery].rolling = pos[Recovery].rolling
           /\ pos'[Recovery].step \in {s, n} /\ LoopAt(Recovery)'
           /\ Here(Recovery) \in Paths /\ Here(Recovery) \in Sources(On(Recovery))
           /\ On(Recovery) \in Calls /\ On(Recovery) \in Present /\ TypeOK /\ Ready(Recovery)
           /\ Object(Recovery) = journal[On(Recovery)].object[Here(Recovery)]
           /\ ~raced => StageInv /\ PhaseAt(Recovery)
<1> USE RunIs
<1>1. /\ pos[Recovery].step \in (Held \cup Undoing \cup RunSteps) \ {"inspect", "idle", "choose"}
      /\ pos[Recovery].step \in Looping
  BY DEF RunSteps, Looping
<1> USE <1>1, AtHand
<1>2. s \in CallSteps \cup RunSteps /\ n \in CallSteps \cup RunSteps BY DEF RunSteps, Rolling
<1>3. /\ pos' \in [Workers -> Positions] /\ Still(Recovery) /\ pos'[Recovery].rolling = pos[Recovery].rolling
      /\ pos'[Recovery].todo # {} /\ pos'[Recovery].todo \subseteq Sources(On(Recovery))
      /\ pos'[Recovery].step \in {s, n}
  BY <1>2, DoneGoes
<1>4. Rests(Recovery) /\ UNCHANGED <<changeset, audited, faults, task, due>> /\ On(Recovery)' = On(Recovery)
  BY StaysIs
<1>5. UNCHANGED removed BY <1>4 DEF Rests, history
<1>6. Arrives(Recovery) BY <1>3 DEF Arrives, RunSteps, Rolling
<1>7. LoopAt(Recovery)' BY <1>3, LoopFree
<1> QED BY <1>3, <1>4, <1>5, <1>6, <1>7, HereIs

LEMMA ConfirmKeeps ==
    ASSUME MoveInv, Confirm
    PROVE  MoveInv'
<1> USE RunIs
<1>1. pos[Recovery].step = "confirm" /\ Stays /\ UNCHANGED <<order, at, bytes, stage, dir, journal, stale>>
  BY DEF Confirm, At, disk, records, Rest, Stays
<1>2. PICK n \in {"decide", "finish", "drop"} :
        /\ Done(Recovery, "confirm", n)
        /\ n = "decide" => journal[On(Recovery)].state # "commit_decided"
        /\ n # "decide" => journal[On(Recovery)].state = "commit_decided"
  <2>1. CASE M.state # "commit_decided" BY <2>1 DEF Confirm
  <2>2. CASE M.state = "commit_decided" /\ M.drops = None BY <2>2 DEF Confirm
  <2>3. CASE M.state = "commit_decided" /\ M.drops # None BY <2>3 DEF Confirm
  <2> QED BY <2>1, <2>2, <2>3
<1>3. /\ pos' \in [Workers -> Positions] /\ Still(Recovery) /\ Arrives(Recovery) /\ Rests(Recovery)
      /\ UNCHANGED <<changeset, audited, faults, task, due, removed>> /\ On(Recovery)' = On(Recovery)
      /\ pos'[Recovery].rolling = pos[Recovery].rolling
      /\ pos'[Recovery].step \in {"confirm", n} /\ LoopAt(Recovery)'
      /\ On(Recovery) \in Calls /\ On(Recovery) \in Present /\ TypeOK /\ Ready(Recovery)
      /\ ~raced => StageInv /\ PhaseAt(Recovery)
  BY <1>1, <1>2, RunGoes
<1>4. Keeps(Recovery) BY <1>1, <1>3 DEF Keeps, Present
<1>5. ASSUME ~raced PROVE PhaseAt(Recovery)'
  <2>1. /\ journal[On(Recovery)].state \in {Pending, "commit_decided"} /\ ~pos[Recovery].rolling
        /\ Seen # "rolled_back"
    BY <1>1, <1>3, <1>5 DEF PhaseAt, StateAt, Committing
  <2>2. journal'[On(Recovery)].state \in StateAt(pos'[Recovery].step)
    BY <1>1, <1>2, <1>3, <2>1 DEF StateAt, Committing
  <2>3. pos'[Recovery].step \notin Rolling BY <1>2, <1>3 DEF Rolling
  <2> QED BY <1>3, <2>1, <2>2, <2>3, WorkerPhase
<1>6. dir' \in Directories /\ RecordsOK' /\ faults' \in Nat /\ stale' \subseteq Workers \X Calls
  BY <1>1, <1>3 DEF TypeOK, DiskOK, RecordsOK, MemoryOK, HistoryOK
<1> QED BY <1>1, <1>3, <1>4, <1>5, <1>6, LogStep DEF Installed

LEMMA FinishCommittedKeeps ==
    ASSUME MoveInv, FinishCommitted
    PROVE  MoveInv'
<1> USE RunIs
<1>1. pos[Recovery].step = "finish"
      /\ pos[Recovery].step \in (Held \cup Undoing \cup RunSteps) \ {"inspect", "idle", "choose"}
  BY DEF FinishCommitted, At, RunSteps
<1> USE <1>1, AtHand
<1> DEFINE c == On(Recovery)
<1>2. /\ journal' \in [Calls -> Manifests] /\ stale' \subseteq Workers \X Calls
      /\ journal'[c].state = "committed" /\ journal'[c].object = journal[c].object
      /\ \A d \in Calls \ {c} : journal'[d] = journal[d]
  BY BecomeIs DEF FinishCommitted, States
<1>3. /\ pos' \in [Workers -> Positions] /\ Still(Recovery) /\ pos'[Recovery].rolling = pos[Recovery].rolling
      /\ pos'[Recovery].step = "sweep" /\ pos'[Recovery].todo = Sources(c)
  BY LoopIs DEF FinishCommitted, RunSteps
<1>4. /\ Rests(Recovery) /\ UNCHANGED <<changeset, audited, faults, task, due>> /\ On(Recovery)' = c
      /\ UNCHANGED <<order, at, bytes, stage, dir>>
  BY StaysIs DEF FinishCommitted, disk, records, Rest, Stays
<1>5. Keeps(Recovery) BY <1>2 DEF Keeps
<1>6. Arrives(Recovery) BY <1>3 DEF Arrives, RunSteps
<1>7. ASSUME ~raced
      PROVE  PhaseAt(Recovery)' /\ LoopAt(Recovery)' /\ journal[c].state \in Installed
  <2>1. journal[c].state = "commit_decided" /\ ~pos[Recovery].rolling /\ Seen # "rolled_back"
    BY <1>7 DEF PhaseAt, StateAt, Committing, Held
  <2>2. journal'[c].state \in StateAt(pos'[Recovery].step) BY <1>2, <1>3 DEF StateAt, Committing
  <2>3. "sweep" \notin Rolling BY DEF Rolling
  <2>4. PhaseAt(Recovery)' BY <1>3, <1>4, <2>1, <2>2, <2>3, WorkerPhase
  <2> QED BY <1>3, <2>1, <2>4, LoopFree DEF Installed
<1>8. dir' \in Directories /\ RecordsOK' /\ faults' \in Nat
  BY <1>2, <1>4 DEF TypeOK, DiskOK, RecordsOK, HistoryOK
<1> QED BY <1>2, <1>3, <1>4, <1>5, <1>6, <1>7, <1>8, LogStep

\* The stage name that goes is one of several, or there is none.
LEMMA Unstaged ==
    ASSUME TypeOK, NEW c \in Calls, NEW h \in Paths, stage' = [stage EXCEPT ![c][h] = None],
           UNCHANGED <<at, removed>>
    PROVE  /\ stage' \in [Calls -> [Paths -> Names]]
           /\ \A d \in Calls, p \in Paths : stage'[d][p] \in {None, stage[d][p]}
           /\ stage[c][h] = None \/ stage[c][h] = at[h] => \A o \in Objects : Named(o) => Named(o)'
<1>1. stage \in [Calls -> [Paths -> Names]] BY DEF TypeOK, DiskOK
<1>2. /\ stage' \in [Calls -> [Paths -> Names]]
      /\ \A d \in Calls, p \in Paths : stage'[d][p] = IF d = c /\ p = h THEN None ELSE stage[d][p]
  BY <1>1 DEF Names
<1>3. ASSUME stage[c][h] = None \/ stage[c][h] = at[h] PROVE \A o \in Objects : Named(o) => Named(o)'
  <2>1. \A o \in Objects : o # None BY MoveAssumption
  <2>2. \A o \in Objects : o = stage[c][h] => Named(o)' BY <1>3, <2>1 DEF Named
  <2>3. \A o \in Objects, d \in Calls, q \in Paths : stage[d][q] = o => stage'[d][q] = o \/ Named(o)'
    BY <1>2, <2>2
  <2> QED BY <2>3, NamesStay
<1> QED BY <1>2, <1>3

LEMMA SweepKeeps ==
    ASSUME MoveInv, Sweep
    PROVE  MoveInv'
<1> USE RunIs
<1>1. pos[Recovery].step = "sweep" /\ Stays /\ UNCHANGED <<order, at, bytes, dir, journal, stale>>
  BY DEF Sweep, At, records, Rest, Stays
<1>2. Done(Recovery, "sweep", "record") BY DEF Sweep
<1>0. PICK c \in Calls, h \in Paths : c = On(Recovery) /\ h = Here(Recovery) BY <1>1, <1>2, RunGoes
<1>3. /\ pos' \in [Workers -> Positions] /\ Still(Recovery) /\ Arrives(Recovery) /\ Rests(Recovery)
      /\ UNCHANGED <<changeset, audited, faults, task, due, removed>> /\ On(Recovery)' = c
      /\ pos'[Recovery].rolling = pos[Recovery].rolling
      /\ pos'[Recovery].step \in {"sweep", "record"} /\ LoopAt(Recovery)'
      /\ c \in Present /\ TypeOK /\ Ready(Recovery)
      /\ ~raced => StageInv /\ PhaseAt(Recovery)
  BY <1>0, <1>1, <1>2, RunGoes
<1>4. stage' = [stage EXCEPT ![c][h] = None] BY <1>0 DEF Sweep
<1>5. /\ stage' \in [Calls -> [Paths -> Names]]
      /\ \A d \in Calls, p \in Paths : stage'[d][p] \in {None, stage[d][p]}
      /\ stage[c][h] = None \/ stage[c][h] = at[h] => \A o \in Objects : Named(o) => Named(o)'
  BY <1>1, <1>3, <1>4, Unstaged
<1>6. ASSUME ~raced PROVE PhaseAt(Recovery)' /\ \A o \in Objects : Named(o) => Named(o)'
  <2>1. journal[c].state = "committed" /\ Seen # "rolled_back"
    BY <1>0, <1>1, <1>3, <1>6 DEF PhaseAt, StateAt, Committing
  <2>2. stage[c][h] = None BY <1>3, <1>6, <2>1 DEF StageInv
  <2>3. journal'[c].state \in StateAt(pos'[Recovery].step) BY <1>1, <1>3, <2>1 DEF StateAt, Committing, Final
  <2>4. pos'[Recovery].step \notin Rolling \cup Undoing \cup Held \cup {"probe", "confirm"}
    BY <1>3 DEF Rolling, Undoing, Held, Committing
  <2>5. PhaseAt(Recovery)' BY <1>0, <1>3, <2>1, <2>3, <2>4, WorkerPhase
  <2> QED BY <1>5, <2>2, <2>5
<1>7. at' \in [Paths -> Names] BY <1>1, <1>3 DEF TypeOK, DiskOK
<1> QED BY <1>1, <1>3, <1>5, <1>6, <1>7, FileStep

LEMMA VerifyKeeps ==
    ASSUME MoveInv, Verify
    PROVE  MoveInv'
<1> USE RunIs
<1>1. pos[Recovery].step = "verify" /\ Stays /\ UNCHANGED <<order, at, bytes, dir, journal, stale>>
  BY DEF Verify, At, records, Rest, Stays
<1>2. Done(Recovery, "verify", "rmdir") BY DEF Verify
<1>0. PICK c \in Calls, h \in Paths : c = On(Recovery) /\ h = Here(Recovery) BY <1>1, <1>2, RunGoes
<1>3. /\ pos' \in [Workers -> Positions] /\ Still(Recovery) /\ Arrives(Recovery) /\ Rests(Recovery)
      /\ UNCHANGED <<changeset, audited, faults, task, due, removed>> /\ On(Recovery)' = c
      /\ pos'[Recovery].rolling = pos[Recovery].rolling
      /\ pos'[Recovery].step \in {"verify", "rmdir"} /\ LoopAt(Recovery)'
      /\ c \in Present /\ TypeOK /\ Ready(Recovery)
      /\ Object(Recovery) = journal[c].object[h]
      /\ ~raced => StageInv /\ PhaseAt(Recovery)
  BY <1>0, <1>1, <1>2, RunGoes
<1>4. stage' = [stage EXCEPT ![c][h] = None] BY <1>0 DEF Verify
<1>5. /\ stage' \in [Calls -> [Paths -> Names]]
      /\ \A d \in Calls, p \in Paths : stage'[d][p] \in {None, stage[d][p]}
      /\ stage[c][h] = None \/ stage[c][h] = at[h] => \A o \in Objects : Named(o) => Named(o)'
  BY <1>1, <1>3, <1>4, Unstaged
<1>6. ASSUME ~raced PROVE PhaseAt(Recovery)' /\ \A o \in Objects : Named(o) => Named(o)'
  <2>1. journal[c].state = "rolled_back"
    BY <1>0, <1>1, <1>3, <1>6 DEF PhaseAt, StateAt, Committing
  <2>2. at[h] = journal[c].object[h] BY <1>0, <1>3 DEF Verify, Restored
  <2>3. stage[c][h] # None => stage[c][h] = at[h] BY <1>3, <1>6, <2>2 DEF StageInv
  <2>4. journal'[c].state \in StateAt(pos'[Recovery].step) BY <1>1, <1>3, <2>1 DEF StateAt, Committing
  <2>5. Seen' = Seen /\ PhaseAt(Recovery) BY <1>3, <1>6 DEF Seen
  <2>6. "verify" \notin Rolling \cup Undoing \cup Held \cup {"probe", "confirm"}
        /\ "rmdir" \notin Held \cup {"probe", "confirm"}
    BY DEF Rolling, Undoing, Held, Committing
  <2>7. Seen = "rolled_back" BY <1>1, <2>5 DEF PhaseAt
  <2>8. journal'[c].state = "rolled_back" BY <1>1, <2>1
  <2>9. PhaseAt(Recovery)' BY <1>0, <1>3, <2>4, <2>5, <2>6, <2>7, <2>8 DEF PhaseAt
  <2> QED BY <1>5, <2>3, <2>9
<1>7. at' \in [Paths -> Names] BY <1>1, <1>3 DEF TypeOK, DiskOK
<1> QED BY <1>1, <1>3, <1>5, <1>6, <1>7, FileStep

LEMMA RolledBackKeeps ==
    ASSUME MoveInv, RolledBack
    PROVE  MoveInv'
<1> USE RunIs
<1>1. pos[Recovery].step = "conclude"
      /\ pos[Recovery].step \in (Held \cup Undoing \cup RunSteps) \ {"inspect", "idle", "choose"}
  BY DEF RolledBack, At, Undoing, Rolling
<1> USE <1>1, AtHand
<1> DEFINE c == On(Recovery)
<1>2. /\ journal' \in [Calls -> Manifests] /\ stale' \subseteq Workers \X Calls
      /\ journal'[c].object = journal[c].object
      /\ journal'[c].state = IF Seen = "rolled_back" THEN journal[c].state ELSE "rolled_back"
      /\ \A d \in Calls \ {c} : journal'[d] = journal[d]
  <2>1. CASE Seen = "rolled_back" BY <2>1 DEF RolledBack, TypeOK, RecordsOK, MemoryOK
  <2>2. CASE Seen # "rolled_back" BY <2>2, BecomeIs DEF RolledBack, States
  <2> QED BY <2>1, <2>2
<1>3. pos' \in [Workers -> Positions] /\ Still(Recovery) /\ pos'[Recovery].step = "record"
  BY GotoIs DEF RolledBack, RunSteps
<1>4. /\ Rests(Recovery) /\ UNCHANGED <<changeset, audited, faults, task, due>> /\ On(Recovery)' = c
      /\ UNCHANGED <<order, at, bytes, stage, dir>>
  BY StaysIs DEF RolledBack, disk, records, Rest, Stays
<1>5. Keeps(Recovery) BY <1>2 DEF Keeps, Present
<1>6. Arrives(Recovery) BY <1>3 DEF Arrives, RunSteps, Looping
<1>7. ASSUME ~raced
      PROVE  PhaseAt(Recovery)' /\ LoopAt(Recovery)' /\ journal'[c].state = "rolled_back"
  <2>1. journal'[c].state = "rolled_back" BY <1>2, <1>7 DEF PhaseAt
  <2>2. journal'[c].state \in StateAt(pos'[Recovery].step) BY <1>3, <2>1 DEF StateAt, Committing, Final
  <2>3. "record" \notin Rolling \cup Undoing \cup Held \cup {"probe", "confirm"}
    BY DEF Rolling, Undoing, Held, Committing
  <2>4. PhaseAt(Recovery)' BY <1>3, <1>4, <2>1, <2>2, <2>3 DEF PhaseAt
  <2> QED BY <1>3, <2>1, <2>4, LoopFree
<1>8. dir' \in Directories /\ RecordsOK' /\ faults' \in Nat
  BY <1>2, <1>4 DEF TypeOK, DiskOK, RecordsOK, HistoryOK
<1> QED BY <1>2, <1>3, <1>4, <1>5, <1>6, <1>7, <1>8, LogStep DEF Installed, Pending

-----------------------------------------------------------------------------
(* The steps of the server as a whole: a run begins and ends, and the       *)
(* memory is gone.                                                          *)

\* No file changes its names, and no call gets to work but one that inspects.
LEMMA ServerStep ==
    ASSUME MoveInv, TypeOK', LockInv', TodoInv',
           UNCHANGED <<at, stage, order, task, removed>>,
           \A d \in Calls : /\ journal'[d].object = journal[d].object
                            /\ journal'[d].state = "none" <=> journal[d].state = "none"
                            /\ journal'[d].state \in Installed => journal[d].state \in Installed,
           \A d \in Calls :
              /\ pos'[d].step \in {"idle", "waiting", "inspect"} => pos[d].step \in {"idle", "waiting", "inspect"}
              /\ pos'[d].step # "over" => pos[d].step # "over"
              /\ Active(d)' => pos'[d].step = "inspect" \/ (Active(d) /\ pos'[d].step = pos[d].step),
           ~raced' => /\ ~raced /\ RunInv' /\ RecoveredBeforeMove'
                      /\ \A w \in Workers : Works(w)' => PhaseAt(w)' /\ LoopAt(w)'
    PROVE  MoveInv'
<1>1. BaseInv /\ OrderInv BY DEF MoveInv, BaseInv
<1>2. Present' = Present BY DEF Present
<1>3. \A d \in Calls : Sources(d)' = Sources(d) BY DEF Sources, Plan
<1>4. \A d \in Present : d \in Calls BY DEF Present
<1>5. OrderInv'
  <2>1. \A d \in Calls : pos'[d].step \in {"idle", "waiting", "inspect"} => journal'[d].state = "none"
    BY <1>1 DEF OrderInv
  <2>2. \A d \in Calls : Active(d)' /\ pos'[d].step # "inspect" => d \in Present'
    BY <1>1, <1>2 DEF OrderInv
  <2>3. \A d \in Calls : pos'[d].step # "over" => Sources(d)' # {} BY <1>1, <1>3 DEF OrderInv
  <2>4. \A d \in Present' : Sources(d)' # {} /\ \E i \in 1..Len(order') : order'[i] = d
    BY <1>1, <1>2, <1>3, <1>4 DEF OrderInv
  <2>5. \A d \in Present' : \A p \in Sources(d)' : journal'[d].object[p] \in Objects
    BY <1>1, <1>2, <1>3, <1>4 DEF OrderInv
  <2>6. \A i \in 1..Len(order') : order'[i] \in Present' BY <1>1, <1>2 DEF OrderInv
  <2>7. \A i, j \in 1..Len(order') : order'[i] = order'[j] => i = j BY <1>1 DEF OrderInv
  <2> QED BY <2>1, <2>2, <2>3, <2>4, <2>5, <2>6, <2>7 DEF OrderInv
<1>6. ASSUME ~raced' PROVE WorkInv'
  <2>1. ~raced /\ RunInv' /\ RecoveredBeforeMove' /\ \A w \in Workers : Works(w)' => PhaseAt(w)' /\ LoopAt(w)'
    BY <1>6
  <2>2. StageInv /\ FileInv BY <2>1 DEF MoveInv, WorkInv
  <2>3. StageInv' BY <1>2, <1>3, <2>2 DEF StageInv, Installed
  <2>4. FileInv' BY <1>1, <1>2, <1>4, <2>2, FilesKeep DEF Named
  <2> QED BY <2>1, <2>3, <2>4 DEF WorkInv
<1> QED BY <1>5, <1>6 DEF MoveInv, BaseInv

\* Nobody works, so nobody inspects.
LEMMA Quiet ==
    ASSUME \A d \in Calls : ~Active(d)'
    PROVE  RecoveredBeforeMove'
<1>1. \A d \in Calls : pos'[d].step # "inspect" BY DEF Active, Held
<1> QED BY <1>1 DEF RecoveredBeforeMove

\* Whoever takes the lock next to no rollback works alone.
LEMMA LockFree ==
    ASSUME MoveInv, lock \notin Calls, raced' = (raced \/ \E c \in Calls : Loose(c)), ~raced'
    PROVE  ~raced /\ \A c \in Calls : ~Active(c)
<1>1. LockInv BY DEF MoveInv, BaseInv
<1>2. \A c \in Calls : lock # c /\ ~Loose(c) OBVIOUS
<1> QED BY <1>1, <1>2 DEF LockInv, Active, Loose, Undoing

LEMMA StartRunKeeps ==
    ASSUME MoveInv, lock = None, StartRun,
           pos' \in [Workers -> Positions], pos'[Recovery].step = "choose",
           \A d \in Calls : pos'[d] = pos[d] \/ (pos[d].step = "idle" /\ pos'[d].step = "waiting"),
           UNCHANGED <<disk, journal, order, records, crashes, faults, foreign, touched, removed, derailed, misled>>,
           uses' \in Nat
    PROVE  MoveInv'
<1>1. BaseInv /\ TypeOK /\ LockInv /\ OrderInv /\ TodoInv BY DEF MoveInv, BaseInv
<1>2. None # Recovery /\ None \notin Calls /\ Recovery \notin Calls /\ Calls \subseteq Workers /\ Recovery \in Workers
  BY MoveAssumption DEF Workers
<1>3. UNCHANGED <<at, bytes, dir, stage, task, frozen, changeset, audited>> /\ lock' = Recovery
      /\ stale' \subseteq stale /\ raced' = (raced \/ \E c \in Calls : Loose(c))
      /\ due' = [i \in DOMAIN order |-> [call |-> order[i], state |-> journal[order[i]].state]]
  BY DEF StartRun, disk, records
<1>4. order \in Seq(Calls) /\ Len(order) \in Nat /\ DOMAIN order = 1..Len(order)
  BY <1>1 DEF TypeOK, RecordsOK
<1>5. \A i \in 1..Len(order) : order[i] \in Calls BY <1>4, ElementIn
<1>6. /\ due' \in Seq([call : Calls, state : States]) /\ Len(due') = Len(order)
      /\ \A i \in 1..Len(order) : due'[i].call = order[i] /\ due'[i].state = journal[order[i]].state
  <2> DEFINE r(i) == [call |-> order[i], state |-> journal[order[i]].state]
             S == [call : Calls, state : States]
  <2>1. \A i \in 1..Len(order) : r(i) \in S
    <3>1. \A i \in 1..Len(order) : journal[order[i]] \in Manifests BY <1>1, <1>5 DEF TypeOK, RecordsOK
    <3>2. \A i \in 1..Len(order) : journal[order[i]].state \in States BY <3>1 DEF Manifests
    <3> QED BY <1>5, <3>2
  <2>2. due' = [i \in 1..Len(order) |-> r(i)] BY <1>3, <1>4
  <2>3. \A i \in 1..Len(order) : r(i).call = order[i] /\ r(i).state = journal[order[i]].state OBVIOUS
  <2> HIDE DEF r, S
  <2>4. due' \in [1..Len(order) -> S] BY <2>1, <2>2
  <2>5. due' \in Seq(S) /\ Len(due') = Len(order) BY <1>4, <2>4
  <2>6. \A i \in 1..Len(order) : due'[i] = r(i) BY <2>2
  <2> QED BY <2>3, <2>5, <2>6 DEF S
<1>7. TypeOK'
  <2>1. DiskOK' /\ RecordsOK' BY <1>1, <1>3 DEF TypeOK, DiskOK, RecordsOK
  <2>2. MemoryOK' BY <1>1, <1>2, <1>3, <1>6 DEF TypeOK, MemoryOK
  <2>3. HistoryOK' BY <1>1, <1>3 DEF TypeOK, HistoryOK
  <2> QED BY <2>1, <2>2, <2>3 DEF TypeOK
<1>8. \A d \in Calls : pos[d].step \notin Held \cup {"waiting"} BY <1>1, <1>2 DEF LockInv
<1>9. \A d \in Calls : /\ pos'[d].step \in CallSteps /\ pos'[d].step \notin Held
                       /\ Active(d)' => Active(d) /\ pos'[d].step = pos[d].step
  <2>1. \A d \in Calls : pos[d].step \in CallSteps BY <1>1 DEF LockInv
  <2>2. "waiting" \notin Held \cup Undoing /\ "waiting" \in CallSteps
    BY DEF Held, Committing, Undoing, Rolling, CallSteps
  <2> QED BY <1>8, <2>1, <2>2 DEF Active
<1>10. ~raced' => ~raced /\ \A d \in Calls : ~Active(d)' BY <1>2, <1>3, <1>9, LockFree
<1>11. LockInv'
  <2>1. "choose" \in RunSteps BY DEF RunSteps
  <2> HIDE DEF Active
  <2> QED BY <1>3, <1>9, <1>10, <2>1 DEF LockInv
<1>12. Present' = Present BY DEF Present
<1>13. TodoInv'
  <2>1. ASSUME NEW w \in Workers, pos'[w].step \in Looping
        PROVE  pos'[w].todo # {} /\ pos'[w].todo \subseteq Sources(On(w))'
    <3>1. w # Recovery /\ w \in Calls BY <2>1 DEF Looping, Workers
    <3>2. pos'[w] = pos[w] BY <2>1, <3>1 DEF Looping
    <3>3. Sources(On(w))' = Sources(On(w)) BY <1>3, <3>1 DEF Sources, Plan, On
    <3> QED BY <1>1, <2>1, <3>2, <3>3 DEF TodoInv
  <2>2. \A i \in 1..Len(due') : due'[i].call \in Present' BY <1>1, <1>6, <1>12 DEF OrderInv
  <2> QED BY <2>1, <2>2 DEF TodoInv
<1>14. RunInv'
  <2>1. \A d \in Present' : \E i \in 1..Len(due') : due'[i].call = d BY <1>1, <1>6, <1>12 DEF OrderInv
  <2>2. \A i \in 1..Len(due') : due'[i].state = journal'[due'[i].call].state BY <1>6
  <2>3. \A i, j \in 1..Len(due') : due'[i].call = due'[j].call => i = j BY <1>1, <1>6 DEF OrderInv
  <2> QED BY <2>1, <2>2, <2>3 DEF RunInv
<1>15. ~raced' => \A w \in Workers : ~Works(w)'
  <2>1. ~Works(Recovery)' BY DEF Works
  <2> QED BY <1>10, <2>1 DEF Works, Workers
<1> HIDE DEF StartRun
<1> QED BY <1>3, <1>7, <1>9, <1>10, <1>11, <1>13, <1>14, <1>15, Quiet, ServerStep

LEMMA AskKeeps ==
    ASSUME MoveInv, NEW c \in Calls, Ask(c)
    PROVE  MoveInv'
<1>1. TypeOK /\ LockInv BY DEF MoveInv, BaseInv
<1>2. pos[c].step = "idle" /\ c \in Workers /\ Recovery \in Workers /\ c # Recovery
  BY MoveAssumption DEF Ask, Workers
<1>3. UNCHANGED <<disk, journal, order, records, crashes, faults, uses, foreign, touched, removed, derailed, misled>>
  BY DEF Ask, limits
<1>4. RecordsOK' /\ faults' \in Nat /\ uses' \in Nat BY <1>1, <1>3 DEF TypeOK, RecordsOK, HistoryOK, records
<1>5. CASE UNCHANGED <<memory, stale, raced>> /\ (Over(c) \/ (lock = Recovery /\ Goto(c, "waiting")))
  <2>1. /\ pos' \in [Workers -> Positions] /\ Still(c)
        /\ pos'[c].step = "over" \/ (pos'[c].step = "waiting" /\ lock = Recovery)
    <3>1. CASE Over(c) BY <1>1, <3>1, OverIs
    <3>2. CASE lock = Recovery /\ Goto(c, "waiting") BY <1>1, <1>2, <3>2, GotoIs DEF CallSteps
    <3> QED BY <1>5, <3>1, <3>2
  <2>2. UNCHANGED <<task, lock, frozen, due, stale, history>> BY <1>3, <1>5 DEF memory, history
  <2> QED BY <1>2, <1>3, <1>4, <2>1, <2>2, CallEnds
<1>6. CASE /\ lock = None /\ StartRun
           /\ pos' = [pos EXCEPT ![c].step = "waiting", ![Recovery].step = "choose"]
  <2> DEFINE r == [pos[c] EXCEPT !.step = "waiting"]
             s == [pos[Recovery] EXCEPT !.step = "choose"]
  <2>1. pos \in [Workers -> Positions] BY <1>1 DEF TypeOK, MemoryOK
  <2>2. r \in Positions /\ r.step = "waiting" BY <1>2, <2>1 DEF Positions, CallSteps
  <2>3. s \in Positions /\ s.step = "choose" BY <1>2, <2>1 DEF Positions, RunSteps
  <2>4. pos' = [[pos EXCEPT ![c] = r] EXCEPT ![Recovery] = s] BY <1>2, <1>6, <2>1
  <2> HIDE DEF r, s
  <2>5. /\ pos' \in [Workers -> Positions] /\ pos'[Recovery].step = "choose"
        /\ pos'[c].step = "waiting" /\ \A v \in Workers \ {c, Recovery} : pos'[v] = pos[v]
    BY <1>2, <2>1, <2>2, <2>3, <2>4
  <2>6. \A d \in Calls : pos'[d] = pos[d] \/ (pos[d].step = "idle" /\ pos'[d].step = "waiting")
    BY <1>2, <2>5, MoveAssumption DEF Workers
  <2> QED BY <1>3, <1>4, <1>6, <2>5, <2>6, StartRunKeeps
<1>7. lock \notin {None, Recovery} \/ lock = Recovery \/ lock = None OBVIOUS
<1> QED BY <1>5, <1>6, <1>7 DEF Ask

\* The memory is gone.
LEMMA EndsKeeps ==
    ASSUME MoveInv, Ends, UNCHANGED <<at, bytes, dir, stage, order, removed>>,
           journal' \in [Calls -> Manifests], RecordsOK', HistoryOK', raced' = raced,
           \A d \in Calls : /\ journal'[d].object = journal[d].object
                            /\ journal'[d].state = "none" <=> journal[d].state = "none"
                            /\ journal'[d].state \in Installed => journal[d].state \in Installed
    PROVE  MoveInv'
<1>1. BaseInv /\ TypeOK /\ LockInv BY DEF MoveInv, BaseInv
<1>2. None # Recovery /\ Recovery \notin Calls /\ Calls \subseteq Workers /\ Recovery \in Workers
  BY MoveAssumption DEF Workers
<1>3. lock' = None /\ frozen' = FALSE /\ due' = <<>> /\ stale' = {} /\ task' = task BY DEF Ends
<1> DEFINE r == [Resting EXCEPT !.step = "over"]
<1>4. r \in Positions /\ r.step = "over" /\ Resting \in Positions /\ Resting.step = "idle"
  BY DEF Resting, Positions, CallSteps
<1>5. pos' = [w \in Workers |-> IF w = Recovery \/ pos[w].step = "idle" THEN Resting ELSE r] BY DEF Ends
<1> HIDE DEF r
<1>6. /\ pos' \in [Workers -> Positions] /\ pos'[Recovery].step = "idle"
      /\ \A w \in Workers : pos'[w].step \in {"idle", "over"}
      /\ \A d \in Calls : /\ pos'[d].step = "idle" => pos[d].step = "idle"
                          /\ pos'[d].step # "over" => pos[d].step # "over"
  <2>1. pos' \in [Workers -> Positions] BY <1>4, <1>5
  <2>2. pos'[Recovery].step = "idle" BY <1>2, <1>4, <1>5
  <2>3. \A w \in Workers : pos'[w].step \in {"idle", "over"} BY <1>4, <1>5
  <2>4. \A d \in Calls : pos'[d].step = IF pos[d].step = "idle" THEN "idle" ELSE "over"
    BY <1>2, <1>4, <1>5
  <2> QED BY <2>1, <2>2, <2>3, <2>4
<1>7. TypeOK'
  <2>1. DiskOK' BY <1>1 DEF TypeOK, DiskOK
  <2>2. <<>> \in Seq([call : Calls, state : States]) OBVIOUS
  <2>3. task' \in [Calls -> Requests] BY <1>1, <1>3 DEF TypeOK, MemoryOK
  <2>4. MemoryOK' BY <1>3, <1>6, <2>2, <2>3 DEF MemoryOK
  <2> QED BY <2>1, <2>4 DEF TypeOK
<1>8. {"idle", "over"} \cap (Held \cup Undoing \cup Looping \cup {"waiting", "inspect"}) = {}
      /\ {"idle", "over"} \subseteq CallSteps /\ "idle" \in RunSteps
  BY DEF Held, Committing, Undoing, Rolling, Looping, CallSteps, RunSteps
<1>9. \A d \in Calls : ~Active(d)' BY <1>2, <1>6, <1>8 DEF Active
<1>10. LockInv' BY <1>2, <1>3, <1>6, <1>8, <1>9 DEF LockInv
<1>11. TodoInv' BY <1>3, <1>6, <1>8 DEF TodoInv
<1>12. RunInv' BY <1>2, <1>3 DEF RunInv
<1>13. \A w \in Workers : ~Works(w)' BY <1>6, <1>9 DEF Works, Workers
<1>14. \A d \in Calls : pos'[d].step \in {"idle", "waiting", "inspect"} => pos[d].step = "idle"
  <2> SUFFICES ASSUME NEW d \in Calls, pos'[d].step \in {"idle", "waiting", "inspect"}
               PROVE  pos[d].step = "idle"
    OBVIOUS
  <2>1. d \in Workers BY <1>2
  <2>2. pos'[d].step \in {"idle", "over"} BY <1>6, <2>1
  <2>3. pos'[d].step = "idle" BY <2>2
  <2> QED BY <1>6, <2>3
<1>15. RecoveredBeforeMove' BY <1>9, Quiet
<1>16. \A d \in Calls :
        /\ pos'[d].step \in {"idle", "waiting", "inspect"} => pos[d].step \in {"idle", "waiting", "inspect"}
        /\ pos'[d].step # "over" => pos[d].step # "over"
        /\ Active(d)' => pos'[d].step = "inspect" \/ (Active(d) /\ pos'[d].step = pos[d].step)
  <2> SUFFICES ASSUME NEW d \in Calls
               PROVE  /\ pos'[d].step \in {"idle", "waiting", "inspect"} => pos[d].step \in {"idle", "waiting", "inspect"}
                      /\ pos'[d].step # "over" => pos[d].step # "over"
                      /\ ~Active(d)'
    OBVIOUS
  <2>1. pos'[d].step \in {"idle", "waiting", "inspect"} => pos[d].step = "idle" BY <1>14
  <2>2. pos'[d].step # "over" => pos[d].step # "over" BY <1>6
  <2> QED BY <1>9, <2>1, <2>2
<1>17. ~raced' => /\ ~raced /\ RunInv' /\ RecoveredBeforeMove'
                  /\ \A w \in Workers : Works(w)' => PhaseAt(w)' /\ LoopAt(w)'
  BY <1>12, <1>13, <1>15
<1> HIDE DEF Active
<1> QED BY <1>3, <1>7, <1>10, <1>11, <1>16, <1>17, ServerStep

LEMMA UseWorkspaceKeeps ==
    ASSUME MoveInv, UseWorkspace
    PROVE  MoveInv'
<1>1. TypeOK BY DEF MoveInv, BaseInv
<1>2. /\ UNCHANGED <<disk, journal, order, records, crashes, faults, foreign, touched, removed, derailed, misled>>
      /\ uses > 0 /\ uses' = uses - 1
  BY DEF UseWorkspace
<1>3. uses' \in Nat BY <1>1, <1>2 DEF TypeOK, HistoryOK
<1>4. CASE frozen
  <2>1. Ends /\ raced' = raced BY <1>4 DEF UseWorkspace
  <2>2. RecordsOK' BY <1>1, <1>2 DEF TypeOK, RecordsOK, records
  <2>3. HistoryOK' BY <1>1, <1>2, <1>3, <2>1 DEF TypeOK, HistoryOK
  <2>4. journal' \in [Calls -> Manifests] BY <2>2 DEF RecordsOK
  <2> QED BY <1>2, <2>1, <2>2, <2>3, <2>4, EndsKeeps DEF disk
<1>5. CASE ~frozen
  <2>1. lock = None /\ StartRun /\ Goto(Recovery, "choose") BY <1>5 DEF UseWorkspace
  <2>2. Recovery \in Workers /\ \A d \in Calls : d \in Workers \ {Recovery} BY MoveAssumption DEF Workers
  <2>3. pos' \in [Workers -> Positions] /\ Still(Recovery) /\ pos'[Recovery].step = "choose"
    BY <1>1, <2>1, <2>2, GotoIs DEF RunSteps
  <2>4. \A d \in Calls : pos'[d] = pos[d] BY <2>2, <2>3 DEF Still
  <2> QED BY <1>2, <1>3, <2>1, <2>3, <2>4, StartRunKeeps
<1> QED BY <1>4, <1>5

LEMMA CrashKeeps ==
    ASSUME MoveInv, Crash
    PROVE  MoveInv'
<1>1. TypeOK BY DEF MoveInv, BaseInv
<1>2. /\ UNCHANGED <<disk, journal, order, records, faults, uses, foreign, history>>
      /\ crashes > 0 /\ crashes' = crashes - 1 /\ Ends
  BY DEF Crash
<1>3. crashes' \in Nat BY <1>1, <1>2 DEF TypeOK, HistoryOK
<1>4. RecordsOK' BY <1>1, <1>2 DEF TypeOK, RecordsOK, records
<1>5. HistoryOK' BY <1>1, <1>2, <1>3 DEF TypeOK, HistoryOK, history
<1>6. journal' \in [Calls -> Manifests] BY <1>4 DEF RecordsOK
<1> QED BY <1>2, <1>4, <1>5, <1>6, EndsKeeps DEF disk, history

\* The run goes on to the next manifest, this one is at its end.
LEMMA RecordedKeeps ==
    ASSUME MoveInv, Recorded
    PROVE  MoveInv'
<1> USE RunIs
<1>1. pos[Recovery].step = "record"
      /\ pos[Recovery].step \in (Held \cup Undoing \cup RunSteps) \ {"inspect", "idle", "choose"}
  BY DEF Recorded, At, RunSteps
<1>2. BaseInv /\ TypeOK /\ LockInv /\ TodoInv /\ lock = Recovery /\ Ready(Recovery)
  BY <1>1, AtHand DEF MoveInv, BaseInv
<1>3. On(Recovery) = due[1].call /\ Len(due) \in Nat \ {0} BY <1>2, ReadyIs
<1>4. /\ UNCHANGED <<at, bytes, dir, stage, journal, order, changeset, audited, task, lock, frozen, stale,
                     crashes, faults, uses, foreign, touched, removed, derailed, misled, raced>>
      /\ due' = Tail(due)
  BY DEF Recorded, disk, records, limits, history
<1>5. due \in Seq([call : Calls, state : States]) BY <1>2 DEF TypeOK, MemoryOK
<1>6. /\ due' \in Seq([call : Calls, state : States]) /\ Len(due') = Len(due) - 1
      /\ \A i \in 1..Len(due') : i + 1 \in 1..Len(due) /\ due'[i] = due[i + 1]
  <2> DEFINE S == [call : Calls, state : States]
  <2> HIDE DEF S
  <2>1. due \in Seq(S) BY <1>5 DEF S
  <2> QED BY <1>3, <1>4, <2>1 DEF S
<1>7. /\ pos' \in [Workers -> Positions] /\ Still(Recovery) /\ pos'[Recovery].step = "choose"
  BY <1>2, GotoIs DEF Recorded, RunSteps
<1>8. \A d \in Calls : d \in Workers /\ d # Recovery /\ pos'[d] = pos[d]
  BY <1>7, MoveAssumption DEF Still, Workers
<1>9. TypeOK'
  <2>1. DiskOK' /\ RecordsOK' BY <1>2, <1>4 DEF TypeOK, DiskOK, RecordsOK
  <2>2. MemoryOK'
    <3>1. /\ task' \in [Calls -> Requests] /\ lock' \in Workers \cup {None} /\ frozen' \in BOOLEAN
          /\ stale' \subseteq Workers \X Calls
      BY <1>2, <1>4 DEF TypeOK, MemoryOK
    <3> QED BY <1>6, <1>7, <3>1 DEF MemoryOK
  <2>3. HistoryOK' BY <1>2, <1>4 DEF TypeOK, HistoryOK
  <2> QED BY <2>1, <2>2, <2>3 DEF TypeOK
<1>10. LockInv'
  <2>1. \A d \in Calls : Active(d)' <=> Active(d) BY <1>8 DEF Active
  <2>2. "choose" \in RunSteps BY DEF RunSteps
  <2> HIDE DEF Active
  <2> QED BY <1>2, <1>4, <1>7, <1>8, <2>1, <2>2 DEF LockInv
<1>11. Present' = Present BY <1>4 DEF Present
<1>12. TodoInv'
  <2>1. ASSUME NEW w \in Workers, pos'[w].step \in Looping
        PROVE  pos'[w].todo # {} /\ pos'[w].todo \subseteq Sources(On(w))'
    <3>1. w # Recovery /\ w \in Calls BY <1>7, <2>1 DEF Looping, Workers
    <3>2. pos'[w] = pos[w] BY <1>8, <3>1
    <3>3. Sources(On(w))' = Sources(On(w)) BY <1>4, <3>1 DEF Sources, Plan, On
    <3> QED BY <1>2, <2>1, <3>2, <3>3 DEF TodoInv
  <2>2. \A i \in 1..Len(due') : due'[i].call \in Present' BY <1>2, <1>6, <1>11 DEF TodoInv
  <2> QED BY <1>7, <2>1, <2>2 DEF TodoInv
<1>13. ASSUME ~raced PROVE RunInv'
  <2>1. RunInv BY <1>13 DEF MoveInv, WorkInv
  <2>2. journal[due[1].call].state \in Final
    <3>1. PhaseAt(Recovery) BY <1>1, <1>13, AtHand
    <3> QED BY <1>1, <1>3, <3>1 DEF PhaseAt, StateAt, Committing
  <2>3. \A d \in Present' : journal'[d].state \in Final \/ \E i \in 1..Len(due') : due'[i].call = d
    <3> SUFFICES ASSUME NEW d \in Present, journal[d].state \notin Final
                 PROVE  \E i \in 1..Len(due') : due'[i].call = d
      BY <1>4, <1>11
    <3>1. PICK k \in 1..Len(due) : due[k].call = d BY <1>2, <2>1 DEF RunInv
    <3>2. k # 1 BY <2>2, <3>1
    <3>3. k - 1 \in 1..Len(due') /\ (k - 1) + 1 = k BY <1>3, <1>6, <3>2
    <3>4. due'[k - 1].call = d BY <1>6, <3>1, <3>3
    <3> QED BY <3>3, <3>4
  <2>4. \A i \in 1..Len(due') : due'[i].state = journal'[due'[i].call].state
    <3> SUFFICES ASSUME NEW i \in 1..Len(due') PROVE due'[i].state = journal[due'[i].call].state BY <1>4
    <3>1. i + 1 \in 1..Len(due) /\ due'[i] = due[i + 1] /\ i + 1 # 1 BY <1>6
    <3>2. due[i + 1].state = journal[due[i + 1].call].state BY <1>2, <2>1, <3>1 DEF RunInv
    <3> QED BY <3>1, <3>2
  <2>5. \A i, j \in 1..Len(due') : due'[i].call = due'[j].call => i = j
    <3> SUFFICES ASSUME NEW i \in 1..Len(due'), NEW j \in 1..Len(due'), due'[i].call = due'[j].call
                 PROVE  i = j
      OBVIOUS
    <3>1. /\ i + 1 \in 1..Len(due) /\ due'[i] = due[i + 1]
          /\ j + 1 \in 1..Len(due) /\ due'[j] = due[j + 1]
      BY <1>6
    <3>2. i + 1 = j + 1 BY <1>2, <2>1, <3>1 DEF RunInv
    <3> QED BY <3>2
  <2> QED BY <2>3, <2>4, <2>5 DEF RunInv
<1>14. ASSUME ~raced PROVE \A d \in Calls : ~Active(d)'
  <2>1. \A d \in Calls : ~Works(d) BY <1>2, <1>8, <1>14, OthersRest
  <2> QED BY <1>8, <2>1 DEF Works, Active
<1>15. ASSUME ~raced PROVE RecoveredBeforeMove' /\ \A w \in Workers : ~Works(w)'
  <2>1. ~Works(Recovery)' BY <1>7 DEF Works
  <2> QED BY <1>14, <1>15, <2>1, Quiet DEF Works, Workers
<1>16. ~raced' => /\ ~raced /\ RunInv' /\ RecoveredBeforeMove'
                  /\ \A w \in Workers : Works(w)' => PhaseAt(w)' /\ LoopAt(w)'
  BY <1>4, <1>13, <1>15
<1>17. \A d \in Calls : pos'[d] = pos[d] /\ (Active(d)' <=> Active(d)) BY <1>8 DEF Active
<1>18. \A d \in Calls : journal'[d] = journal[d] BY <1>4
<1> QED BY <1>4, <1>9, <1>10, <1>12, <1>16, <1>17, <1>18, ServerStep

\* The run has visited everything: the lock goes to one that waits for it.
LEMMA RunEndsKeeps ==
    ASSUME MoveInv, RunEnds
    PROVE  MoveInv'
<1> USE RunIs
<1>1. BaseInv /\ TypeOK /\ LockInv /\ OrderInv /\ TodoInv BY DEF MoveInv, BaseInv
<1>2. pos[Recovery].step = "choose" /\ due = <<>> /\ lock = Recovery BY <1>1 DEF RunEnds, At, LockInv
<1>3. None # Recovery /\ None \notin Calls /\ Calls \subseteq Workers BY MoveAssumption DEF Workers
<1>4. /\ UNCHANGED <<at, bytes, dir, stage, journal, order, changeset, audited, task, frozen, due, stale,
                     crashes, faults, uses, foreign, touched, removed, derailed, misled>>
      /\ raced' = (raced \/ \E d \in Calls : Loose(d))
  BY DEF RunEnds, disk, records, limits
<1> DEFINE r == [Resting EXCEPT !.step = "over"]
           s == [Resting EXCEPT !.step = "inspect"]
<1>5. /\ r \in Positions /\ r.step = "over" /\ s \in Positions /\ s.step = "inspect" /\ s.rolling = FALSE
      /\ Resting \in Positions /\ Resting.step = "idle"
  BY DEF Resting, Positions, CallSteps, Held
<1>6. pos \in [Workers -> Positions] BY <1>1 DEF TypeOK, MemoryOK
<1>7. PICK c \in Calls \cup {None} :
        /\ lock' = c /\ pos' \in [Workers -> Positions] /\ pos'[Recovery].step = "idle"
        /\ c \in Calls => pos[c].step = "waiting" /\ pos'[c].step = "inspect" /\ pos'[c].rolling = FALSE
        /\ \A d \in Calls \ {c} : IF pos[d].step = "waiting" THEN pos'[d].step = "over" ELSE pos'[d] = pos[d]
  <2>1. CASE Waiting = {}
    <3>1. lock' = None /\ pos' = [pos EXCEPT ![Recovery] = Resting] BY <2>1 DEF RunEnds
    <3>2. \A d \in Calls : pos[d].step # "waiting" BY <2>1 DEF Waiting
    <3>3. pos' \in [Workers -> Positions] /\ pos'[Recovery] = Resting /\ \A d \in Calls : pos'[d] = pos[d]
      BY <1>3, <1>5, <1>6, <3>1
    <3> QED BY <1>3, <1>5, <3>1, <3>2, <3>3
  <2>2. CASE Waiting # {}
    <3>1. PICK c \in Waiting :
            /\ lock' = c
            /\ pos' = [w \in Workers |-> CASE w = Recovery -> Resting
                                          [] w = c -> s
                                          [] w \in Waiting \ {c} -> r
                                          [] OTHER -> pos[w]]
      BY <2>2 DEF RunEnds
    <3>2. c \in Calls /\ pos[c].step = "waiting" /\ c # Recovery BY DEF Waiting
    <3> HIDE DEF r, s
    <3>3. pos'[Recovery] = Resting
      <4>1. Recovery \notin Waiting BY DEF Waiting
      <4> QED BY <3>1, <3>2, <4>1
    <3>7. pos'[c] = s
      <4>1. c \in Workers BY <1>3, <3>2
      <4> QED BY <3>1, <3>2, <4>1
    <3>4. \A d \in Calls \ {c} : pos'[d] = IF pos[d].step = "waiting" THEN r ELSE pos[d]
      BY <1>3, <3>1, <3>2 DEF Waiting
    <3>5. pos' \in [Workers -> Positions] BY <1>5, <1>6, <3>1
    <3>6. /\ lock' = c /\ pos' \in [Workers -> Positions] /\ pos'[Recovery].step = "idle"
          /\ c \in Calls => pos[c].step = "waiting" /\ pos'[c].step = "inspect" /\ pos'[c].rolling = FALSE
          /\ \A d \in Calls \ {c} : IF pos[d].step = "waiting" THEN pos'[d].step = "over" ELSE pos'[d] = pos[d]
      BY <1>5, <3>1, <3>2, <3>3, <3>4, <3>5, <3>7
    <3> QED BY <3>2, <3>6
  <2> QED BY <2>1, <2>2
<1> HIDE DEF r, s
<1>8. TypeOK'
  <2>1. DiskOK' /\ RecordsOK' BY <1>1, <1>4 DEF TypeOK, DiskOK, RecordsOK
  <2>2. MemoryOK' BY <1>1, <1>3, <1>4, <1>7 DEF TypeOK, MemoryOK
  <2>3. HistoryOK' BY <1>1, <1>4 DEF TypeOK, HistoryOK
  <2> QED BY <2>1, <2>2, <2>3 DEF TypeOK
<1>9. /\ "inspect" \in Held /\ "inspect" \in CallSteps /\ "over" \in CallSteps /\ "over" \notin Held \cup Undoing
      /\ "waiting" \notin Held \cup Undoing /\ "idle" \in RunSteps
  BY DEF Held, Committing, Undoing, Rolling, CallSteps, RunSteps
<1>10. \A d \in Calls : pos[d].step \in CallSteps /\ pos[d].step \notin Held BY <1>1, <1>2 DEF LockInv
<1>11. \A d \in Calls : /\ pos'[d].step \in CallSteps /\ (pos'[d].step \in Held => d = c)
                        /\ pos'[d].step # "waiting"
                        /\ Active(d)' => d = c \/ (Active(d) /\ pos'[d].step = pos[d].step)
  <2>1. ASSUME NEW d \in Calls, d = c
        PROVE  pos'[d].step = "inspect"
    BY <1>7, <2>1
  <2>2. ASSUME NEW d \in Calls, d # c
        PROVE  pos'[d].step = "over" \/ (pos[d].step # "waiting" /\ pos'[d].step = pos[d].step)
    BY <1>7, <2>2
  <2> QED BY <1>9, <1>10, <2>1, <2>2 DEF Active
<1>12. ASSUME ~raced' PROVE ~raced /\ \A d \in Calls : Active(d)' => d = c
  <2>1. lock \notin Calls BY <1>2
  <2> QED BY <1>4, <1>11, <1>12, <2>1, LockFree
<1>13. LockInv'
  <2> HIDE DEF Active
  <2> QED BY <1>3, <1>7, <1>9, <1>11, <1>12 DEF LockInv
<1>14. TodoInv'
  <2>1. ASSUME NEW w \in Workers, pos'[w].step \in Looping
        PROVE  pos'[w].todo # {} /\ pos'[w].todo \subseteq Sources(On(w))'
    <3>1. w # Recovery /\ w \in Calls BY <1>7, <2>1 DEF Looping, Workers
    <3>2. pos'[w] = pos[w]
      <4>1. w # c BY <1>7, <2>1, <3>1 DEF Looping
      <4>2. pos[w].step # "waiting" BY <1>7, <2>1, <3>1, <4>1 DEF Looping
      <4> QED BY <1>7, <3>1, <4>1, <4>2
    <3>3. Sources(On(w))' = Sources(On(w)) BY <1>4, <3>1 DEF Sources, Plan, On
    <3> QED BY <1>1, <2>1, <3>2, <3>3 DEF TodoInv
  <2>2. Len(due') = 0 BY <1>2, <1>4
  <2> QED BY <1>7, <2>1, <2>2 DEF TodoInv
<1>15. RunInv' BY <1>3, <1>7 DEF RunInv
<1>16. ASSUME ~raced' PROVE RecoveredBeforeMove'
  <2>1. RunInv BY <1>12, <1>16 DEF MoveInv, WorkInv
  <2>2. Len(due) = 0 BY <1>2
  <2>3. \A d \in Present : journal[d].state \in Final BY <1>2, <2>1, <2>2 DEF RunInv
  <2>4. Present' = Present BY <1>4 DEF Present
  <2> QED BY <1>4, <2>3, <2>4 DEF RecoveredBeforeMove
<1>17. ASSUME ~raced', NEW w \in Workers, Works(w)' PROVE PhaseAt(w)' /\ LoopAt(w)'
  <2>1. w # Recovery BY <1>7, <1>17 DEF Works
  <2>2. w = c /\ w \in Calls BY <1>12, <1>17, <2>1 DEF Works, Workers
  <2>3. pos'[w].step = "inspect" /\ pos'[w].rolling = FALSE /\ pos[w].step = "waiting" BY <1>7, <2>2
  <2>4. journal'[w].state = "none" BY <1>1, <1>4, <2>2, <2>3 DEF OrderInv
  <2>5. journal'[w].state \in StateAt(pos'[w].step) BY <2>3, <2>4 DEF StateAt, Committing
  <2>6. "inspect" \notin Rolling BY DEF Rolling
  <2> QED BY <2>2, <2>3, <2>5, <2>6, CallPhase, LoopFree
<1>18. \A d \in Calls :
        /\ pos'[d].step \in {"idle", "waiting", "inspect"} => pos[d].step \in {"idle", "waiting", "inspect"}
        /\ pos'[d].step # "over" => pos[d].step # "over"
        /\ Active(d)' => pos'[d].step = "inspect" \/ (Active(d) /\ pos'[d].step = pos[d].step)
  <2>1. ASSUME NEW d \in Calls, d = c PROVE pos'[d].step = "inspect" /\ pos[d].step = "waiting" BY <1>7, <2>1
  <2>2. ASSUME NEW d \in Calls, d # c PROVE pos'[d].step = "over" \/ pos'[d].step = pos[d].step BY <1>7, <2>2
  <2>3. \A d \in Calls : pos'[d].step = "over" => ~Active(d)' BY <1>9 DEF Active
  <2>4. \A d \in Calls : pos'[d].step = pos[d].step => (Active(d)' <=> Active(d)) BY DEF Active
  <2> HIDE DEF Active
  <2> QED BY <2>1, <2>2, <2>3, <2>4
<1>19. ~raced' => /\ ~raced /\ RunInv' /\ RecoveredBeforeMove'
                  /\ \A w \in Workers : Works(w)' => PhaseAt(w)' /\ LoopAt(w)'
  BY <1>12, <1>15, <1>16, <1>17
<1>20. \A d \in Calls : journal'[d] = journal[d] BY <1>4
<1> QED BY <1>4, <1>8, <1>13, <1>14, <1>18, <1>19, <1>20, ServerStep

\* What a run that fails leaves of the manifest it was on.
LEMMA RunFailsLeaves ==
    ASSUME MoveInv, RunFails
    PROVE  /\ lock = Recovery /\ Ready(Recovery) /\ Current \in Calls
           /\ journal' \in [Calls -> Manifests] /\ RecordsOK' /\ HistoryOK'
           /\ UNCHANGED <<at, bytes, dir, stage, order, changeset, audited, task, removed, raced>>
           /\ \A d \in Calls : /\ journal'[d].object = journal[d].object
                               /\ journal'[d].state = "none" <=> journal[d].state = "none"
                               /\ journal'[d].state \in Installed => journal[d].state \in Installed
<1> USE RunIs
<1>1. BaseInv /\ TypeOK /\ LockInv /\ TodoInv BY DEF MoveInv, BaseInv
<1>2. lock = Recovery /\ due # <<>>
  BY <1>1 DEF RunFails, At, LockInv, TodoInv
<1>3. Ready(Recovery) BY <1>2 DEF Ready
<1>4. Current \in Calls /\ Current \in Present /\ M = journal[Current] BY <1>1, <1>3, ReadyIs
<1>5. UNCHANGED <<at, bytes, dir, stage, order, changeset, audited, task, crashes, uses, foreign, touched, removed, misled, raced>>
  <2>1. UNCHANGED <<at, bytes, dir, stage, order, changeset, audited, crashes, uses, foreign, touched, removed, misled, raced>>
    BY DEF RunFails, disk, records
  <2>2. task' = task
    <3>1. CASE Waiting = {} BY <3>1 DEF RunFails, Ends
    <3>2. CASE Waiting # {} BY <3>2 DEF RunFails
    <3> QED BY <3>1, <3>2
  <2> QED BY <2>1, <2>2
<1>6. faults' \in Nat BY <1>1, FaultIs DEF RunFails
<1>7. /\ journal' \in [Calls -> Manifests] /\ derailed' \subseteq Calls
      /\ \A d \in Calls : \/ journal'[d] = journal[d]
                          \/ /\ d = Current /\ journal'[d].object = journal[d].object
                             /\ journal'[d].state = "recovery_required"
  <2>1. journal \in [Calls -> Manifests] /\ derailed \subseteq Calls
    BY <1>1 DEF TypeOK, RecordsOK, HistoryOK
  <2>2. CASE M.state \in Final
    <3>1. UNCHANGED <<journal, derailed>> BY <2>2 DEF RunFails
    <3> QED BY <2>1, <3>1
  <2>3. CASE M.state \notin Final
    <3> DEFINE m == [journal[Current] EXCEPT !.state = "recovery_required"]
    <3>1. journal[Current] \in Manifests BY <1>4, <2>1
    <3>2. m \in Manifests /\ m.state = "recovery_required" /\ m.object = journal[Current].object
      BY <3>1 DEF Manifests, States
    <3>3. journal' = [journal EXCEPT ![Current] = m] BY <2>1, <2>3 DEF RunFails
    <3>4. derailed' \subseteq Calls
      <4>1. PICK D \in {{}, {Current}} : derailed' = derailed \cup D BY <2>3, Zenon DEF RunFails
      <4> QED BY <1>4, <2>1, <4>1
    <3> HIDE DEF m
    <3>5. journal'[Current] = m /\ \A d \in Calls \ {Current} : journal'[d] = journal[d]
      BY <1>4, <2>1, <3>3
    <3>6. journal' \in [Calls -> Manifests] BY <2>1, <3>2, <3>3
    <3> QED BY <3>2, <3>4, <3>5, <3>6
  <2> QED BY <2>2, <2>3
<1>8. RecordsOK' BY <1>1, <1>5, <1>7 DEF TypeOK, RecordsOK
<1>9. HistoryOK' BY <1>1, <1>5, <1>6, <1>7 DEF TypeOK, HistoryOK
<1>10. \A d \in Calls : /\ journal'[d].object = journal[d].object
                        /\ journal'[d].state = "none" <=> journal[d].state = "none"
                        /\ journal'[d].state \in Installed => journal[d].state \in Installed
  <2> SUFFICES ASSUME NEW d \in Calls
               PROVE  /\ journal'[d].object = journal[d].object
                      /\ journal'[d].state = "none" <=> journal[d].state = "none"
                      /\ journal'[d].state \in Installed => journal[d].state \in Installed
    OBVIOUS
  <2>1. CASE journal'[d] = journal[d] BY <2>1
  <2>2. CASE d = Current /\ journal'[d].object = journal[d].object /\ journal'[d].state = "recovery_required"
    BY <1>4, <2>2 DEF Installed, Pending, Present
  <2> QED BY <1>7, <2>1, <2>2
<1> QED BY <1>2, <1>3, <1>4, <1>5, <1>7, <1>8, <1>9, <1>10

\* The calls that wait for the run fail with it, or the server ends.
LEMMA RunFailsKeeps ==
    ASSUME MoveInv, RunFails
    PROVE  MoveInv'
<1> USE RunIs
<1>1. BaseInv /\ TypeOK /\ LockInv /\ TodoInv BY DEF MoveInv, BaseInv
<1>2. /\ lock = Recovery /\ Ready(Recovery) /\ Current \in Calls
      /\ journal' \in [Calls -> Manifests] /\ RecordsOK' /\ HistoryOK'
      /\ UNCHANGED <<at, bytes, dir, stage, order, changeset, audited, task, removed, raced>>
      /\ \A d \in Calls : /\ journal'[d].object = journal[d].object
                          /\ journal'[d].state = "none" <=> journal[d].state = "none"
                          /\ journal'[d].state \in Installed => journal[d].state \in Installed
  BY RunFailsLeaves
<1>3. CASE Waiting = {}
  <2>1. Ends BY <1>3 DEF RunFails
  <2> QED BY <1>2, <2>1, EndsKeeps
<1>4. CASE Waiting # {}
  <2> DEFINE r == [Resting EXCEPT !.step = "over"]
  <2>1. r \in Positions /\ r.step = "over" /\ Resting \in Positions /\ Resting.step = "idle"
    BY DEF Resting, Positions, CallSteps
  <2>2. /\ pos' = [w \in Workers |-> CASE w = Recovery -> Resting
                                      [] w \in Waiting -> r
                                      [] OTHER -> pos[w]]
        /\ lock' = None /\ frozen' = TRUE /\ due' = <<>>
        /\ stale' = stale \cup ((Readers(Current) \ {Recovery}) \X IF M.state \in Final THEN {} ELSE {Current})
    BY <1>4 DEF RunFails
  <2> HIDE DEF r
  <2>3. pos \in [Workers -> Positions] BY <1>1 DEF TypeOK, MemoryOK
  <2>4. None # Recovery /\ None \notin Calls /\ Calls \subseteq Workers BY MoveAssumption DEF Workers
  <2>5. pos' \in [Workers -> Positions] BY <2>1, <2>2, <2>3
  <2>6. pos'[Recovery].step = "idle"
    <3>1. Recovery \notin Waiting BY DEF Waiting
    <3> QED BY <2>1, <2>2, <3>1
  <2>7. \A d \in Calls : IF pos[d].step = "waiting" THEN pos'[d].step = "over" ELSE pos'[d] = pos[d]
    <3> SUFFICES ASSUME NEW d \in Calls
                 PROVE  IF pos[d].step = "waiting" THEN pos'[d].step = "over" ELSE pos'[d] = pos[d]
      OBVIOUS
    <3>1. d \in Workers /\ d # Recovery /\ (d \in Waiting <=> pos[d].step = "waiting")
      BY <2>4 DEF Waiting
    <3>2. CASE d \in Waiting BY <2>1, <2>2, <3>1, <3>2
    <3>3. CASE d \notin Waiting BY <2>1, <2>2, <3>1, <3>3
    <3> QED BY <3>1, <3>2, <3>3
  <2>8. stale' \subseteq Workers \X Calls
    <3>1. Readers(Current) \subseteq Workers BY <1>2 DEF Readers, Workers
    <3>2. PICK C \in {{}, {Current}} : stale' = stale \cup ((Readers(Current) \ {Recovery}) \X C)
      <4>1. CASE M.state \in Final BY <2>2, <4>1
      <4>2. CASE M.state \notin Final BY <2>2, <4>2
      <4> QED BY <4>1, <4>2
    <3>3. (Readers(Current) \ {Recovery}) \X C \subseteq Workers \X Calls BY <1>2, <3>1
    <3> QED BY <1>1, <3>2, <3>3 DEF TypeOK, MemoryOK
  <2>9. TypeOK'
    <3>1. DiskOK' BY <1>1, <1>2 DEF TypeOK, DiskOK
    <3>2. task' \in [Calls -> Requests] BY <1>1, <1>2 DEF TypeOK, MemoryOK
    <3>3. <<>> \in Seq([call : Calls, state : States]) OBVIOUS
    <3>4. MemoryOK' BY <2>2, <2>5, <2>8, <3>2, <3>3 DEF MemoryOK
    <3> QED BY <1>2, <3>1, <3>4 DEF TypeOK
  <2>10. "over" \in CallSteps /\ "over" \notin Held \cup Undoing /\ "idle" \in RunSteps
         /\ "waiting" \notin Held \cup Undoing
    BY DEF Held, Committing, Undoing, Rolling, CallSteps, RunSteps
  <2>11. \A d \in Calls : pos[d].step \in CallSteps /\ pos[d].step \notin Held
    BY <1>1, <1>2, <2>4 DEF LockInv
  <2>12. ASSUME NEW d \in Calls
         PROVE  /\ pos'[d].step \in CallSteps /\ pos'[d].step \notin Held /\ pos'[d].step # "waiting"
                /\ pos'[d].step = "over" \/ pos'[d] = pos[d]
                /\ Active(d)' => Active(d) /\ pos'[d].step = pos[d].step
    <3>1. CASE pos[d].step = "waiting" BY <2>7, <2>10, <3>1 DEF Active
    <3>2. CASE pos[d].step # "waiting" BY <2>7, <2>11, <3>2 DEF Active
    <3> QED BY <3>1, <3>2
  <2>13. ASSUME ~raced PROVE \A d \in Calls : ~Active(d)'
    <3>1. \A d \in Calls : ~Works(d) BY <1>1, <1>2, <2>4, <2>13, OthersRest
    <3>2. \A d \in Calls : ~Active(d) BY <3>1 DEF Works
    <3> QED BY <2>12, <3>2
  <2>14. LockInv'
    <3> HIDE DEF Active
    <3> QED BY <1>2, <2>2, <2>4, <2>6, <2>10, <2>12, <2>13 DEF LockInv
  <2>15. TodoInv'
    <3>1. ASSUME NEW w \in Workers, pos'[w].step \in Looping
          PROVE  pos'[w].todo # {} /\ pos'[w].todo \subseteq Sources(On(w))'
      <4>1. w # Recovery /\ w \in Calls BY <2>6, <3>1 DEF Looping, Workers
      <4>2. pos'[w] = pos[w] BY <2>12, <3>1, <4>1 DEF Looping
      <4>3. Sources(On(w))' = Sources(On(w)) BY <1>2, <4>1 DEF Sources, Plan, On
      <4> QED BY <1>1, <3>1, <4>2, <4>3 DEF TodoInv
    <3>2. Len(due') = 0 BY <2>2
    <3> QED BY <2>6, <3>1, <3>2 DEF TodoInv
  <2>16. RunInv' BY <2>2, <2>4 DEF RunInv
  <2>17. ASSUME ~raced PROVE RecoveredBeforeMove' /\ \A w \in Workers : ~Works(w)'
    <3>1. ~Works(Recovery)' BY <2>6 DEF Works
    <3> QED BY <2>13, <2>17, <3>1, Quiet DEF Works, Workers
  <2>18. ~raced' => /\ ~raced /\ RunInv' /\ RecoveredBeforeMove'
                    /\ \A w \in Workers : Works(w)' => PhaseAt(w)' /\ LoopAt(w)'
    BY <1>2, <2>16, <2>17
  <2>19. \A d \in Calls :
          /\ pos'[d].step \in {"idle", "waiting", "inspect"} => pos[d].step \in {"idle", "waiting", "inspect"}
          /\ pos'[d].step # "over" => pos[d].step # "over"
          /\ Active(d)' => pos'[d].step = "inspect" \/ (Active(d) /\ pos'[d].step = pos[d].step)
    BY <2>12
  <2> QED BY <1>2, <2>9, <2>14, <2>15, <2>18, <2>19, ServerStep
<1> QED BY <1>3, <1>4

-----------------------------------------------------------------------------
(* Other programs.                                                          *)

\* A name another program takes is accounted for.
LEMMA OtherIs ==
    ASSUME TypeOK, OtherProgram
    PROVE  /\ TypeOK' /\ removed \subseteq removed'
           /\ \A q \in Paths : at'[q] = at[q] \/ at[q] = None \/ at[q] \in removed'
           /\ UNCHANGED <<stage, journal, order, changeset, audited, task, lock, frozen, due, pos, stale, raced>>
<1>1. PICK f \in foreign :
        /\ foreign' = foreign \ {f}
        /\ \/ \E p \in Paths : Put(f, p) \/ Edit(f, p) \/ Delete(p)
           \/ ChangeDirectory(f)
  BY DEF OtherProgram
<1>2. UNCHANGED <<stage, journal, order, changeset, audited, task, lock, frozen, due, pos, stale, crashes, faults,
                  uses, derailed, misled, raced>>
  BY DEF OtherProgram, records, memory
<1>3. /\ at \in [Paths -> Names] /\ bytes \in [Objects -> Objects] /\ dir \in Directories
      /\ stage \in [Calls -> [Paths -> Names]] /\ foreign \subseteq Foreign
      /\ touched \subseteq Paths /\ removed \subseteq Objects
  BY DEF TypeOK, DiskOK, HistoryOK
<1>4. f \in Foreign /\ f \in Objects /\ f \in Names /\ None \in Names /\ None \notin Objects
      /\ f \in Directories /\ None \in Directories
  BY <1>1, <1>3, MoveAssumption DEF Objects, Names, Directories
<1>5. \A p \in Paths : at[p] # None => at[p] \in Objects BY <1>3 DEF Names
<1>6. /\ at' \in [Paths -> Names] /\ bytes' \in [Objects -> Objects] /\ dir' \in Directories
      /\ touched' \subseteq Paths /\ removed' \subseteq Objects /\ removed \subseteq removed'
      /\ \A q \in Paths : at'[q] = at[q] \/ at[q] = None \/ at[q] \in removed'
  <2>1. ASSUME NEW p \in Paths, Put(f, p)
        PROVE  /\ at' \in [Paths -> Names] /\ bytes' \in [Objects -> Objects] /\ dir' = dir
               /\ touched' \subseteq Paths /\ removed' \subseteq Objects /\ removed \subseteq removed'
               /\ \A q \in Paths : at'[q] = at[q] \/ at[q] = None \/ at[q] \in removed'
    <3>1. at' = [at EXCEPT ![p] = f] /\ removed' = removed \cup ({at[p]} \ {None}) /\ dir' = dir BY <2>1 DEF Put
    <3>2. bytes' \in [Objects -> Objects]
      <4>1. CASE bytes' = bytes BY <1>3, <4>1
      <4>2. CASE at[p] # None /\ bytes' = [bytes EXCEPT ![f] = bytes[at[p]]]
        <5>1. bytes[at[p]] \in Objects BY <1>3, <1>5, <4>2
        <5> QED BY <1>3, <4>2, <5>1
      <4> QED BY <2>1, <4>1, <4>2 DEF Put
    <3>3. touched' \subseteq Paths BY <1>3, <2>1 DEF Put, Touches
    <3> QED BY <1>3, <1>4, <1>5, <3>1, <3>2, <3>3
  <2>2. ASSUME NEW p \in Paths, Edit(f, p)
        PROVE  /\ at' = at /\ bytes' \in [Objects -> Objects] /\ dir' = dir /\ removed' = removed
               /\ touched' \subseteq Paths
    BY <1>3, <1>4, <1>5, <2>2 DEF Edit, Touches
  <2>3. ASSUME NEW p \in Paths, Delete(p)
        PROVE  /\ at' \in [Paths -> Names] /\ bytes' = bytes /\ dir' = dir
               /\ touched' \subseteq Paths /\ removed' \subseteq Objects /\ removed \subseteq removed'
               /\ \A q \in Paths : at'[q] = at[q] \/ at[q] = None \/ at[q] \in removed'
    <3>1. /\ at[p] # None /\ at' = [at EXCEPT ![p] = None] /\ removed' = removed \cup {at[p]}
          /\ dir' = dir /\ bytes' = bytes
      BY <2>3 DEF Delete
    <3>2. touched' \subseteq Paths BY <1>3, <2>3 DEF Delete, Touches
    <3> QED BY <1>3, <1>4, <1>5, <3>1, <3>2
  <2>4. CASE ChangeDirectory(f)
    <3>1. /\ dir' \in {f, None} /\ at' = at /\ bytes' = bytes /\ removed' = removed
          /\ touched' \subseteq Paths
      BY <1>3, <2>4, MoveAssumption DEF ChangeDirectory, Touches
    <3> QED BY <1>3, <1>4, <3>1
  <2>5. CASE \E p \in Paths : Put(f, p) BY <1>3, <2>1, <2>5
  <2>6. CASE \E p \in Paths : Edit(f, p) BY <1>3, <2>2, <2>6
  <2>7. CASE \E p \in Paths : Delete(p) BY <1>3, <2>3, <2>7
  <2> QED BY <1>1, <2>4, <2>5, <2>6, <2>7
<1>7. TypeOK'
  <2>1. DiskOK' BY <1>2, <1>3, <1>6 DEF DiskOK
  <2>2. RecordsOK' BY <1>2 DEF TypeOK, RecordsOK
  <2>3. MemoryOK' BY <1>2 DEF TypeOK, MemoryOK
  <2>4. HistoryOK' BY <1>1, <1>2, <1>3, <1>6 DEF TypeOK, HistoryOK
  <2> QED BY <2>1, <2>2, <2>3, <2>4 DEF TypeOK
<1> QED BY <1>2, <1>6, <1>7

LEMMA OtherProgramKeeps ==
    ASSUME MoveInv, OtherProgram
    PROVE  MoveInv'
<1>1. BaseInv /\ TypeOK /\ LockInv /\ OrderInv /\ TodoInv BY DEF MoveInv, BaseInv
<1>2. /\ TypeOK' /\ removed \subseteq removed'
      /\ \A q \in Paths : at'[q] = at[q] \/ at[q] = None \/ at[q] \in removed'
      /\ UNCHANGED <<stage, journal, order, changeset, audited, task, lock, frozen, due, pos, stale, raced>>
  BY <1>1, OtherIs
<1>3. Present' = Present BY <1>2 DEF Present
<1>4. \A w \in Workers : On(w)' = On(w) BY <1>2 DEF On
<1>5. \A d \in Calls : Sources(d)' = Sources(d) /\ Plan(d)' = Plan(d) BY <1>2 DEF Sources, Plan
<1>6. \A c \in Calls : Active(c)' <=> Active(c) BY <1>2 DEF Active
<1>7. LockInv' BY <1>1, <1>2, <1>6 DEF LockInv
<1>8. OrderInv'
  <2>1. \A d \in Present : d \in Calls BY DEF Present
  <2> HIDE DEF Active, Present
  <2> QED BY <1>1, <1>2, <1>3, <1>5, <1>6, <2>1 DEF OrderInv
<1>9. TodoInv'
  <2>1. ASSUME NEW w \in Workers, pos[w].step \in Looping
        PROVE  pos[w].todo # {} /\ pos[w].todo \subseteq Sources(On(w))'
    <3>1. Sources(On(w))' = Sources(On(w)) BY <1>2, <1>4 DEF Sources, Plan
    <3> QED BY <1>1, <2>1, <3>1 DEF TodoInv
  <2> QED BY <1>1, <1>2, <1>3, <2>1 DEF TodoInv
<1>10. ASSUME ~raced PROVE WorkInv'
  <2>1. WorkInv BY <1>10 DEF MoveInv
  <2>2. RunInv' BY <1>2, <1>3, <2>1 DEF WorkInv, RunInv
  <2>3. StageInv' BY <1>2, <1>3, <1>5, <2>1 DEF WorkInv, StageInv
  <2>4. None \notin Objects BY MoveAssumption
  <2>5. FileInv'
    <3>1. \A o \in Objects : Named(o) => Named(o)'
      <4>1. \A o \in Objects, q \in Paths : at[q] = o => at'[q] = o \/ Named(o)' BY <1>2, <2>4 DEF Named
      <4> SUFFICES ASSUME NEW o \in Objects, Named(o) PROVE Named(o)' OBVIOUS
      <4>2. CASE o \in removed BY <1>2, <4>2 DEF Named
      <4>3. CASE \E q \in Paths : at[q] = o BY <4>1, <4>3 DEF Named
      <4>4. CASE \E d \in Calls : \E q \in Paths : stage[d][q] = o BY <1>2, <4>4 DEF Named
      <4> QED BY <4>2, <4>3, <4>4 DEF Named
    <3> QED BY <1>1, <1>2, <1>3, <2>1, <3>1, FilesKeep DEF WorkInv
  <2>6. RecoveredBeforeMove' BY <1>2, <1>3, <2>1, <1>10 DEF WorkInv, RecoveredBeforeMove
  <2>7. ASSUME NEW w \in Workers, Works(w)' PROVE PhaseAt(w)' /\ LoopAt(w)'
    <3>1. Works(w) /\ pos' = pos BY <1>2, <2>7 DEF Works, Active
    <3>2. PhaseAt(w) /\ LoopAt(w) BY <2>1, <3>1 DEF WorkInv
    <3>3. PhaseAt(w)' BY <1>2, <1>4, <3>2 DEF PhaseAt, Seen
    <3>4. CASE pos[w].step = "inspect"
      <4>1. pos'[w].step = "inspect" BY <3>1, <3>4
      <4>2. LoopAt(w)' BY <4>1, LoopFree
      <4> QED BY <3>3, <4>2
    <3>5. CASE pos[w].step # "inspect"
      <4>1. PICK c \in Calls : c = On(w) /\ c \in Present BY <1>1, <3>1, <3>5, WorksIs
      <4>2. \A p \in Sources(c) : p \in Paths /\ journal[c].object[p] \in Objects /\ journal[c].object[p] # None
        BY <1>1, <2>4, <4>1, PlanIs DEF OrderInv
      <4>3. Here(w)' = Here(w) /\ Target(w)' = Target(w) /\ Object(w)' = Object(w)
        <5>1. Here(w)' = HereOf(pos[w].todo, pos[w].step \in Installing, Plan(On(w)))
          BY <1>2, <1>4, <4>1 DEF Here, HereOf, Plan
        <5>2. Here(w) = HereOf(pos[w].todo, pos[w].step \in Installing, Plan(On(w))) BY DEF Here, HereOf
        <5>3. Here(w)' = Here(w) BY <5>1, <5>2
        <5> QED BY <1>2, <1>4, <4>1, <5>3 DEF Target, Object, Plan
      <4>4. \A p \in Sources(c) : /\ Safe(c, p) => Safe(c, p)'
                                  /\ Back(c, p) => Back(c, p)'
        BY <1>2, <4>2 DEF Safe, Back, Gone
      <4>5. \A p \in Sources(c) : Anchor(c, p, p)' => Anchor(c, p, p)
        BY <1>2, <1>5, <4>1 DEF Anchor, Sources, Plan
      <4>6. Sources(c)' = Sources(c) /\ On(w)' = c BY <1>4, <1>5, <4>1
      <4>7. pos[w].step \in {"show", "settle"} /\ (at[Target(w)] = Object(w) \/ Object(w) \in removed) =>
              at'[Target(w)] = Object(w) \/ Object(w) \in removed'
        <5> SUFFICES ASSUME pos[w].step \in {"show", "settle"} PROVE
                at[Target(w)] = Object(w) => at'[Target(w)] = Object(w) \/ Object(w) \in removed'
          BY <1>2
        <5>1. Target(w) \in Paths /\ Object(w) \in Objects BY <1>1, <4>1, <4>2, HereIs DEF Looping
        <5> QED BY <1>2, <2>4, <5>1
      <4>8. LoopAt(w)' BY <1>2, <3>2, <4>1, <4>3, <4>4, <4>5, <4>6, <4>7 DEF LoopAt
      <4> QED BY <3>3, <4>8
    <3> QED BY <3>3, <3>4, <3>5
  <2> QED BY <2>2, <2>3, <2>5, <2>6, <2>7 DEF WorkInv
<1> QED BY <1>2, <1>7, <1>8, <1>9, <1>10 DEF MoveInv, BaseInv

-----------------------------------------------------------------------------
(* The invariant, from the start and over every step.                       *)

LEMMA InitKeeps == MoveInit => MoveInv
<1> SUFFICES ASSUME MoveInit PROVE MoveInv OBVIOUS
<1>1. PICK w \in Workloads :
        /\ at = w.at /\ dir = w.dir /\ task = w.task
        /\ crashes = w.crashes /\ faults = w.faults /\ uses = w.uses /\ foreign = w.foreign
  BY DEF MoveInit
<1>2. /\ at \in [Paths -> Names] /\ dir \in Directories /\ task \in [Calls -> Requests]
      /\ crashes \in Nat /\ faults \in Nat /\ uses \in Nat /\ foreign \subseteq Foreign
  BY <1>1, WorkloadAssumption
<1>3. /\ bytes = [o \in Objects |-> o] /\ stage = [c \in Calls |-> [p \in Paths |-> None]]
      /\ journal = [c \in Calls |-> NoManifest(c)] /\ order = <<>>
      /\ changeset = [c \in Calls |-> "none"] /\ audited = {}
      /\ lock = None /\ frozen = FALSE /\ due = <<>> /\ stale = {}
      /\ touched = {} /\ removed = {} /\ derailed = {} /\ misled = {} /\ raced = FALSE
  BY DEF MoveInit
<1>4. pos = [v \in Workers |-> IF v # Recovery /\ task[v].plan = NoPlan
                                 THEN [Resting EXCEPT !.step = "over"] ELSE Resting]
  BY DEF MoveInit
<1>5. \A c \in Calls : Sources(c) \subseteq Paths
  <2> SUFFICES ASSUME NEW c \in Calls PROVE Sources(c) \subseteq Paths OBVIOUS
  <2>1. Plan(c) \in Plans BY <1>2 DEF Requests, Plan
  <2>2. PICK S \in SUBSET Paths : Plan(c) \in [S -> Paths] BY <2>1 DEF Plans
  <2> QED BY <2>2 DEF Sources
<1>6. \A c \in Calls : journal[c] \in Manifests /\ journal[c].state = "none"
  <2> SUFFICES ASSUME NEW c \in Calls PROVE journal[c] \in Manifests /\ journal[c].state = "none" OBVIOUS
  <2>1. journal[c] = NoManifest(c) BY <1>3
  <2>2. NoManifest(c).state = "none" BY DEF NoManifest
  <2> QED BY <1>5, <2>1, <2>2, NoManifestIs
<1>7. Present = {} BY <1>6 DEF Present
<1>8. Calls \subseteq Workers /\ Recovery \in Workers /\ Recovery \notin Calls /\ None \notin Workers
  BY MoveAssumption DEF Workers
<1>9. \A v \in Workers : pos[v] \in Positions /\ pos[v].step \in {"idle", "over"} /\ pos[v].rolling = FALSE
  <2>1. Resting \in Positions /\ [Resting EXCEPT !.step = "over"] \in Positions
    BY DEF Resting, Positions, CallSteps, RunSteps
  <2> QED BY <1>4, <2>1 DEF Resting
<1>10. pos[Recovery].step = "idle" BY <1>4, <1>8 DEF Resting
<1>11. \A c \in Calls : pos[c].step # "over" => Sources(c) # {}
  <2> SUFFICES ASSUME NEW c \in Calls, Sources(c) = {} PROVE pos[c].step = "over" OBVIOUS
  <2>1. Plan(c) \in Plans BY <1>2 DEF Requests, Plan
  <2>2. PICK S \in SUBSET Paths : Plan(c) \in [S -> Paths] BY <2>1 DEF Plans
  <2>3. Plan(c) = NoPlan BY <2>2 DEF Sources, NoPlan
  <2> QED BY <1>4, <1>8, <2>3 DEF Plan, Resting
<1>12. TypeOK
  <2>1. DiskOK BY <1>2, <1>3 DEF DiskOK, Names
  <2>2. RecordsOK
    <3>1. journal \in [Calls -> Manifests] BY <1>3, <1>6
    <3> QED BY <1>3, <3>1 DEF RecordsOK
  <2>3. MemoryOK
    <3>1. pos \in [Workers -> Positions] BY <1>4, <1>9
    <3>2. due \in Seq([call : Calls, state : States]) BY <1>3
    <3>3. lock \in Workers \cup {None} /\ frozen \in BOOLEAN /\ stale \subseteq Workers \X Calls BY <1>3
    <3> QED BY <1>2, <3>1, <3>2, <3>3 DEF MemoryOK
  <2>4. HistoryOK BY <1>2, <1>3 DEF HistoryOK
  <2> QED BY <2>1, <2>2, <2>3, <2>4 DEF TypeOK
<1>13. \A c \in Calls : ~Active(c) BY <1>8, <1>9 DEF Active, Held, Committing, Undoing, Rolling
<1>14. LockInv
  <2>1. /\ \A c \in Calls : pos[c].step \in CallSteps /\ pos[c].step \notin Held /\ pos[c].step # "waiting"
        /\ pos[Recovery].step \in RunSteps
    BY <1>8, <1>9, <1>10 DEF CallSteps, RunSteps, Held, Committing
  <2> QED BY <1>3, <1>8, <1>10, <1>13, <2>1 DEF LockInv
<1>15. OrderInv BY <1>3, <1>6, <1>7, <1>11, <1>13 DEF OrderInv
<1>16. TodoInv BY <1>3, <1>9, <1>10 DEF TodoInv, Looping
<1>17. WorkInv
  <2>1. RunInv BY <1>3, <1>8 DEF RunInv
  <2>2. StageInv BY <1>3 DEF StageInv
  <2>3. FileInv BY <1>7 DEF FileInv, FilesKept
  <2>4. RecoveredBeforeMove BY <1>7 DEF RecoveredBeforeMove
  <2>5. \A v \in Workers : ~Works(v) BY <1>10, <1>13 DEF Works, Workers
  <2> QED BY <2>1, <2>2, <2>3, <2>4, <2>5 DEF WorkInv
<1> QED BY <1>12, <1>14, <1>15, <1>16, <1>17 DEF MoveInv, BaseInv

LEMMA CallStepKeeps ==
    ASSUME MoveInv, NEW c \in Calls, CallStep(c)
    PROVE  MoveInv'
<1>1. c \in Workers BY DEF Workers
<1>2. CASE Prepare(c) \/ PrepareFails(c) BY <1>2, PrepareKeeps, PrepareFailsKeeps
<1>3. CASE CommitStep(c)
  BY <1>3, BeginKeeps, MakeDirectoryKeeps, RecordDirectoryKeeps, LinkStageKeeps, UnlinkSourceKeeps,
     LinkKeeps, ShowKeeps, SettleKeeps, PendKeeps DEF CommitStep
<1>4. CASE CommitFails(c) BY <1>4, CommitFailsKeeps
<1>5. CASE Effect(c) \/ EffectFails(c) \/ Fact(c) \/ FactFails(c) \/ Failed(c) \/ FailedFails(c)
  BY <1>5, EffectKeeps, EffectFailsKeeps, FactKeeps, FactFailsKeeps, FailedKeeps, FailedFailsKeeps
<1>6. CASE Decide(c) \/ Drop(c) \/ Dropped(c) \/ Finish(c) \/ FinalizeFails(c)
  BY <1>1, <1>6, DecideKeeps, DropKeeps, DroppedKeeps, FinishKeeps, FinalizeFailsKeeps
<1>7. CASE RollbackStep(c)
  BY <1>1, <1>7, BeginRollbackKeeps, RestageKeeps, RemoveKeeps, RestoreKeeps, UnstageKeeps,
     RemoveDirectoryKeeps DEF RollbackStep
<1>8. CASE RollbackFails(c) \/ Unproven(c) \/ Conclude(c) \/ Reconcile(c)
  BY <1>8, RollbackFailsKeeps, UnprovenKeeps, ConcludeKeeps, ReconcileKeeps
<1> QED BY <1>2, <1>3, <1>4, <1>5, <1>6, <1>7, <1>8 DEF CallStep

LEMMA RecoveryStepKeeps ==
    ASSUME MoveInv, RecoveryStep
    PROVE  MoveInv'
<1>1. Recovery \in Workers BY DEF Workers
<1>2. CASE Choose \/ Compensate \/ Probe \/ Confirm \/ Verify \/ Sweep \/ Recorded
  BY <1>2, ChooseKeeps, CompensateKeeps, ProbeKeeps, ConfirmKeeps, VerifyKeeps, SweepKeeps, RecordedKeeps
<1>3. CASE RollbackStep(Recovery)
  BY <1>1, <1>3, BeginRollbackKeeps, RestageKeeps, RemoveKeeps, RestoreKeeps, UnstageKeeps,
     RemoveDirectoryKeeps DEF RollbackStep
<1>4. CASE RolledBack BY <1>4, RolledBackKeeps
<1>5. CASE Decide(Recovery) \/ Drop(Recovery) \/ Dropped(Recovery) \/ FinishCommitted
  BY <1>1, <1>5, DecideKeeps, DropKeeps, DroppedKeeps, FinishCommittedKeeps
<1>6. CASE RunEnds \/ RunFails BY <1>6, RunEndsKeeps, RunFailsKeeps
<1> QED BY <1>2, <1>3, <1>4, <1>5, <1>6 DEF RecoveryStep

\* Where nothing happens the invariant stays.
LEMMA StutterKeeps ==
    ASSUME MoveInv, UNCHANGED vars
    PROVE  MoveInv'
<1>1. UNCHANGED <<at, bytes, dir, stage, journal, order, changeset, audited, task, lock, frozen, due, pos, stale,
                  crashes, faults, uses, foreign, touched, removed, derailed, misled, raced>>
  BY DEF vars, disk, records, memory, limits, history
<1>2. BaseInv'
  <2>1. TypeOK' BY <1>1 DEF MoveInv, BaseInv, TypeOK, DiskOK, RecordsOK, MemoryOK, HistoryOK
  <2>2. LockInv' BY <1>1 DEF MoveInv, BaseInv, LockInv, Active
  <2>3. OrderInv' BY <1>1 DEF MoveInv, BaseInv, OrderInv, Active, Present, Sources, Plan
  <2>4. TodoInv' BY <1>1 DEF MoveInv, BaseInv, TodoInv, On, Present, Sources, Plan
  <2> QED BY <2>1, <2>2, <2>3, <2>4 DEF BaseInv
<1>3. ASSUME ~raced PROVE WorkInv'
  <2>1. WorkInv BY <1>3 DEF MoveInv
  <2>2. RunInv' BY <1>1, <2>1 DEF WorkInv, RunInv, Present
  <2>3. StageInv' BY <1>1, <2>1 DEF WorkInv, StageInv, Present, Sources, Plan
  <2>4. FileInv' BY <1>1, <2>1 DEF WorkInv, FileInv, FilesKept, Anchored, Anchor, Present, Sources, Plan
  <2>5. RecoveredBeforeMove' BY <1>1, <2>1 DEF WorkInv, RecoveredBeforeMove, Present
  <2>6. ASSUME NEW w \in Workers, Works(w)' PROVE PhaseAt(w)' /\ LoopAt(w)'
    <3>1. Works(w) BY <1>1, <2>6 DEF Works, Active
    <3>2. PhaseAt(w) /\ LoopAt(w) BY <2>1, <3>1 DEF WorkInv
    <3>3. PhaseAt(w)' BY <1>1, <3>2 DEF PhaseAt, On, Seen
    <3>4. Here(w)' = HereOf(pos[w].todo, pos[w].step \in Installing, Plan(On(w)))
      BY <1>1 DEF Here, HereOf, Plan, On
    <3>5. Here(w) = HereOf(pos[w].todo, pos[w].step \in Installing, Plan(On(w))) BY DEF Here, HereOf
    <3>6. Target(w)' = Target(w) /\ Object(w)' = Object(w) BY <1>1, <3>4, <3>5 DEF Target, Object, Plan, On
    <3>7. \A p \in Sources(On(w)) : /\ Safe(On(w), p)' = Safe(On(w), p)
                                   /\ Back(On(w), p)' = Back(On(w), p)
                                   /\ Anchor(On(w), p, p)' = Anchor(On(w), p, p)
      BY <1>1 DEF Safe, Back, Gone, Anchor, On, Sources, Plan
    <3>8. On(w)' = On(w) /\ Sources(On(w))' = Sources(On(w)) BY <1>1 DEF On, Sources, Plan
    <3>9. LoopAt(w)' BY <1>1, <3>2, <3>6, <3>7, <3>8 DEF LoopAt
    <3> QED BY <3>3, <3>9
  <2> QED BY <2>2, <2>3, <2>4, <2>5, <2>6 DEF WorkInv
<1> QED BY <1>1, <1>2, <1>3 DEF MoveInv

LEMMA NextKeeps == MoveInv /\ [Next]_vars => MoveInv'
<1> SUFFICES ASSUME MoveInv, [Next]_vars PROVE MoveInv' OBVIOUS
<1>1. ASSUME NEW c \in Calls, Ask(c) \/ CallStep(c) PROVE MoveInv' BY <1>1, AskKeeps, CallStepKeeps
<1>2. CASE RecoveryStep BY <1>2, RecoveryStepKeeps
<1>3. CASE UseWorkspace \/ Crash \/ OtherProgram BY <1>3, UseWorkspaceKeeps, CrashKeeps, OtherProgramKeeps
<1>4. CASE UNCHANGED vars BY <1>4, StutterKeeps
<1> QED BY <1>1, <1>2, <1>3, <1>4 DEF Next

-----------------------------------------------------------------------------
(***************************************************************************)
(* The inductive invariant: one worker at a time on a workspace, each loop  *)
(* where its manifest says, a run on manifests as it read them.             *)
(***************************************************************************)
THEOREM Invariance == Spec => []MoveInv
<1> QED BY InitKeeps, NextKeeps, PTL DEF Spec

(***************************************************************************)
(* A file that a move has planned keeps a name, through the commit, the     *)
(* rollback, the undo, the recovery and every crash between two of their    *)
(* steps, unless another program takes a name away from it.                 *)
(***************************************************************************)
THEOREM FilesStay == Spec => []NoFileLost
<1>1. MoveInv => NoFileLost BY DEF MoveInv, WorkInv, FileInv, NoFileLost
<1> QED BY <1>1, Invariance, PTL
=============================================================================
