-------------------------- MODULE MoveRecordProofs --------------------------
(***************************************************************************)
(* Proofs about what the manifests and the stores of MoveSystem say of each *)
(* other, whoever has taken the lock beside a rollback.                     *)
(***************************************************************************)
EXTENDS MoveProofs, FiniteSetTheorems

\* A worker has written its manifest, which was the one last read, or nothing.
Wrote(w) ==
    /\ \A d \in Calls : d # On(w) => journal'[d] = journal[d]
    /\ \/ UNCHANGED <<journal, stale>>
       \/ Fresh(w) /\ stale' = stale \cup ((Readers(On(w)) \ {w}) \X {On(w)})

LEMMA Constants == Recovery \in Workers /\ Recovery \notin Calls /\ Calls \subseteq Workers
                   /\ None # Recovery /\ None \notin Calls
BY MoveAssumption DEF Workers

\* A call that works on its manifest.
LEMMA CallPhases ==
    ASSUME BaseInv, BaseInv', PhaseInv, NEW c \in Calls, Still(c), On(c)' = c,
           pos[c].step \in (Held \cup Undoing) \ {"inspect"},
           UNCHANGED <<task, due>>, Wrote(c), journal'[c].state # "none",
           pos'[c].step \in Held => pos[c].step \in Held /\ journal'[c].state \in StateAt(pos'[c].step),
           journal' = journal \/ journal'[c].state \notin Final \/ pos'[c].step \notin Undoing
    PROVE  PhaseInv'
<1> USE Constants
<1>1. TypeOK /\ LockInv /\ OrderInv /\ TodoInv /\ LockInv' BY DEF BaseInv
<1>2. \A v \in Workers \ {c} : pos'[v] = pos[v] BY DEF Still
<1>3. c \in Present /\ Present' = Present /\ On(c) = c
  <2>1. c \in Present BY <1>1 DEF OrderInv, Active
  <2>2. On(c) = c BY DEF On
  <2>3. \A d \in Calls : journal'[d].state # "none" <=> journal[d].state # "none"
    BY <2>1, <2>2 DEF Wrote, Present
  <2> QED BY <2>1, <2>2, <2>3 DEF Present
<1>4. \A d \in Calls : d # c => journal'[d] = journal[d] BY <1>3 DEF Wrote
<1>5. pos[c].step \in Held => journal[c].state \notin Final BY DEF PhaseInv, StateAt, Held, Committing, Final, Pending
<1>6. \A d \in Calls : journal[d].state \in Final => journal'[d].state = journal[d].state
  <2>1. journal[c].state \in Final => journal'[c] = journal[c]
    <3>1. CASE journal' = journal BY <3>1
    <3>2. CASE Fresh(c) BY <1>5, <3>2 DEF PhaseInv
    <3> QED BY <3>1, <3>2 DEF Wrote
  <2> QED BY <1>4, <2>1
<1>7. stale \subseteq stale' BY DEF Wrote
<1>8. ASSUME NEW d \in Calls, pos'[d].step \in Held
      PROVE  /\ journal'[d].state \in StateAt(pos'[d].step)
             /\ \A e \in Present' : e # d => journal'[e].state \in Final
  <2>1. CASE d = c
    <3>1. \A e \in Present : e # c => journal[e].state \in Final BY <1>8, <2>1 DEF PhaseInv
    <3> QED BY <1>3, <1>4, <1>8, <2>1, <3>1 DEF Present
  <2>2. CASE d # c
    <3>1. pos'[d] = pos[d] /\ journal'[d] = journal[d] BY <1>2, <1>4, <2>2
    <3>2. /\ journal[d].state \in StateAt(pos[d].step)
          /\ \A e \in Present : e # d => journal[e].state \in Final
      BY <1>8, <3>1 DEF PhaseInv
    <3> QED BY <1>3, <1>6, <3>1, <3>2 DEF Present
  <2> QED BY <2>1, <2>2
<1>9. ASSUME NEW d \in Calls, pos'[d].step \in Undoing, journal'[d].state \in Final
      PROVE  <<d, d>> \in stale'
  <2>1. CASE d = c /\ journal' = journal
    <3>1. pos[c].step \in Undoing BY <1>5, <1>9, <2>1
    <3> QED BY <1>3, <1>7, <1>9, <2>1, <3>1 DEF PhaseInv, Fresh
  <2>2. CASE d = c /\ journal' # journal BY <1>9, <2>2
  <2>3. CASE d # c
    <3>1. pos'[d] = pos[d] /\ journal'[d] = journal[d] BY <1>2, <1>4, <2>3
    <3> QED BY <1>7, <1>9, <3>1 DEF PhaseInv, Fresh, On
  <2> QED BY <2>1, <2>2, <2>3
<1>10. ScanInv'
  <2> SUFFICES ASSUME lock' = Recovery PROVE ScanInv' BY DEF ScanInv
  <2>1. lock = Recovery /\ pos'[Recovery] = pos[Recovery] BY <1>1, <1>2 DEF LockInv
  <2>2. ScanInv BY DEF PhaseInv
  <2>3. \A i \in 1..Len(due) : due[i].call \in Present BY <1>1 DEF TodoInv
  <2>4. /\ \A d \in Present : journal[d].state \in Final \/ \E i \in 1..Len(due) : due[i].call = d
        /\ \A i, j \in 1..Len(due) : due[i].call = due[j].call => i = j
        /\ \A i \in 1..Len(due) :
             (i # 1 \/ pos[Recovery].step = "choose") /\
             (due[i].state \in Final \/ <<Recovery, due[i].call>> \notin stale)
             => due[i].state = journal[due[i].call].state
        /\ pos[Recovery].step # "choose" => HeadAt
    BY <2>1, <2>2 DEF ScanInv
  <2>5. <<Recovery, c>> \notin stale' => journal' = journal
    <3> SUFFICES ASSUME <<Recovery, c>> \notin stale', journal' # journal PROVE FALSE OBVIOUS
    <3>1. stale' = stale \cup ((Readers(c) \ {c}) \X {c}) BY <1>3 DEF Wrote
    <3>2. Recovery \in Readers(c) BY <1>1, <2>1 DEF Readers, LockInv, RunSteps, Rolling
    <3> QED BY <3>1, <3>2
  <2>6. \A d \in Calls : journal[d].state \in Final \/ <<Recovery, d>> \notin stale' =>
          journal'[d].state = journal[d].state
    BY <1>4, <1>6, <2>5
  <2>7. \A d \in Present' : journal'[d].state \in Final \/ \E i \in 1..Len(due') : due'[i].call = d
    BY <1>3, <1>6, <2>4 DEF Present
  <2>8. \A i \in 1..Len(due') :
             (i # 1 \/ pos'[Recovery].step = "choose") /\
             (due'[i].state \in Final \/ <<Recovery, due'[i].call>> \notin stale')
             => due'[i].state = journal'[due'[i].call].state
    <3> SUFFICES ASSUME NEW i \in 1..Len(due), i # 1 \/ pos[Recovery].step = "choose",
                        due[i].state \in Final \/ <<Recovery, due[i].call>> \notin stale'
                 PROVE  due[i].state = journal'[due[i].call].state
      BY <2>1
    <3>1. due[i].call \in Calls BY <2>3 DEF Present
    <3>2. due[i].state \in Final \/ <<Recovery, due[i].call>> \notin stale BY <1>7
    <3>3. due[i].state = journal[due[i].call].state BY <2>4, <3>2
    <3> QED BY <2>6, <3>1, <3>3
  <2>9. pos'[Recovery].step # "choose" => HeadAt'
    <3> SUFFICES ASSUME pos[Recovery].step # "choose" PROVE HeadAt' BY <2>1
    <3>1. HeadAt BY <2>4
    <3>2. Current' = Current /\ Seen' = Seen BY DEF Current, Seen
    <3>3. Current \in Calls
      <4>1. pos[Recovery].step # "idle" BY <1>1, <2>1 DEF LockInv
      <4> QED BY <1>1, <4>1, OnIs DEF On, Current
    <3>4. Fresh(Recovery)' => Fresh(Recovery) /\ journal'[Current].state = journal[Current].state
      BY <1>7, <2>6, <3>2, <3>3 DEF Fresh, On, Current
    <3>5. journal[Current].state \in Final => journal'[Current].state = journal[Current].state BY <1>6, <3>3
    <3> QED BY <2>1, <3>1, <3>2, <3>4, <3>5 DEF HeadAt, Final
  <2> QED BY <2>4, <2>7, <2>8, <2>9 DEF ScanInv
<1>11. \A d \in Calls : On(d)' = d BY DEF On
<1> QED BY <1>8, <1>9, <1>10, <1>11 DEF PhaseInv, Fresh

\* A run that works on its manifest, or comes to it.
LEMMA RunPhases ==
    ASSUME BaseInv, BaseInv', PhaseInv, Still(Recovery), lock = Recovery, due # <<>>,
           pos'[Recovery].step \notin {"idle", "choose"},
           UNCHANGED <<task, due>>, Wrote(Recovery), journal'[Current].state # "none",
           journal' = journal \/ journal[Current].state \notin Final, HeadAt'
    PROVE  PhaseInv'
<1> USE Constants
<1>1. TypeOK /\ LockInv /\ OrderInv /\ TodoInv /\ LockInv' BY DEF BaseInv
<1>2. \A v \in Workers \ {Recovery} : pos'[v] = pos[v] BY DEF Still
<1>3. Current \in Present /\ Current \in Calls /\ Present' = Present /\ On(Recovery) = Current
      /\ Current = due[1].call /\ Len(due) \in Nat \ {0} /\ Seen = due[1].state
  <2>1. Ready(Recovery) /\ On(Recovery) = Current BY RunIs DEF Ready
  <2>2. Current \in Present /\ Current \in Calls /\ Current = due[1].call /\ Len(due) \in Nat \ {0}
    BY <2>1, ReadyIs
  <2>3. \A d \in Calls : journal'[d].state # "none" <=> journal[d].state # "none"
    BY <2>1, <2>2 DEF Wrote, Present
  <2> QED BY <2>1, <2>2, <2>3 DEF Present, Seen
<1>4. \A d \in Calls : d # Current => journal'[d] = journal[d] BY <1>3 DEF Wrote
<1>5. \A d \in Calls : journal[d].state \in Final => journal'[d].state = journal[d].state BY <1>4
<1>6. stale \subseteq stale' BY DEF Wrote
<1>7. \A d \in Calls : pos'[d] = pos[d] /\ pos[d].step \notin Held BY <1>1, <1>2 DEF LockInv
<1>8. ASSUME NEW d \in Calls, pos'[d].step \in Undoing, journal'[d].state \in Final
      PROVE  <<d, d>> \in stale'
  <2>1. pos[d].step \in Undoing BY <1>7, <1>8
  <2>2. CASE journal' = journal BY <1>6, <1>8, <2>1, <2>2 DEF PhaseInv, Fresh, On
  <2>3. CASE d # Current
    <3>1. journal'[d] = journal[d] BY <1>4, <2>3
    <3> QED BY <1>6, <1>8, <2>1, <3>1 DEF PhaseInv, Fresh, On
  <2>4. CASE d = Current /\ journal' # journal
    <3>1. stale' = stale \cup ((Readers(d) \ {Recovery}) \X {d}) BY <1>3, <2>4 DEF Wrote
    <3>2. d \in Readers(d) BY <2>1 DEF Readers, Undoing, Rolling
    <3> QED BY <3>1, <3>2
  <2> QED BY <2>2, <2>3, <2>4
<1>9. ScanInv'
  <2>1. ScanInv BY DEF PhaseInv
  <2>2. \A i \in 1..Len(due) : due[i].call \in Present BY <1>1 DEF TodoInv
  <2>3. /\ \A d \in Present : journal[d].state \in Final \/ \E i \in 1..Len(due) : due[i].call = d
        /\ \A i, j \in 1..Len(due) : due[i].call = due[j].call => i = j
        /\ \A i \in 1..Len(due) :
             i # 1 /\ (due[i].state \in Final \/ <<Recovery, due[i].call>> \notin stale)
             => due[i].state = journal[due[i].call].state
    BY <2>1 DEF ScanInv
  <2>4. \A d \in Present' : journal'[d].state \in Final \/ \E i \in 1..Len(due') : due'[i].call = d
    BY <1>3, <1>5, <2>3 DEF Present
  <2>5. ASSUME NEW i \in 1..Len(due), i # 1, due[i].state \in Final \/ <<Recovery, due[i].call>> \notin stale'
        PROVE  due[i].state = journal'[due[i].call].state
    <3>1. due[i].call \in Calls /\ due[i].call # Current BY <1>3, <2>2, <2>3, <2>5 DEF Present
    <3>2. due[i].state = journal[due[i].call].state BY <1>6, <2>3, <2>5
    <3>3. journal'[due[i].call] = journal[due[i].call] BY <1>4, <3>1
    <3> QED BY <3>2, <3>3
  <2> QED BY <2>3, <2>4, <2>5 DEF ScanInv
<1>10. \A d \in Calls : On(d)' = d BY DEF On
<1> QED BY <1>7, <1>8, <1>9, <1>10 DEF PhaseInv, Fresh

\* The manifests are left alone, and no position but that of one call changes,
\* which has no lock from then on or waits.
LEMMA CallRests ==
    ASSUME BaseInv, BaseInv', PhaseInv, NEW c \in Calls, Still(c),
           UNCHANGED <<task, due, stale, journal>>,
           pos'[c].step \notin Held, pos'[c].step \in Undoing => pos[c].step \in Undoing \cup Held
    PROVE  PhaseInv'
<1> USE Constants
<1>1. LockInv /\ TodoInv /\ LockInv' /\ TypeOK BY DEF BaseInv
<1>2. \A v \in Workers \ {c} : pos'[v] = pos[v] BY DEF Still
<1>3. Present' = Present /\ \A d \in Calls : On(d)' = On(d) BY DEF Present, On
<1>4. \A d \in Calls : pos'[d].step \in Held => pos'[d] = pos[d] BY <1>2
<1>5. pos[c].step \in Held => journal[c].state \notin Final BY DEF PhaseInv, StateAt, Held, Committing, Final, Pending
<1>6. \A d \in Calls : pos'[d].step \in Undoing /\ journal[d].state \in Final => pos[d].step \in Undoing
  BY <1>2, <1>5
<1>7. ScanInv'
  <2> SUFFICES ASSUME lock' = Recovery PROVE ScanInv' BY DEF ScanInv
  <2>1. lock = Recovery /\ pos'[Recovery] = pos[Recovery] BY <1>1, <1>2 DEF LockInv
  <2>2. HeadAt => HeadAt' BY <2>1 DEF HeadAt, Current, Seen, Fresh, On
  <2> QED BY <1>3, <2>1, <2>2 DEF PhaseInv, ScanInv
<1> QED BY <1>3, <1>4, <1>6, <1>7 DEF PhaseInv, Fresh

\* A run begins, which no call with a lock does.
LEMMA StartRunPhases ==
    ASSUME BaseInv, BaseInv', PhaseInv, StartRun, UNCHANGED <<journal, order>>, lock # Recovery,
           pos'[Recovery].step = "choose", \A d \in Calls : pos'[d].step \in Undoing => pos[d].step \in Undoing
    PROVE  PhaseInv'
<1> USE Constants
<1>1. LockInv' /\ OrderInv /\ TypeOK BY DEF BaseInv
<1>2. lock' = Recovery BY DEF StartRun
<1>3. \A d \in Calls : pos'[d].step \notin Held BY <1>1, <1>2 DEF LockInv
<1>4. \A d \in Calls : <<d, d>> \in stale => <<d, d>> \in stale' BY DEF StartRun
<1>5. Present' = Present /\ \A d \in Calls : On(d)' = d /\ On(d) = d BY DEF Present, On
<1>6. Len(order) \in Nat /\ DOMAIN order = 1..Len(order) BY <1>1 DEF TypeOK, RecordsOK
<1>7. Len(due') = Len(order)
      /\ \A i \in 1..Len(order) : due'[i].call = order[i] /\ due'[i].state = journal[order[i]].state
  BY <1>6 DEF StartRun
<1>8. ScanInv'
  <2>1. \A d \in Present' : \E i \in 1..Len(due') : due'[i].call = d BY <1>1, <1>5, <1>7 DEF OrderInv
  <2>2. \A i, j \in 1..Len(due') : due'[i].call = due'[j].call => i = j BY <1>1, <1>7 DEF OrderInv
  <2>3. \A i \in 1..Len(due') : due'[i].state = journal'[due'[i].call].state BY <1>7
  <2> QED BY <2>1, <2>2, <2>3 DEF ScanInv
<1> QED BY <1>3, <1>4, <1>5, <1>8 DEF PhaseInv, Fresh

\* Nobody is at work any more.
LEMMA EndsPhases ==
    ASSUME BaseInv', Ends
    PROVE  PhaseInv'
<1> USE Constants
<1>1. \A d \in Calls : pos'[d].step \in {"idle", "over"} BY DEF Ends, Resting
<1>2. \A d \in Calls : pos'[d].step \notin Held \cup Undoing BY <1>1 DEF Held, Undoing, Committing, Rolling
<1>3. lock' # Recovery BY DEF Ends
<1> QED BY <1>2, <1>3 DEF PhaseInv, ScanInv

-----------------------------------------------------------------------------
(* The stores and the facts.                                                *)

\* An undo reverts the change set of a call.
LEMMA OriginalIs ==
    ASSUME TypeOK, NEW c \in Calls
    PROVE  /\ IsUndo(c) => Original(c) \in Calls
           /\ IsUndo(c) <=> "original_change_set" \in Required(c)
           /\ {"change_set", "audit"} \subseteq Required(c)
           /\ Required(c) \subseteq {"change_set", "audit", "original_change_set"}
<1>1. task[c] \in Requests BY DEF TypeOK, MemoryOK
<1>2. IsUndo(c) => Original(c) \in Calls BY <1>1 DEF Requests, IsUndo, Original
<1>3. CASE IsUndo(c)
  <2>1. Participants(c) = <<"change_set", "audit", "original_change_set">> BY <1>3 DEF Participants
  <2>2. Required(c) = {"change_set", "audit", "original_change_set"} BY <2>1 DEF Required
  <2> QED BY <1>2, <1>3, <2>2
<1>4. CASE ~IsUndo(c)
  <2>1. Participants(c) = <<"change_set", "audit">> BY <1>4 DEF Participants
  <2>2. Required(c) = {"change_set", "audit"} BY <2>1 DEF Required
  <2> QED BY <1>2, <1>4, <2>2
<1> QED BY <1>3, <1>4

\* Whose turn it is: the first of the participants that is not recorded yet.
LEMMA TurnIs ==
    ASSUME TypeOK, NEW c \in Calls, \E i \in Required(c) : FactIs(c, i, "pending")
    PROVE  /\ Turn(c) \in Required(c) /\ FactIs(c, Turn(c), "pending")
           /\ FactIs(c, "change_set", "pending") => Turn(c) = "change_set"
           /\ FactIs(c, "audit", "pending") => Turn(c) \in {"change_set", "audit"}
<1> DEFINE P == Participants(c)
           First(n) == /\ journal[c].facts[P[n]] = "pending"
                       /\ \A k \in 1..(n - 1) : journal[c].facts[P[k]] # "pending"
<1>1. Turn(c) = P[CHOOSE n \in DOMAIN P : First(n)] BY DEF Turn
<1>2. CASE IsUndo(c)
  <2>1. P = <<"change_set", "audit", "original_change_set">> BY <1>2 DEF Participants
  <2>2. Required(c) = {"change_set", "audit", "original_change_set"} BY <2>1 DEF Required
  <2>3. DOMAIN P = 1..3 /\ P[1] = "change_set" /\ P[2] = "audit" /\ P[3] = "original_change_set" BY <2>1
  <2> HIDE DEF P
  <2>4. \E n \in DOMAIN P : First(n)
    <3>1. CASE journal[c].facts["change_set"] = "pending"
      <4>1. First(1) BY <2>3, <3>1
      <4> QED BY <2>3, <4>1
    <3>2. CASE journal[c].facts["change_set"] # "pending" /\ journal[c].facts["audit"] = "pending"
      <4>1. First(2) BY <2>3, <3>2
      <4> QED BY <2>3, <4>1
    <3>3. CASE journal[c].facts["change_set"] # "pending" /\ journal[c].facts["audit"] # "pending"
      <4>1. journal[c].facts["original_change_set"] = "pending" BY <2>2, <3>3 DEF FactIs
      <4>2. First(3) BY <2>3, <3>3, <4>1
      <4> QED BY <2>3, <4>2
    <3> QED BY <3>1, <3>2, <3>3
  <2>5. PICK n \in DOMAIN P : First(n) /\ Turn(c) = P[n] BY <1>1, <2>4
  <2>6. n \in {1, 2, 3} BY <2>3, <2>5
  <2> QED BY <2>2, <2>3, <2>5, <2>6 DEF FactIs
<1>3. CASE ~IsUndo(c)
  <2>1. P = <<"change_set", "audit">> BY <1>3 DEF Participants
  <2>2. Required(c) = {"change_set", "audit"} BY <2>1 DEF Required
  <2>3. DOMAIN P = 1..2 /\ P[1] = "change_set" /\ P[2] = "audit" BY <2>1
  <2> HIDE DEF P
  <2>4. \E n \in DOMAIN P : First(n)
    <3>1. CASE journal[c].facts["change_set"] = "pending"
      <4>1. First(1) BY <2>3, <3>1
      <4> QED BY <2>3, <4>1
    <3>2. CASE journal[c].facts["change_set"] # "pending"
      <4>1. journal[c].facts["audit"] = "pending" BY <2>2, <3>2 DEF FactIs
      <4>2. First(2) BY <2>3, <3>2, <4>1
      <4> QED BY <2>3, <4>2
    <3> QED BY <3>1, <3>2
  <2>5. PICK n \in DOMAIN P : First(n) /\ Turn(c) = P[n] BY <1>1, <2>4
  <2>6. n \in {1, 2} BY <2>3, <2>5
  <2> QED BY <2>2, <2>3, <2>5, <2>6 DEF FactIs
<1> QED BY <1>2, <1>3

SameFacts == \A d \in Calls : journal'[d].facts = journal[d].facts
\* The stores as far as the invariant speaks of them.
SameStores ==
    /\ audited \subseteq audited'
    /\ \A d \in Calls : \A s \in {"none", "undone"} : changeset'[d] = s <=> changeset[d] = s
AllFacts(c) == \A i \in Required(c) : FactIs(c, i, "committed")
RunFacts ==
    pos[Recovery].step \notin {"idle", "choose"} /\ Fresh(Recovery) /\ journal[Current].state = Pending =>
         /\ pos[Recovery].step \in {"confirm", "decide"} =>
              \A i \in Required(Current) : FactIs(Current, i, "committed")
         /\ pos[Recovery].step = "rollback" => \E i \in Required(Current) : FactIs(Current, i, "failed")

\* The position of a call with regard to its participants.
Advances(d) ==
    /\ pos'[d].step \in Early => pos[d].step \in Early
    /\ pos'[d].step \in Deciding => pos[d].step \in Deciding
    /\ pos'[d].step \in Sharing =>
         \/ pos'[d].step = pos[d].step
         \/ pos'[d].step = "effect" /\ pos[d].step \in Early
         \/ pos'[d].step = "failed" /\ pos[d].step = "effect"

LEMMA StoreStep ==
    ASSUME TypeOK, StoreInv, task' = task, SameFacts, SameStores, RunFacts',
           \A d \in Calls : Advances(d),
           \A d \in Calls : journal'[d].state \in {"commit_decided", "committed"} =>
               journal[d].state \in {"commit_decided", "committed"} \/ AllFacts(d)
    PROVE  StoreInv'
<1>1. ASSUME NEW c \in Calls PROVE FactsAt(c)'
  <2>1. FactsAt(c) BY DEF StoreInv
  <2>2. Required(c)' = Required(c) /\ Turn(c)' = Turn(c) /\ IsUndo(c)' = IsUndo(c)
    BY DEF Required, Turn, Participants, IsUndo, SameFacts
  <2>3. \A i, f : FactIs(c, i, f)' <=> FactIs(c, i, f) BY DEF FactIs, SameFacts
  <2>4. \A i \in Required(c) : Effected(c, i) => Effected(c, i)'
    BY OriginalIs DEF SameStores, Effected, Original
  <2>5. Advances(c) OBVIOUS
  <2>6. DOMAIN journal'[c].facts = Required(c)' BY <2>1, <2>2 DEF FactsAt, SameFacts
  <2>7. \A i \in Required(c)' : FactIs(c, i, "committed")' => Effected(c, i)' BY <2>1, <2>2, <2>3, <2>4 DEF FactsAt
  <2>8. journal'[c].state \in {"commit_decided", "committed"} \/ pos'[c].step \in Deciding =>
          \A i \in Required(c)' : FactIs(c, i, "committed")'
    BY <2>1, <2>2, <2>3, <2>5 DEF FactsAt, Advances, AllFacts
  <2>9. pos'[c].step \in Early => changeset'[c] = "none" /\ \A i \in Required(c)' : FactIs(c, i, "pending")'
    BY <2>1, <2>2, <2>3, <2>5 DEF FactsAt, Advances, SameStores
  <2>10. ASSUME pos'[c].step \in Sharing
         PROVE  /\ \A i \in Required(c) : ~FactIs(c, i, "failed")
                /\ \E i \in Required(c) : FactIs(c, i, "pending")
                /\ FactIs(c, "audit", "committed") => FactIs(c, "change_set", "committed")
                /\ IsUndo(c) => FactIs(c, "original_change_set", "pending")
                /\ FactIs(c, "change_set", "pending") /\ pos'[c].step = "effect" => changeset[c] = "none"
                /\ pos'[c].step = "fact" => Effected(c, Turn(c))
    <3>1. CASE pos[c].step \in Sharing BY <2>1, <2>5, <2>10, <3>1 DEF FactsAt, Advances, Early, Committing, Sharing
    <3>2. CASE pos[c].step \in Early /\ pos'[c].step = "effect"
      <4>1. changeset[c] = "none" /\ \A i \in Required(c) : FactIs(c, i, "pending") BY <2>1, <3>2 DEF FactsAt
      <4> QED BY <3>2, <4>1, OriginalIs DEF FactIs
    <3> QED BY <2>5, <2>10, <3>1, <3>2 DEF Advances, Sharing
  <2>11. pos'[c].step = "fact" => (Effected(c, Turn(c)) => Effected(c, Turn(c))')
    <3> SUFFICES ASSUME pos'[c].step = "fact", Effected(c, Turn(c)) PROVE Effected(c, Turn(c))' OBVIOUS
    <3>1. CASE Turn(c) \in {"change_set", "audit"} BY <2>2, <3>1 DEF SameStores, Effected
    <3>2. CASE Turn(c) \notin {"change_set", "audit"}
      <4>1. changeset[Original(c)] = "undone" BY <3>2 DEF Effected
      <4>2. pos'[c].step \in Sharing BY DEF Sharing
      <4>3. Turn(c) \in Required(c) BY <2>10, <4>2, TurnIs
      <4>4. IsUndo(c) BY <3>2, <4>3, OriginalIs
      <4> QED BY <2>2, <3>2, <4>1, <4>4, OriginalIs DEF SameStores, Effected, Original
    <3> QED BY <3>1, <3>2
  <2> HIDE DEF Effected, FactIs
  <2> QED BY <2>2, <2>3, <2>6, <2>7, <2>8, <2>9, <2>10, <2>11 DEF FactsAt, SameStores, Sharing
<1> QED BY <1>1 DEF StoreInv, RunFacts

\* What a call does whose manifest stands.
LEMMA UndoStep ==
    ASSUME TypeOK, UndoInv, task' = task, SameFacts, misled' = misled, \A d \in Calls : Advances(d),
           \A d \in Calls : changeset'[d] = "undone" <=> changeset[d] = "undone",
           derailed \subseteq derailed',
           \A d \in derailed' : journal'[d].state \in {"recovery_required", "rolling_back", "rolled_back"},
           \A d \in Calls : Undone(d) /\ Standing(d) => journal'[d].state \in Installed \/ d \in derailed' \cup misled',
           \A d \in Calls : journal'[d].state \in Installed =>
               journal[d].state \in Installed \/ FactIs(d, "change_set", "pending"),
           \A d \in Calls : Undone(d) /\ Unended(d)' => Unended(d),
           \A d \in Calls : Carried(d) =>
               pos'[d].step \in Deciding \cup {"over"} \/ pos'[d].step = pos[d].step
    PROVE  UndoInv'
<1>1. \A c \in Calls : /\ Undone(c)' <=> Undone(c)
                       /\ Original(c)' = Original(c) /\ Turn(c)' = Turn(c)
                       /\ \A i, f : FactIs(c, i, f)' <=> FactIs(c, i, f)
  <2> SUFFICES ASSUME NEW c \in Calls
               PROVE  /\ Undone(c)' <=> Undone(c)
                      /\ Original(c)' = Original(c) /\ Turn(c)' = Turn(c)
                      /\ \A i, f : FactIs(c, i, f)' <=> FactIs(c, i, f)
    OBVIOUS
  <2>1. IsUndo(c)' <=> IsUndo(c) BY DEF IsUndo
  <2>2. Original(c)' = Original(c) BY DEF Original
  <2>3. Undone(c)' <=> Undone(c) BY <2>1, <2>2, OriginalIs DEF Undone
  <2>4. journal'[c].facts = journal[c].facts BY DEF SameFacts
  <2>5. \A i, f : FactIs(c, i, f)' <=> FactIs(c, i, f) BY <2>4 DEF FactIs
  <2>6. Turn(c)' = Turn(c) BY <2>1, <2>4 DEF Turn, Participants
  <2> QED BY <2>2, <2>3, <2>5, <2>6
<1>2. \A c \in Calls : Undone(c) /\ Ending(c) => Ending(c)' \/ c \in derailed'
  BY <1>1 DEF Ending, Standing, Installed
<1>3. \A c \in Calls : Ending(c)' => Ending(c)
  <2> SUFFICES ASSUME NEW c \in Calls, Standing(c)' PROVE Standing(c) BY DEF Ending
  <2>1. FactIs(c, "change_set", "committed") /\ ~FactIs(c, "change_set", "pending")
    BY <1>1 DEF Standing, FactIs
  <2> QED BY <1>1, <2>1 DEF Standing, Installed
<1>4. ASSUME NEW c \in Calls, Undone(c)', Unended(c)' PROVE Carried(c)' \/ c \in derailed' \cup misled'
  <2>1. Carried(c) \/ c \in derailed \cup misled BY <1>1, <1>4 DEF UndoInv
  <2>2. ASSUME Carried(c) PROVE Carried(c)' \/ c \in derailed' \cup misled'
    <3>1. Standing(c)' \/ c \in derailed' \cup misled' BY <1>1, <1>2, <1>4, <2>2 DEF Carried, Ending
    <3> QED BY <1>1, <2>2, <3>1 DEF Carried
  <2> QED BY <2>1, <2>2
<1>5. \A d \in Calls : changeset'[d] = "undone" =>
        \E c \in Calls : Original(c)' = d /\ (Ending(c)' \/ c \in derailed')
  <2> SUFFICES ASSUME NEW d \in Calls, changeset[d] = "undone"
               PROVE  \E c \in Calls : Original(c) = d /\ (Ending(c)' \/ c \in derailed')
    BY <1>1
  <2>1. PICK c \in Calls : Original(c) = d /\ (Ending(c) \/ c \in derailed) BY DEF UndoInv
  <2>2. Undone(c) BY <2>1, MoveAssumption DEF Undone, IsUndo, Original
  <2> QED BY <1>2, <2>1, <2>2
<1>6. \A c, e \in Calls :
        Undone(c)' /\ Undone(e)' /\ Ending(c)' /\ Ending(e)' /\ Original(c)' = Original(e)' => c = e
  BY <1>1, <1>3 DEF UndoInv
<1>7. \A c \in misled' : Undone(c)' /\ pos'[c].step \notin Early \cup Deciding \cup {"effect", "fact"}
  <2> SUFFICES ASSUME NEW c \in misled
               PROVE  Undone(c)' /\ pos'[c].step \notin Early \cup Deciding \cup {"effect", "fact"}
    OBVIOUS
  <2>1. c \in Calls BY DEF TypeOK, HistoryOK
  <2>2. Undone(c) /\ pos[c].step \notin Early \cup Deciding \cup {"effect", "fact"} BY DEF UndoInv
  <2> QED BY <1>1, <2>1, <2>2 DEF Advances, Sharing
<1> QED BY <1>4, <1>5, <1>6, <1>7 DEF UndoInv

\* A call that works on its manifest and records no participant.
LEMMA CallKeepsRecords ==
    ASSUME BaseInv, BaseInv', RecordsInv, NEW c \in Calls, Still(c),
           pos[c].step \in (Held \cup Undoing) \ {"inspect"},
           UNCHANGED <<task, due, derailed, misled>>, Wrote(c), SameStores,
           journal'[c].state # "none", journal'[c].facts = journal[c].facts,
           pos'[c].step \in Held => pos[c].step \in Held /\ journal'[c].state \in StateAt(pos'[c].step),
           journal' = journal \/ journal'[c].state \notin Final \/ pos'[c].step \notin Undoing,
           Advances(c), pos'[c].step # "waiting",
           journal'[c].state \in {"commit_decided", "committed"} =>
               journal[c].state \in {"commit_decided", "committed"} \/ pos[c].step \in Deciding,
           pos[c].step \in Held /\ journal[c].state \in Installed => journal'[c].state \in Installed,
           pos[c].step \in Undoing =>
               journal' = journal \/ journal'[c].state \in {"recovery_required", "rolling_back", "rolled_back"},
           journal'[c].state \in Installed => journal[c].state \in Installed \/ pos[c].step \in Early,
           Carried(c) => pos'[c].step \in Deciding \cup {"over"} \/ pos'[c].step = pos[c].step
    PROVE  RecordsInv'
<1> USE Constants
<1>1. TypeOK /\ LockInv /\ OrderInv /\ TodoInv /\ LockInv' BY DEF BaseInv
<1>2. PhaseInv /\ StoreInv /\ UndoInv BY DEF RecordsInv
<1>3. \A v \in Workers \ {c} : pos'[v] = pos[v] BY DEF Still
<1>4. c \in Present /\ On(c) = c /\ On(c)' = c BY <1>1 DEF OrderInv, Active, On
<1>5. \A d \in Calls : d # c => journal'[d] = journal[d] BY <1>4 DEF Wrote
<1>6. PhaseInv' BY <1>2, <1>4, CallPhases
<1>7. pos[c].step \in Held => journal[c].state \notin Final \cup {"recovery_required", "rolling_back"}
  BY <1>2 DEF PhaseInv, StateAt, Held, Committing, Final, Pending
<1>8. journal' = journal \/ journal[c].state \notin Final
  <2>1. CASE pos[c].step \in Held BY <1>7, <2>1
  <2>2. CASE pos[c].step \in Undoing BY <1>2, <2>2 DEF Wrote, PhaseInv
  <2> QED BY <2>1, <2>2
<1>9. SameFacts BY <1>5 DEF SameFacts
<1>10. \A d \in Calls : Advances(d) BY <1>3 DEF Advances
<1>11. RunFacts'
  <2> SUFFICES ASSUME pos'[Recovery].step \notin {"idle", "choose"}, Fresh(Recovery)'
               PROVE  RunFacts'
    BY DEF RunFacts
  <2>1. pos'[Recovery] = pos[Recovery] /\ Current' = Current BY <1>3 DEF Current
  <2>2. Current \in Calls /\ On(Recovery) = Current /\ On(Recovery)' = Current
    BY <1>1, <2>1, OnIs DEF On, Current
  <2>3. journal' = journal \/ Current # c
    <3> SUFFICES ASSUME Current = c, journal' # journal PROVE FALSE OBVIOUS
    <3>1. stale' = stale \cup ((Readers(c) \ {c}) \X {c}) BY <1>4 DEF Wrote
    <3>2. Recovery \in Readers(c) BY <1>1, <2>1 DEF Readers, LockInv, RunSteps, Rolling
    <3> QED BY <2>2, <3>1, <3>2 DEF Fresh
  <2>4. journal'[Current] = journal[Current] BY <1>5, <2>2, <2>3
  <2>5. Fresh(Recovery) BY <2>2 DEF Fresh, Wrote
  <2>6. RunFacts BY <1>2 DEF StoreInv, RunFacts
  <2>7. Required(Current)' = Required(Current) BY <2>1 DEF Required, Participants, IsUndo
  <2> QED BY <2>1, <2>4, <2>5, <2>6, <2>7 DEF RunFacts, FactIs
<1>12. StoreInv'
  <2>1. pos[c].step \in Deciding => AllFacts(c) BY <1>2 DEF StoreInv, FactsAt, AllFacts
  <2>2. \A d \in Calls : journal'[d].state \in {"commit_decided", "committed"} =>
               journal[d].state \in {"commit_decided", "committed"} \/ AllFacts(d)
    BY <1>5, <2>1
  <2> QED BY <1>1, <1>2, <1>9, <1>10, <1>11, <2>2, StoreStep
<1>13. UndoInv'
  <2>1. c \in derailed => pos[c].step \in Undoing BY <1>2, <1>7 DEF UndoInv, Final
  <2>2. \A d \in derailed : journal'[d].state \in {"recovery_required", "rolling_back", "rolled_back"}
    <3>1. derailed \subseteq Calls BY <1>1 DEF TypeOK, HistoryOK
    <3> QED BY <1>2, <1>5, <2>1, <3>1 DEF UndoInv
  <2>3. Undone(c) /\ Standing(c) => journal'[c].state \in Installed \/ c \in derailed \cup misled
    <3> SUFFICES ASSUME Undone(c), Standing(c), journal' # journal
                 PROVE  journal'[c].state \in Installed \/ c \in derailed \cup misled
      BY DEF Standing, Installed
    <3>1. CASE pos[c].step \in Held BY <3>1 DEF Standing, Installed
    <3>2. CASE pos[c].step \in Undoing
      <4>1. Unended(c) BY <1>4, <1>8 DEF Unended, Present
      <4>2. Carried(c) \/ c \in derailed \cup misled BY <1>2, <4>1 DEF UndoInv
      <4> QED BY <3>2, <4>2 DEF Carried, Undoing, Rolling, Deciding
    <3> QED BY <3>1, <3>2
  <2>4. \A d \in Calls : Undone(d) /\ Standing(d) => journal'[d].state \in Installed \/ d \in derailed' \cup misled'
    BY <1>5, <2>3 DEF Standing, Installed
  <2>5. pos[c].step \in Early => FactIs(c, "change_set", "pending")
    BY <1>1, <1>2, OriginalIs DEF StoreInv, FactsAt
  <2>6. \A d \in Calls : journal'[d].state \in Installed =>
               journal[d].state \in Installed \/ FactIs(d, "change_set", "pending")
    BY <1>5, <2>5
  <2>7. \A d \in Calls : Unended(d)' => Unended(d)
    <3>1. Unended(c)' => Unended(c) BY <1>4, <1>8 DEF Unended, Present
    <3>2. \A d \in Calls : d # c => (Unended(d)' => Unended(d)) BY <1>3, <1>5 DEF Unended
    <3> QED BY <3>1, <3>2
  <2>8. \A d \in Calls : Carried(d) => pos'[d].step \in Deciding \cup {"over"} \/ pos'[d].step = pos[d].step
    BY <1>3
  <2>9. \A d \in Calls : changeset'[d] = "undone" <=> changeset[d] = "undone" BY DEF SameStores
  <2> HIDE DEF Unended, Carried, Standing, Undone, FactIs
  <2> HIDE DEF Advances
  <2> QED BY <1>1, <1>2, <1>9, <1>10, <2>2, <2>4, <2>6, <2>7, <2>8, <2>9, UndoStep
<1> QED BY <1>6, <1>12, <1>13 DEF RecordsInv

\* A run that works on its manifest and records no participant.
LEMMA RunKeepsRecords ==
    ASSUME BaseInv, BaseInv', RecordsInv, Still(Recovery), lock = Recovery, due # <<>>,
           pos'[Recovery].step \notin {"idle", "choose"},
           UNCHANGED <<task, due, derailed, misled>>, Wrote(Recovery), SameStores,
           journal'[Current].state # "none", journal'[Current].facts = journal[Current].facts,
           journal' = journal \/ journal[Current].state \notin Final, HeadAt', RunFacts',
           journal'[Current].state \in {"commit_decided", "committed"} =>
               journal[Current].state \in {"commit_decided", "committed"} \/ AllFacts(Current),
           journal[Current].state \in Installed =>
               journal'[Current].state \in Installed \/ \E i \in Required(Current) : FactIs(Current, i, "failed"),
           journal'[Current].state \in Installed => journal[Current].state \in Installed,
           journal' = journal \/ journal'[Current].state \in {"recovery_required", "rolling_back", "rolled_back"}
               \/ journal[Current].state \notin {"recovery_required", "rolling_back", "rolled_back"}
    PROVE  RecordsInv'
<1> USE Constants
<1>1. TypeOK BY DEF BaseInv
<1>2. PhaseInv /\ StoreInv /\ UndoInv BY DEF RecordsInv
<1>3. \A v \in Calls : pos'[v] = pos[v] BY DEF Still
<1>4. Current \in Calls /\ Current \in Present /\ On(Recovery) = Current
  <2>1. Ready(Recovery) /\ On(Recovery) = Current BY RunIs DEF Ready
  <2> QED BY <2>1, ReadyIs
<1>5. \A d \in Calls : d # Current => journal'[d] = journal[d] BY <1>4 DEF Wrote
<1>6. PhaseInv' BY <1>2, RunPhases
<1>7. SameFacts BY <1>5 DEF SameFacts
<1>8. \A d \in Calls : Advances(d) BY <1>3 DEF Advances
<1>9. StoreInv'
  <2>1. \A d \in Calls : journal'[d].state \in {"commit_decided", "committed"} =>
               journal[d].state \in {"commit_decided", "committed"} \/ AllFacts(d)
    BY <1>5
  <2> QED BY <1>1, <1>2, <1>7, <1>8, <2>1, StoreStep
<1>10. UndoInv'
  <2>1. \A d \in derailed : journal'[d].state \in {"recovery_required", "rolling_back", "rolled_back"}
    <3>1. derailed \subseteq Calls BY <1>1 DEF TypeOK, HistoryOK
    <3> QED BY <1>2, <1>5, <3>1 DEF UndoInv
  <2>2. Undone(Current) /\ Standing(Current) => journal'[Current].state \in Installed
    <3> SUFFICES ASSUME Undone(Current), Standing(Current) PROVE journal'[Current].state \in Installed OBVIOUS
    <3>1. \A i \in Required(Current) : ~FactIs(Current, i, "failed")
      BY <1>1, <1>4, OriginalIs DEF Standing, FactIs
    <3>2. journal[Current].state \in Installed BY DEF Standing, Installed
    <3> QED BY <3>1, <3>2
  <2>3. \A d \in Calls : Undone(d) /\ Standing(d) => journal'[d].state \in Installed \/ d \in derailed' \cup misled'
    BY <1>5, <2>2 DEF Standing, Installed
  <2>4. \A d \in Calls : journal'[d].state \in Installed =>
               journal[d].state \in Installed \/ FactIs(d, "change_set", "pending")
    BY <1>5
  <2>5. \A d \in Calls : Unended(d)' => Unended(d)
    <3>1. CASE journal' = journal BY <1>3, <3>1 DEF Unended
    <3>2. CASE journal[Current].state \notin Final
      <4>1. Unended(Current) BY <1>4, <3>2 DEF Unended, Present
      <4>2. \A d \in Calls : d # Current => (Unended(d)' => Unended(d)) BY <1>3, <1>5 DEF Unended
      <4> HIDE DEF Unended
      <4> QED BY <4>1, <4>2
    <3> QED BY <3>1, <3>2
  <2>6. \A d \in Calls : changeset'[d] = "undone" <=> changeset[d] = "undone" BY DEF SameStores
  <2> HIDE DEF Unended, Carried, Standing, Undone, FactIs
  <2> HIDE DEF Advances
  <2> QED BY <1>1, <1>2, <1>3, <1>7, <1>8, <2>1, <2>3, <2>4, <2>5, <2>6, UndoStep
<1> QED BY <1>6, <1>9, <1>10 DEF RecordsInv

-----------------------------------------------------------------------------
(* The steps of a call.                                                     *)

LEMMA LeftIs ==
    ASSUME NEW w \in Workers, UNCHANGED <<journal, stale>>
    PROVE  Wrote(w)
BY DEF Wrote

LEMMA WroteIs ==
    ASSUME TypeOK, NEW w \in Workers, On(w) \in Calls, NEW m \in Manifests, Fresh(w), Write(w, m)
    PROVE  Wrote(w) /\ journal'[On(w)] = m
BY WriteIs DEF Wrote, Write

LEMMA BecameIs ==
    ASSUME TypeOK, NEW w \in Workers, On(w) \in Calls, NEW s \in States, Fresh(w), Become(w, s)
    PROVE  /\ Wrote(w) /\ journal'[On(w)].state = s
           /\ journal'[On(w)].facts = journal[On(w)].facts
<1> DEFINE m == [journal[On(w)] EXCEPT !.state = s]
<1>1. journal[On(w)] \in Manifests BY DEF TypeOK, RecordsOK
<1>2. m \in Manifests /\ m.state = s /\ m.facts = journal[On(w)].facts BY <1>1 DEF Manifests
<1>3. Write(w, m) BY DEF Become
<1> HIDE DEF m
<1> QED BY <1>2, <1>3, WroteIs

\* Nothing of the records changes.
LEMMA SameIs == ASSUME UNCHANGED records PROVE SameStores
BY DEF records, SameStores

\* It works on the files.
LEMMA CommitKeepsRecords ==
    ASSUME BaseInv, BaseInv', RecordsInv, NEW c \in Calls, Still(c),
           pos[c].step \in Committing, UNCHANGED <<task, due, derailed, misled, changeset, audited>>, Wrote(c),
           journal'[c].state = "committing", journal'[c].facts = journal[c].facts,
           pos'[c].step \in Committing \ {"begin"}
    PROVE  RecordsInv'
<1>1. pos[c].step \in Held \ {"inspect"} /\ pos[c].step \in Early /\ pos[c].step \notin Undoing \cup Deciding \cup Sharing
  BY DEF Held, Committing, Early, Undoing, Rolling, Deciding, Sharing
<1>2. pos'[c].step \in Held \ {"inspect"} /\ pos'[c].step \in Early /\ pos'[c].step \notin Undoing \cup Deciding \cup Sharing \cup {"waiting"}
  BY DEF Held, Committing, Early, Undoing, Rolling, Deciding, Sharing
<1>3. journal'[c].state \in StateAt(pos'[c].step) BY DEF StateAt, Committing
<1>4. journal[c].state \in StateAt(pos[c].step) BY <1>1 DEF RecordsInv, PhaseInv
<1>5. journal[c].state \notin Installed BY <1>4 DEF StateAt, Committing, Installed, Pending
<1>6. SameStores BY DEF SameStores
<1>7. ~Carried(c) BY DEF Carried, Deciding, Committing
<1>8. Advances(c) BY <1>1, <1>2 DEF Advances
<1>9. journal'[c].state \notin Installed \cup Final \cup {"commit_decided", "committed", "none"} BY DEF Installed, Final, Pending
<1> QED BY <1>1, <1>2, <1>3, <1>5, <1>6, <1>7, <1>8, <1>9, CallKeepsRecords

LEMMA CommitStepRecords ==
    ASSUME MoveInv, MoveInv', RecordsInv, NEW c \in Calls, CommitStep(c)
    PROVE  RecordsInv'
<1>1. BaseInv /\ BaseInv' /\ TypeOK BY DEF MoveInv, BaseInv
<1>2. c \in Workers /\ On(c) = c BY Constants DEF On
<1>3. pos[c].step \in Committing BY DEF CommitStep, Committing, Begin, MakeDirectory, RecordDirectory, LinkStage,
        UnlinkSource, Link, Show, Settle, Pend
<1>4. pos[c].step \in Held /\ journal[c].state \in StateAt(pos[c].step) BY <1>3 DEF Held, RecordsInv, PhaseInv
<1>5. journal[c] \in Manifests BY <1>1 DEF TypeOK, RecordsOK
<1>6. UNCHANGED <<task, due, derailed, misled, changeset, audited>>
  BY DEF CommitStep, Begin, MakeDirectory, RecordDirectory, LinkStage, UnlinkSource, Link, Show, Settle, Pend,
         Stays, records, memory, history
<1>7. CASE Begin(c)
  <2>1. Wrote(c) /\ journal'[c].state = "committing" /\ journal'[c].facts = journal[c].facts
    BY <1>1, <1>2, <1>7, BecameIs DEF Begin, States
  <2>2. Still(c) /\ pos'[c].step \in {"mkdir", "stage"}
    <3>1. CASE journal[c].plans BY <3>1, <1>1, <1>2, <1>7, GotoIs DEF Begin, CallSteps, Held, Committing
    <3>2. CASE ~journal[c].plans BY <3>2, <1>1, <1>2, <1>7, LoopIs DEF Begin, CallSteps, Held, Committing
    <3> QED BY <3>1, <3>2
  <2> QED BY <1>1, <1>3, <1>6, <2>1, <2>2, CommitKeepsRecords DEF Committing
<1>8. CASE RecordDirectory(c)
  <2> DEFINE m == [journal[c] EXCEPT !.made = dir]
  <2>1. m \in Manifests /\ m.state = journal[c].state /\ m.facts = journal[c].facts
    BY <1>1, <1>5 DEF TypeOK, DiskOK, Manifests
  <2>2. Write(c, m) /\ Fresh(c) BY <1>8 DEF RecordDirectory
  <2> HIDE DEF m
  <2>3. Wrote(c) /\ journal'[c] = m BY <1>1, <1>2, <2>1, <2>2, WroteIs
  <2>4. journal[c].state = "committing" BY <1>4, <1>8 DEF RecordDirectory, StateAt, Committing
  <2>5. Still(c) /\ pos'[c].step = "stage"
    BY <1>1, <1>2, <1>8, LoopIs DEF RecordDirectory, CallSteps, Held, Committing
  <2> QED BY <1>1, <1>3, <1>6, <2>1, <2>3, <2>4, <2>5, CommitKeepsRecords DEF Committing
<1>9. CASE Show(c)
  <2> DEFINE m == [journal[c] EXCEPT !.shown = @ \cup {Here(c)}]
  <2>0. Here(c) \in Paths BY <1>1, <1>2, <1>9, HereIs DEF Show, BaseInv, Looping
  <2>1. m \in Manifests /\ m.state = journal[c].state /\ m.facts = journal[c].facts
    BY <1>5, <2>0 DEF Manifests
  <2>2. Write(c, m) /\ Fresh(c) BY <1>9 DEF Show
  <2> HIDE DEF m
  <2>3. Wrote(c) /\ journal'[c] = m BY <1>1, <1>2, <2>1, <2>2, WroteIs
  <2>4. journal[c].state = "committing" BY <1>4, <1>9 DEF Show, StateAt, Committing
  <2>5. Still(c) /\ pos'[c].step = "settle"
    BY <1>1, <1>2, <1>9, GotoIs DEF Show, CallSteps, Held, Committing
  <2> QED BY <1>1, <1>3, <1>6, <2>1, <2>3, <2>4, <2>5, CommitKeepsRecords DEF Committing
<1>10. CASE MakeDirectory(c) \/ LinkStage(c) \/ UnlinkSource(c) \/ Link(c) \/ Settle(c)
  <2>1. UNCHANGED <<journal, stale>> /\ pos[c].step # "begin"
    BY <1>10 DEF MakeDirectory, LinkStage, UnlinkSource, Link, Settle
  <2>2. journal[c].state = "committing" BY <1>3, <1>4, <2>1 DEF StateAt, Committing
  <2>3. Still(c) /\ pos'[c].step \in Committing \ {"begin"}
    <3>1. CASE MakeDirectory(c) \/ LinkStage(c) \/ Link(c)
      <4>1. PICK s \in {"made", "unlink", "show"} : Goto(c, s) BY <3>1 DEF MakeDirectory, LinkStage, Link
      <4> QED BY <1>1, <1>2, <4>1, GotoIs DEF CallSteps, Held, Committing
    <3>2. CASE UnlinkSource(c)
      BY <1>1, <1>2, <3>2, DoneIs DEF UnlinkSource, CallSteps, Held, Committing
    <3>3. CASE Settle(c)
      <4>1. Done(c, "link", "pend") BY <3>3 DEF Settle
      <4>2. "link" \in CallSteps \cup RunSteps /\ "pend" \in CallSteps \cup RunSteps
        BY DEF CallSteps, Held, Committing
      <4> QED BY <1>1, <1>2, <4>1, <4>2, DoneIs DEF Committing
    <3> QED BY <1>10, <3>1, <3>2, <3>3
  <2> QED BY <1>1, <1>2, <1>3, <1>6, <2>1, <2>2, <2>3, LeftIs, CommitKeepsRecords
<1>11. CASE Pend(c)
  <2>1. Wrote(c) /\ journal'[c].state = Pending /\ journal'[c].facts = journal[c].facts
    BY <1>1, <1>2, <1>11, BecameIs DEF Pend, States
  <2>2. Still(c) /\ pos'[c].step = "effect" /\ pos[c].step = "pend"
    BY <1>1, <1>2, <1>11, GotoIs DEF Pend, CallSteps, Held
  <2>3. pos[c].step \in (Held \cup Undoing) \ {"inspect"} /\ pos[c].step \in Early
        /\ pos[c].step \notin Undoing \cup Deciding \cup Sharing
    BY <2>2 DEF Held, Committing, Early, Undoing, Rolling, Deciding, Sharing
  <2>4. pos'[c].step \notin Early \cup Deciding \cup Undoing
    BY <2>2 DEF Committing, Early, Undoing, Rolling, Deciding
  <2>5. Advances(c) BY <2>2, <2>3, <2>4 DEF Advances
  <2>6. journal'[c].state \in StateAt(pos'[c].step) BY <2>1, <2>2 DEF StateAt, Committing
  <2>7. journal'[c].state \in Installed \ {"none", "commit_decided", "committed"}
    BY <2>1 DEF Installed, Pending
  <2>8. SameStores BY <1>6 DEF SameStores
  <2>9. ~Carried(c) BY <2>2 DEF Carried, Deciding
  <2> QED BY <1>1, <1>4, <1>6, <2>1, <2>2, <2>3, <2>4, <2>5, <2>6, <2>7, <2>8, <2>9, CallKeepsRecords
<1> QED BY <1>7, <1>8, <1>9, <1>10, <1>11 DEF CommitStep

\* It moves on, and writes nothing.
LEMMA CallMoves ==
    ASSUME BaseInv, BaseInv', RecordsInv, NEW c \in Calls, Still(c),
           pos[c].step \in (Held \cup Undoing) \ {"inspect"},
           UNCHANGED <<task, due, derailed, misled, journal, stale>>, SameStores,
           pos'[c].step \in Held => pos[c].step \in Held /\ journal[c].state \in StateAt(pos'[c].step),
           Advances(c), pos'[c].step # "waiting",
           Carried(c) => pos'[c].step \in Deciding \cup {"over"} \/ pos'[c].step = pos[c].step
    PROVE  RecordsInv'
<1>1. c \in Workers /\ On(c) = c BY Constants DEF On
<1>2. Wrote(c) BY <1>1, LeftIs
<1>3. c \in Present BY DEF BaseInv, OrderInv, Active
<1>4. journal'[c].state # "none" BY <1>3 DEF Present
<1>5. journal[c].state \in {"commit_decided", "committed"} =>
        journal[c].state \in {"commit_decided", "committed"} \/ pos[c].step \in Deciding OBVIOUS
<1> QED BY <1>2, <1>4, <1>5, CallKeepsRecords

\* It gives the work up, or a rollback goes on.
LEMMA CallUndoes ==
    ASSUME BaseInv, BaseInv', RecordsInv, NEW c \in Calls, Still(c),
           pos[c].step \in (Held \cup Undoing) \ {"inspect"},
           UNCHANGED <<task, due, derailed, misled, journal, stale>>, SameStores,
           pos'[c].step \in Undoing \cup {"over"},
           Carried(c) => pos'[c].step = "over"
    PROVE  RecordsInv'
<1>1. pos'[c].step \notin Held \cup Early \cup Deciding \cup Sharing \cup {"waiting"}
  BY DEF Undoing, Rolling, Held, Committing, Early, Deciding, Sharing
<1>2. Advances(c) BY <1>1 DEF Advances
<1> QED BY <1>1, <1>2, CallMoves

LEMMA CommitFailsRecords ==
    ASSUME MoveInv, MoveInv', RecordsInv, NEW c \in Calls, CommitFails(c)
    PROVE  RecordsInv'
<1>1. BaseInv /\ BaseInv' /\ TypeOK BY DEF MoveInv, BaseInv
<1>2. c \in Workers /\ On(c) = c BY Constants DEF On
<1>3. pos[c].step \in Committing /\ pos[c].step \in Held \ {"inspect"} BY DEF CommitFails, Held, Committing
<1>4. pos \in [Workers -> Positions] /\ pos[c] \in Positions BY <1>1, <1>2 DEF TypeOK, MemoryOK
<1>5. pos' = [pos EXCEPT ![c] = [pos[c] EXCEPT !.step = "rollback", !.todo = {}, !.tries = 2]]
  BY <1>4 DEF CommitFails
<1>6. pos'[c].step = "rollback" /\ Still(c) BY <1>2, <1>4, <1>5 DEF Still, Positions
<1>7. UNCHANGED <<task, due, derailed, misled, journal, stale>> /\ SameStores
  BY SameIs DEF CommitFails, OnlyFaults, memory, history
<1>8. ~Carried(c) BY <1>3 DEF Carried, Deciding, Committing
<1> QED BY <1>1, <1>3, <1>6, <1>7, <1>8, CallUndoes DEF Undoing, Rolling

LEMMA FactFailsRecords ==
    ASSUME MoveInv, MoveInv', RecordsInv, NEW c \in Calls, FactFails(c)
    PROVE  RecordsInv'
<1>1. BaseInv /\ BaseInv' /\ TypeOK BY DEF MoveInv, BaseInv
<1>2. c \in Workers /\ On(c) = c BY Constants DEF On
<1>3. pos[c].step = "fact" /\ pos[c].step \in Held \ {"inspect"} BY DEF FactFails, Held
<1>4. pos \in [Workers -> Positions] /\ pos[c] \in Positions BY <1>1, <1>2 DEF TypeOK, MemoryOK
<1>5. UNCHANGED <<task, due, derailed, misled, journal, stale>> /\ SameStores
  BY SameIs DEF FactFails, OnlyFaults, OnlyLock, history
<1>6. CASE Turn(c) = "original_change_set"
  <2>1. Over(c) BY <1>6 DEF FactFails
  <2>2. Still(c) /\ pos'[c].step = "over" BY <1>1, <2>1, OverIs
  <2> QED BY <1>1, <1>3, <1>5, <2>2, CallUndoes
<1>7. CASE Turn(c) # "original_change_set"
  <2>1. pos' = [pos EXCEPT ![c] = [pos[c] EXCEPT !.step = "unproven", !.tries = 1]]
    BY <1>4, <1>7 DEF FactFails
  <2>2. pos'[c].step = "unproven" /\ Still(c) BY <1>2, <1>4, <2>1 DEF Still, Positions
  <2>3. ~Carried(c) BY <1>3, <1>7 DEF Carried, Deciding
  <2> QED BY <1>1, <1>3, <1>5, <2>2, <2>3, CallUndoes DEF Undoing
<1> QED BY <1>6, <1>7

LEMMA FailedFailsRecords ==
    ASSUME MoveInv, MoveInv', RecordsInv, NEW c \in Calls, FailedFails(c)
    PROVE  RecordsInv'
<1>1. BaseInv /\ BaseInv' /\ TypeOK BY DEF MoveInv, BaseInv
<1>2. c \in Workers /\ On(c) = c BY Constants DEF On
<1>3. pos[c].step = "failed" /\ pos[c].step \in Held \ {"inspect"} BY DEF FailedFails, Held
<1>4. pos \in [Workers -> Positions] /\ pos[c] \in Positions BY <1>1, <1>2 DEF TypeOK, MemoryOK
<1>5. UNCHANGED <<task, due, derailed, misled, journal, stale>> /\ SameStores
  BY SameIs DEF FailedFails, OnlyFaults, memory, history
<1>6. pos' = [pos EXCEPT ![c] = [pos[c] EXCEPT !.step = "unproven", !.tries = 1]]
  BY <1>4 DEF FailedFails
<1>7. pos'[c].step = "unproven" /\ Still(c) BY <1>2, <1>4, <1>6 DEF Still, Positions
<1>8. ~Carried(c) BY <1>3 DEF Carried, Deciding
<1> QED BY <1>1, <1>3, <1>5, <1>7, <1>8, CallUndoes DEF Undoing

LEMMA FinalizeFailsRecords ==
    ASSUME MoveInv, MoveInv', RecordsInv, NEW c \in Calls, FinalizeFails(c)
    PROVE  RecordsInv'
<1>1. BaseInv /\ BaseInv' /\ TypeOK BY DEF MoveInv, BaseInv
<1>2. pos[c].step \in Held \ {"inspect"} BY DEF FinalizeFails, Held
<1>3. UNCHANGED <<task, due, derailed, misled, journal, stale>> /\ SameStores
  BY SameIs DEF FinalizeFails, OnlyFaults, OnlyLock, history
<1>4. Still(c) /\ pos'[c].step = "over" BY <1>1, OverIs DEF FinalizeFails
<1> QED BY <1>1, <1>2, <1>3, <1>4, CallUndoes

\* A commit that is decided.
LEMMA DecidedRecords ==
    ASSUME MoveInv, MoveInv', RecordsInv, NEW c \in Calls, Decide(c) \/ Drop(c) \/ Dropped(c) \/ Finish(c)
    PROVE  RecordsInv'
<1>1. BaseInv /\ BaseInv' /\ TypeOK BY DEF MoveInv, BaseInv
<1>2. c \in Workers /\ On(c) = c BY Constants DEF On
<1>3. pos[c].step \in Deciding /\ pos[c].step \in Held \ {"inspect"} /\ pos[c].step \notin Undoing
  BY DEF Decide, Drop, Dropped, Finish, Deciding, Held, Undoing, Rolling
<1>4. journal[c].state \in StateAt(pos[c].step) BY <1>3 DEF RecordsInv, PhaseInv
<1>5. UNCHANGED <<task, due, derailed, misled>> /\ SameStores
  BY SameIs DEF Decide, Drop, Dropped, Finish, Stays, OnlyLock, memory, history
<1>6. journal[c] \in Manifests BY <1>1 DEF TypeOK, RecordsOK
<1>7. /\ Wrote(c) /\ journal'[c].facts = journal[c].facts
      /\ journal'[c].state = IF Finish(c) THEN "committed" ELSE "commit_decided"
  <2>1. CASE Decide(c)
    <3>1. ~Finish(c) BY <2>1 DEF Decide, Finish
    <3> QED BY <1>1, <1>2, <2>1, <3>1, BecameIs DEF Decide, States
  <2>2. CASE Drop(c)
    <3>1. ~Finish(c) BY <2>2 DEF Drop, Finish
    <3>2. journal[c].state = "commit_decided" BY <1>4, <2>2 DEF Drop, StateAt, Committing
    <3> QED BY <1>2, <2>2, <3>1, <3>2, LeftIs DEF Drop
  <2>3. CASE Dropped(c)
    <3>1. ~Finish(c) BY <2>3 DEF Dropped, Finish
    <3>2. journal[c].state = "commit_decided" BY <1>4, <2>3 DEF Dropped, StateAt, Committing
    <3>3. CASE journal[c].dropped BY <1>2, <2>3, <3>1, <3>2, <3>3, LeftIs DEF Dropped
    <3>4. CASE ~journal[c].dropped
      <4> DEFINE m == [journal[c] EXCEPT !.dropped = TRUE]
      <4>1. m \in Manifests /\ m.state = journal[c].state /\ m.facts = journal[c].facts
        BY <1>6 DEF Manifests
      <4>2. Write(c, m) /\ Fresh(c) BY <1>2, <2>3, <3>4 DEF Dropped
      <4> HIDE DEF m
      <4>3. Wrote(c) /\ journal'[c] = m BY <1>1, <1>2, <4>1, <4>2, WroteIs
      <4> QED BY <3>1, <3>2, <4>1, <4>3
    <3> QED BY <3>3, <3>4
  <2>4. CASE Finish(c)
    BY <1>1, <1>2, <2>4, BecameIs DEF Finish, States
  <2> QED BY <2>1, <2>2, <2>3, <2>4
<1>8. Still(c) /\ IF Finish(c) THEN pos'[c].step = "over" ELSE pos'[c].step \in {"drop", "dropped", "finish"}
  <2>1. CASE Finish(c) BY <1>1, <2>1, OverIs DEF Finish
  <2>2. CASE ~Finish(c)
    <3>1. PICK s \in {"drop", "dropped", "finish"} : Goto(c, s) BY <2>2, Zenon DEF Decide, Drop, Dropped
    <3> QED BY <1>1, <1>2, <2>2, <3>1, GotoIs DEF CallSteps, Held
  <2> QED BY <2>1, <2>2
<1>9. pos'[c].step \in {"over"} \cup Deciding /\ pos'[c].step \notin Early \cup Sharing \cup Undoing \cup {"waiting"}
  BY <1>8 DEF Deciding, Early, Committing, Sharing, Undoing, Rolling
<1>10. pos'[c].step \in Held => journal'[c].state \in StateAt(pos'[c].step)
  BY <1>7, <1>8 DEF StateAt, Committing, Held
<1>11. Advances(c) BY <1>3, <1>9 DEF Advances
<1>12. journal[c].state \in Installed BY <1>3, <1>4 DEF StateAt, Committing, Installed, Deciding
<1>13. journal'[c].state \in Installed /\ journal'[c].state # "none" BY <1>7 DEF Installed, Pending
<1>14. journal'[c].facts = journal[c].facts /\ Wrote(c) /\ Still(c) BY <1>7, <1>8
<1>15. pos[c].step \in (Held \cup Undoing) \ {"inspect"} BY <1>3
<1>16. pos'[c].step \in Deciding \cup {"over"} /\ pos'[c].step \notin Undoing \cup {"waiting"} BY <1>9
<1>17. pos'[c].step \in Held => pos[c].step \in Held /\ journal'[c].state \in StateAt(pos'[c].step)
  BY <1>3, <1>10
<1> QED BY <1>1, <1>3, <1>5, <1>11, <1>12, <1>13, <1>14, <1>15, <1>16, <1>17, CallKeepsRecords

-----------------------------------------------------------------------------
(* A rollback, by a call or by the run.                                     *)

\* What a rollback does not touch.
LEMMA RollbackLeaves ==
    ASSUME MoveInv, NEW w \in Workers, RollbackStep(w)
    PROVE  /\ pos[w].step \in Undoing /\ Still(w) /\ pos'[w].step \in (Undoing \cap RunSteps) \ {"choose", "idle"}
           /\ UNCHANGED <<task, due, derailed, misled, lock>> /\ SameStores /\ Wrote(w)
           /\ On(w) \in Calls /\ On(w) \in Present
           /\ journal'[On(w)].facts = journal[On(w)].facts
           /\ pos[w].step # "conclude" /\ pos'[w].step \in Rolling \ {"rollback"}
           /\ pos[w].step = "rmdir" => pos'[w].step = "conclude"
           /\ \/ UNCHANGED <<journal, stale>> /\ (pos[w].step = "rollback" => pos[w].rolling)
              \/ /\ journal'[On(w)].state = "rolling_back" /\ pos[w].step = "rollback"
                 /\ Fresh(w) /\ ~pos[w].rolling
<1>1. /\ pos[w].step \in (Held \cup Undoing \cup RunSteps) \ {"inspect", "idle", "choose"} /\ pos[w].step \in Undoing
      /\ pos[w].step # "conclude"
  BY DEF RollbackStep, BeginRollback, Restage, Remove, Restore, Unstage, RemoveDirectory, Undoing, Rolling
<1>2. TypeOK /\ On(w) \in Calls /\ On(w) \in Present BY <1>1, AtHand
<1>3. Stays BY DEF RollbackStep, BeginRollback, Restage, Remove, Restore, Unstage, RemoveDirectory
<1>4. UNCHANGED <<task, due, derailed, misled, lock>> /\ SameStores BY <1>3, SameIs DEF Stays, memory, history
<1>5. CASE BeginRollback(w)
  <2>1. pos \in [Workers -> Positions] /\ pos[w] \in Positions BY <1>2 DEF TypeOK, MemoryOK
  <2>2. pos' = [pos EXCEPT ![w] = [pos[w] EXCEPT !.step = "restage", !.todo = Sources(On(w)), !.rolling = TRUE]]
    BY <1>5, <2>1 DEF BeginRollback
  <2>3. pos'[w].step = "restage" /\ Still(w) /\ pos[w].step = "rollback"
    BY <1>5, <2>1, <2>2 DEF BeginRollback, Still, Positions
  <2>4. CASE pos[w].rolling
    BY <1>1, <1>2, <1>4, <1>5, <2>3, <2>4, LeftIs DEF BeginRollback, Undoing, RunSteps, Rolling
  <2>5. CASE ~pos[w].rolling
    <3>1. Fresh(w) /\ Become(w, "rolling_back") /\ pos[w].step = "rollback" BY <1>5, <2>5 DEF BeginRollback
    <3>2. Wrote(w) /\ journal'[On(w)].state = "rolling_back" /\ journal'[On(w)].facts = journal[On(w)].facts
      BY <1>2, <3>1, BecameIs DEF States
    <3> QED BY <1>1, <1>2, <1>4, <2>3, <2>5, <3>1, <3>2 DEF Undoing, RunSteps, Rolling
  <2> QED BY <2>4, <2>5
<1>6. CASE Restage(w) \/ Remove(w) \/ Restore(w) \/ Unstage(w) \/ RemoveDirectory(w)
  <2>1. UNCHANGED <<journal, stale>> /\ pos[w].step # "rollback"
    BY <1>6 DEF Restage, Remove, Restore, Unstage, RemoveDirectory
  <2>2. Wrote(w) BY <2>1, LeftIs
  <2> DEFINE Next1 == {"restage", "remove", "restore", "unstage", "rmdir", "conclude"}
  <2>3. Next1 \subseteq CallSteps \cup RunSteps /\ Next1 \subseteq (Undoing \cap RunSteps) \ {"choose", "idle"}
        /\ Next1 = Rolling \ {"rollback"}
    BY DEF RunSteps, Rolling, Undoing
  <2>4. \/ (\E s, n \in Next1 : Done(w, s, n)) /\ pos[w].step # "rmdir"
        \/ UNCHANGED pos /\ pos[w].step \in Next1 \ {"rmdir"}
        \/ Goto(w, "conclude")
    <3>1. CASE Restage(w) BY <3>1 DEF Restage
    <3>2. CASE Remove(w) BY <3>2 DEF Remove
    <3>3. CASE Restore(w) /\ AtSource(w)
      <4>1. Done(w, "restore", "unstage") /\ pos[w].step # "rmdir" BY <3>3 DEF Restore
      <4> QED BY <4>1
    <3>4. CASE Restore(w) /\ ~AtSource(w) BY <3>4 DEF Restore
    <3>5. CASE Unstage(w) BY <3>5 DEF Unstage
    <3>6. CASE RemoveDirectory(w) BY <3>6 DEF RemoveDirectory
    <3> QED BY <1>6, <3>1, <3>2, <3>3, <3>4, <3>5, <3>6
  <2>5. Still(w) /\ pos'[w].step \in Next1 /\ (pos[w].step = "rmdir" => pos'[w].step = "conclude")
    <3>1. CASE (\E s, n \in Next1 : Done(w, s, n)) /\ pos[w].step # "rmdir"
      <4>1. PICK s \in Next1, n \in Next1 : Done(w, s, n) BY <3>1
      <4>2. s \in CallSteps \cup RunSteps /\ n \in CallSteps \cup RunSteps BY <2>3
      <4> HIDE DEF Next1
      <4>3. Still(w) /\ pos'[w].step \in {s, n} BY <1>2, <4>1, <4>2, DoneIs
      <4> QED BY <3>1, <4>3
    <3>2. CASE UNCHANGED pos /\ pos[w].step \in Next1 \ {"rmdir"} BY <3>2 DEF Still
    <3>3. CASE Goto(w, "conclude")
      <4>1. "conclude" \in Next1 OBVIOUS
      <4> QED BY <1>2, <2>3, <3>3, <4>1, GotoIs
    <3> QED BY <2>4, <3>1, <3>2, <3>3
  <2> HIDE DEF Next1
  <2> QED BY <1>1, <1>2, <1>4, <2>1, <2>2, <2>3, <2>5
<1> QED BY <1>5, <1>6 DEF RollbackStep

LEMMA CallRollbackRecords ==
    ASSUME MoveInv, MoveInv', RecordsInv, NEW c \in Calls, RollbackStep(c)
    PROVE  RecordsInv'
<1>1. BaseInv /\ BaseInv' BY DEF MoveInv
<1>2. c \in Workers /\ On(c) = c BY Constants DEF On
<1>3. /\ pos[c].step \in Undoing /\ Still(c) /\ pos'[c].step \in Undoing
      /\ UNCHANGED <<task, due, derailed, misled>> /\ SameStores /\ Wrote(c)
      /\ journal'[c].facts = journal[c].facts
      /\ UNCHANGED <<journal, stale>> \/ journal'[c].state = "rolling_back"
  BY <1>2, RollbackLeaves DEF Rolling
<1>4. pos[c].step \in (Held \cup Undoing) \ {"inspect"} /\ pos[c].step \notin Deciding \cup Held \cup Early \cup {"fact", "over"}
  BY <1>3 DEF Undoing, Rolling, Deciding, Held, Committing, Early
<1>5. pos'[c].step \notin Deciding \cup Held \cup Early \cup Sharing \cup {"waiting"}
  BY <1>3 DEF Undoing, Rolling, Deciding, Held, Committing, Early, Sharing
<1>6. ~Carried(c) BY <1>4 DEF Carried
<1>7. CASE UNCHANGED <<journal, stale>> BY <1>1, <1>3, <1>4, <1>6, <1>7, CallUndoes
<1>8. CASE journal'[c].state = "rolling_back"
  <2>1. journal'[c].state \notin Final \cup Installed \cup {"none", "commit_decided", "committed"}
    BY <1>8 DEF Final, Installed, Pending
  <2>2. Advances(c) BY <1>5 DEF Advances
  <2> QED BY <1>1, <1>3, <1>4, <1>5, <1>6, <1>8, <2>1, <2>2, CallKeepsRecords
<1> QED BY <1>3, <1>7, <1>8

LEMMA GiveUpSame ==
    ASSUME TypeOK, NEW c \in Calls, GiveUp(c), UNCHANGED audited
    PROVE  SameStores
<1>1. changeset \in [Calls -> {"none", "active", "undone", "recovery_required"}] BY DEF TypeOK, RecordsOK
<1>2. CASE UNCHANGED changeset BY <1>2 DEF SameStores
<1>3. CASE changeset' = [changeset EXCEPT ![c] = IF @ = "active" THEN "recovery_required" ELSE @]
  <2>1. \A d \in Calls : changeset'[d] = IF d = c /\ changeset[c] = "active" THEN "recovery_required" ELSE changeset[d]
    BY <1>1, <1>3
  <2>2. \A d \in Calls : \A s \in {"none", "undone"} : changeset'[d] = s <=> changeset[d] = s BY <1>1, <2>1
  <2> QED BY <2>2 DEF SameStores
<1> QED BY <1>2, <1>3 DEF GiveUp

LEMMA UnprovenRecords ==
    ASSUME MoveInv, MoveInv', RecordsInv, NEW c \in Calls, Unproven(c)
    PROVE  RecordsInv'
<1>1. BaseInv /\ BaseInv' /\ TypeOK BY DEF MoveInv, BaseInv
<1>2. pos[c].step = "unproven" /\ pos[c].step \in Undoing BY DEF Unproven, Undoing
<1>3. UNCHANGED <<task, due, derailed, misled, journal, stale>> /\ SameStores
  BY <1>1, GiveUpSame DEF Unproven, OnlyFaults, memory, history
<1>4. Still(c) /\ pos'[c].step = "rollback"
  BY <1>1, Constants, GotoIs DEF Unproven, RunSteps, Rolling
<1>5. ~Carried(c) /\ pos[c].step # "inspect" BY <1>2 DEF Carried, Deciding
<1> QED BY <1>1, <1>2, <1>3, <1>4, <1>5, CallUndoes DEF Undoing, Rolling

\* A rollback of a call that ends or fails.
LEMMA RollbackEndsRecords ==
    ASSUME MoveInv, MoveInv', RecordsInv, NEW c \in Calls, RollbackFails(c) \/ Conclude(c)
    PROVE  RecordsInv'
<1>1. BaseInv /\ BaseInv' /\ TypeOK BY DEF MoveInv, BaseInv
<1>2. c \in Workers /\ On(c) = c BY Constants DEF On
<1>3. pos[c].step \in Rolling BY DEF RollbackFails, Conclude, Rolling
<1>4. pos[c].step \in (Held \cup Undoing) \ {"inspect"} /\ pos[c].step \in Undoing
      /\ pos[c].step \notin Deciding \cup Held \cup Early \cup {"fact", "over"}
  BY <1>3 DEF Undoing, Rolling, Deciding, Held, Committing, Early
<1>5. UNCHANGED <<task, due, derailed, misled>> /\ SameStores
  BY SameIs DEF RollbackFails, Conclude, OnlyFaults, OnlyLock, history
<1>6. ~Carried(c) BY <1>4 DEF Carried
<1>7. c \in Present BY <1>1, <1>4 DEF BaseInv, OrderInv, Active
<1>8. CASE RollbackFails(c)
  <2>1. pos \in [Workers -> Positions] /\ pos[c] \in Positions BY <1>1, <1>2 DEF TypeOK, MemoryOK
  <2>2. Still(c) /\ pos'[c].step \in {"unproven", "over"}
    <3>1. CASE pos[c].tries > 1
      <4> DEFINE r == [step |-> "unproven", todo |-> {}, tries |-> 1, rolling |-> pos[c].rolling /\ ~Fresh(c)]
      <4>1. pos' = [pos EXCEPT ![c] = r] BY <1>8, <3>1 DEF RollbackFails
      <4>2. r.step = "unproven" OBVIOUS
      <4> HIDE DEF r
      <4> QED BY <1>2, <2>1, <4>1, <4>2 DEF Still
    <3>2. CASE ~(pos[c].tries > 1)
      <4>1. Over(c) BY <1>8, <3>2 DEF RollbackFails
      <4> QED BY <1>1, <4>1, OverIs
    <3> QED BY <3>1, <3>2
  <2>3. pos'[c].step \notin Deciding \cup Held \cup Early \cup Sharing \cup {"waiting"}
    BY <2>2 DEF Deciding, Held, Committing, Early, Sharing
  <2>4. CASE Fresh(c)
    <3>1. Wrote(c) /\ journal'[c].state = "recovery_required" /\ journal'[c].facts = journal[c].facts
      BY <1>1, <1>2, <1>8, <2>4, BecameIs DEF RollbackFails, States
    <3>2. journal'[c].state \notin Final \cup Installed \cup {"none", "commit_decided", "committed"}
      BY <3>1 DEF Final, Installed, Pending
    <3>3. Advances(c) BY <2>3 DEF Advances
    <3> QED BY <1>1, <1>4, <1>5, <1>6, <2>2, <2>3, <3>1, <3>2, <3>3, CallKeepsRecords
  <2>5. CASE ~Fresh(c)
    <3>1. UNCHANGED <<journal, stale>> BY <1>8, <2>5 DEF RollbackFails
    <3> QED BY <1>1, <1>4, <1>5, <1>6, <2>2, <3>1, CallUndoes DEF Undoing
  <2> QED BY <2>4, <2>5
<1>9. CASE Conclude(c)
  <2>1. Wrote(c) /\ journal'[c].state = "rolled_back" /\ journal'[c].facts = journal[c].facts
    BY <1>1, <1>2, <1>9, BecameIs DEF Conclude, States
  <2>2. Still(c) /\ pos'[c].step = "reconcile" BY <1>1, <1>2, <1>9, GotoIs DEF Conclude, CallSteps
  <2>3. pos'[c].step \notin Deciding \cup Held \cup Early \cup Sharing \cup Undoing \cup {"waiting"}
    BY <2>2 DEF Deciding, Held, Committing, Early, Sharing, Undoing, Rolling
  <2>4. journal'[c].state \notin Installed \cup {"none", "commit_decided", "committed"}
    BY <2>1 DEF Installed, Pending
  <2>5. Advances(c) BY <2>3 DEF Advances
  <2> QED BY <1>1, <1>4, <1>5, <1>6, <2>1, <2>2, <2>3, <2>4, <2>5, CallKeepsRecords
<1> QED BY <1>8, <1>9

\* The manifests are left alone, and nobody begins to work on one.
LEMMA RestKeepsRecords ==
    ASSUME BaseInv, BaseInv', RecordsInv, PhaseInv', RunFacts', UNCHANGED <<task, journal, derailed, misled>>, SameStores,
           \A d \in Calls : Advances(d),
           \A d \in Calls : Undone(d) /\ pos'[d].step \in Held \cup {"waiting"} =>
               pos[d].step \in Held \cup {"waiting"},
           \A d \in Calls : Carried(d) => pos'[d].step \in Deciding \cup {"over"} \/ pos'[d].step = pos[d].step
    PROVE  RecordsInv'
<1>1. TypeOK /\ StoreInv /\ UndoInv BY DEF BaseInv, RecordsInv
<1>2. SameFacts BY DEF SameFacts
<1>3. StoreInv' BY <1>1, <1>2, StoreStep
<1>4. \A d \in derailed' : journal'[d].state \in {"recovery_required", "rolling_back", "rolled_back"}
  BY <1>1 DEF UndoInv
<1>5. \A d \in Calls : Undone(d) /\ Standing(d) => journal'[d].state \in Installed \/ d \in derailed' \cup misled'
  BY DEF Standing, Installed
<1>6. \A d \in Calls : Undone(d) /\ Unended(d)' => Unended(d) BY DEF Unended
<1>7. \A d \in Calls : changeset'[d] = "undone" <=> changeset[d] = "undone" BY DEF SameStores
<1>8. UndoInv'
  <2> HIDE DEF Undone, Unended, Standing, Carried, FactIs
  <2> QED BY <1>1, <1>2, <1>4, <1>5, <1>6, <1>7, UndoStep
<1> QED BY <1>3, <1>8 DEF RecordsInv

LEMMA ReconcileRecords ==
    ASSUME MoveInv, MoveInv', RecordsInv, NEW c \in Calls, Reconcile(c)
    PROVE  RecordsInv'
<1>1. BaseInv /\ BaseInv' /\ TypeOK BY DEF MoveInv, BaseInv
<1>2. UNCHANGED <<task, due, derailed, misled, journal, stale>> /\ SameStores
  BY <1>1, GiveUpSame DEF Reconcile, OnlyFaults, memory, history
<1>3. Still(c) /\ pos'[c].step = "over" BY <1>1, OverIs DEF Reconcile
<1>4. pos'[c].step \notin Held \cup Undoing \cup Early \cup Deciding \cup Sharing \cup {"waiting"}
  BY <1>3 DEF Deciding, Held, Committing, Early, Sharing, Undoing, Rolling
<1>5. PhaseInv' BY <1>1, <1>2, <1>3, <1>4, CallRests DEF RecordsInv
<1>6. \A d \in Calls : d # c => pos'[d] = pos[d] BY <1>3, Constants DEF Still
<1>7. pos'[Recovery] = pos[Recovery] BY <1>3, Constants DEF Still
<1>8. RunFacts'
  <2>1. RunFacts BY DEF RecordsInv, StoreInv, RunFacts
  <2> QED BY <1>2, <1>7, <2>1 DEF RunFacts, Fresh, On, Current, Required, Participants, IsUndo, FactIs
<1>9. \A d \in Calls : Advances(d) BY <1>4, <1>6 DEF Advances
<1> QED BY <1>1, <1>2, <1>3, <1>4, <1>5, <1>6, <1>8, <1>9, RestKeepsRecords

-----------------------------------------------------------------------------
(* The planning of a call, and its participants.                            *)

\* The facts of a manifest are a function over its participants.
LEMMA FactsAre ==
    ASSUME TypeOK, StoreInv, NEW c \in Calls
    PROVE  journal[c].facts \in [Required(c) -> {"pending", "committed", "failed"}]
<1>1. journal[c] \in Manifests BY DEF TypeOK, RecordsOK
<1>2. PICK S : journal[c].facts \in [S -> {"pending", "committed", "failed"}] BY <1>1 DEF Manifests
<1>3. DOMAIN journal[c].facts = Required(c) BY DEF StoreInv, FactsAt
<1> QED BY <1>2, <1>3

\* A call that has planned, or given up before it wrote anything.
LEMMA InspectKeepsRecords ==
    ASSUME BaseInv, BaseInv', RecordsInv, NEW c \in Calls, pos[c].step = "inspect", Still(c),
           UNCHANGED <<task, stale, derailed, misled>>, SameStores, lock' # Recovery,
           \A d \in Calls \ {c} : journal'[d] = journal[d],
           journal'[c].facts = [i \in Required(c) |-> "pending"],
           \/ pos'[c].step = "over" /\ journal'[c].state \in {"none", "prepared", "preparing"}
           \/ pos'[c].step = "begin" /\ journal'[c].state = "prepared"
    PROVE  RecordsInv'
<1> USE Constants
<1>1. TypeOK /\ LockInv /\ OrderInv /\ LockInv' BY DEF BaseInv
<1>2. PhaseInv /\ StoreInv /\ UndoInv BY DEF RecordsInv
<1>3. \A v \in Workers \ {c} : pos'[v] = pos[v] BY DEF Still
<1>4. pos[c].step \in Held /\ pos[c].step \in Early /\ journal[c].state = "none" /\ lock = c
  BY <1>1 DEF Held, Early, OrderInv, LockInv
<1>5. pos[Recovery].step = "idle" BY <1>1, <1>4 DEF LockInv
<1>6. journal'[c].facts = journal[c].facts
  <2>1. journal[c].facts \in [Required(c) -> {"pending", "committed", "failed"}] BY <1>1, <1>2, FactsAre
  <2>2. \A i \in Required(c) : journal[c].facts[i] = "pending" BY <1>2, <1>4 DEF StoreInv, FactsAt, FactIs
  <2> QED BY <2>1, <2>2
<1>7. SameFacts BY <1>6 DEF SameFacts
<1>8. \A d \in Calls : d # c => pos'[d].step \notin Held BY <1>1, <1>3, <1>4 DEF LockInv
<1>9. \A d \in Present : d # c => journal[d].state \in Final BY <1>2, <1>4 DEF PhaseInv
<1>10. PhaseInv'
  <2>1. ASSUME pos'[c].step \in Held
        PROVE  /\ journal'[c].state \in StateAt(pos'[c].step)
               /\ \A d \in Present' : d # c => journal'[d].state \in Final
    <3>1. pos'[c].step = "begin" /\ journal'[c].state = "prepared" BY <2>1 DEF Held, Committing
    <3> QED BY <1>9, <3>1 DEF Present, StateAt
  <2>2. ASSUME NEW d \in Calls, pos'[d].step \in Undoing, journal'[d].state \in Final PROVE <<d, d>> \notin stale' => FALSE
    <3>1. d # c BY <2>2 DEF Undoing, Rolling
    <3> QED BY <1>2, <1>3, <2>2, <3>1 DEF PhaseInv, Fresh, On
  <2>3. \A d \in Calls : On(d)' = d BY DEF On
  <2> QED BY <1>8, <2>1, <2>2, <2>3 DEF PhaseInv, ScanInv, Fresh
<1>11. pos'[c].step \in {"over", "begin"} /\ pos'[c].step \notin Deciding \cup Sharing \cup {"waiting"}
  BY DEF Deciding, Sharing
<1>12. \A d \in Calls : Advances(d)
  <2>1. Advances(c) BY <1>4, <1>11 DEF Advances
  <2> QED BY <1>3, <2>1 DEF Advances
<1>13. RunFacts' BY <1>3, <1>5 DEF RunFacts
<1>14. \A d \in Calls : journal'[d].state \in {"commit_decided", "committed"} =>
          journal[d].state \in {"commit_decided", "committed"} \/ AllFacts(d)
  OBVIOUS
<1>15. StoreInv' BY <1>1, <1>2, <1>7, <1>12, <1>13, <1>14, StoreStep
<1>16. \A d \in derailed' : journal'[d].state \in {"recovery_required", "rolling_back", "rolled_back"}
  <2>1. derailed \subseteq Calls BY <1>1 DEF TypeOK, HistoryOK
  <2> QED BY <1>2, <1>4, <2>1 DEF UndoInv
<1>17. ~Standing(c) /\ ~Carried(c) BY <1>4 DEF Standing, Carried, Pending
<1>18. \A d \in Calls : Undone(d) /\ Standing(d) => journal'[d].state \in Installed \/ d \in derailed' \cup misled'
  BY <1>17 DEF Standing, Installed
<1>19. \A d \in Calls : journal'[d].state \in Installed =>
               journal[d].state \in Installed \/ FactIs(d, "change_set", "pending")
  BY DEF Installed, Pending
<1>20. \A d \in Calls : Undone(d) /\ Unended(d)' => Unended(d)
  <2>1. Unended(c) BY <1>4 DEF Unended
  <2>2. \A d \in Calls : d # c => (Unended(d)' => Unended(d)) BY <1>3 DEF Unended
  <2> HIDE DEF Unended
  <2> QED BY <2>1, <2>2
<1>21. \A d \in Calls : Carried(d) => pos'[d].step \in Deciding \cup {"over"} \/ pos'[d].step = pos[d].step
  BY <1>3, <1>17
<1>22. \A d \in Calls : changeset'[d] = "undone" <=> changeset[d] = "undone" BY DEF SameStores
<1>23. UndoInv'
  <2> HIDE DEF Undone, Unended, Standing, Carried, FactIs
  <2> HIDE DEF Advances
  <2> QED BY <1>1, <1>2, <1>7, <1>12, <1>16, <1>18, <1>19, <1>20, <1>21, <1>22, UndoStep
<1> QED BY <1>10, <1>15, <1>23 DEF RecordsInv

LEMMA PrepareRecords ==
    ASSUME MoveInv, MoveInv', RecordsInv, NEW c \in Calls, Prepare(c) \/ PrepareFails(c)
    PROVE  RecordsInv'
<1>1. BaseInv /\ BaseInv' /\ TypeOK /\ StoreInv BY DEF MoveInv, BaseInv, RecordsInv
<1>2. c \in Workers /\ None # Recovery /\ c # Recovery BY Constants
<1>3. pos[c].step = "inspect" BY DEF Prepare, PrepareFails
<1>4. lock = c BY <1>1, <1>3 DEF BaseInv, LockInv, Held
<1>5. lock' # Recovery BY <1>2, <1>4 DEF Prepare, PrepareFails, memory, Release
<1>6. UNCHANGED <<task, stale, derailed, misled>> /\ SameStores
  BY SameIs DEF Prepare, PrepareFails, memory, history, OnlyLock
<1>7. \A st \in {"prepared", "preparing"} : Planned(c, st).facts = [i \in Required(c) |-> "pending"]
  BY DEF Planned, NoManifest
<1>8. ASSUME NEW st \in {"prepared", "preparing"}, Fits(c), Journaled(c, st)
      PROVE  /\ \A d \in Calls \ {c} : journal'[d] = journal[d]
             /\ journal'[c].facts = [i \in Required(c) |-> "pending"]
             /\ journal'[c].state = st
  <2>1. /\ \A d \in Calls \ {c} : journal'[d] = journal[d] /\ journal'[c].state = st
    BY <1>3, <1>8, PlannedIs
  <2>2. journal' = [journal EXCEPT ![c] = Planned(c, st)] BY <1>8 DEF Journaled
  <2>3. journal'[c] = Planned(c, st) BY <1>1, <2>2 DEF TypeOK, RecordsOK
  <2> QED BY <1>3, <1>7, <1>8, <2>3, PlannedIs
<1>9. CASE Prepare(c)
  <2>1. Fits(c) /\ Journaled(c, "prepared") BY <1>9 DEF Prepare
  <2>2. Still(c) /\ pos'[c].step \in {"begin", "over"}
    <3>1. CASE SameObjects(c) BY <1>1, <1>2, <1>9, <3>1, GotoIs DEF Prepare, CallSteps, Held, Committing
    <3>2. CASE ~SameObjects(c) BY <1>1, <1>9, <3>2, OverIs DEF Prepare
    <3> QED BY <3>1, <3>2
  <2> QED BY <1>1, <1>3, <1>5, <1>6, <1>8, <2>1, <2>2, InspectKeepsRecords
<1>10. CASE PrepareFails(c)
  <2>1. Still(c) /\ pos'[c].step = "over" BY <1>1, <1>10, OverIs DEF PrepareFails
  <2>2. CASE UNCHANGED journal
    <3>1. journal[c].state = "none" BY <1>1, <1>3 DEF BaseInv, OrderInv
    <3>2. journal[c].facts = [i \in Required(c) |-> "pending"]
      <4>1. journal[c].facts \in [Required(c) -> {"pending", "committed", "failed"}] BY <1>1, FactsAre
      <4>2. \A i \in Required(c) : journal[c].facts[i] = "pending"
        BY <1>1, <1>3 DEF StoreInv, FactsAt, FactIs, Early
      <4> QED BY <4>1, <4>2
    <3> QED BY <1>1, <1>3, <1>5, <1>6, <2>1, <2>2, <3>1, <3>2, InspectKeepsRecords
  <2>3. CASE Fits(c) /\ Journaled(c, "preparing")
    BY <1>1, <1>3, <1>5, <1>6, <1>8, <2>1, <2>3, InspectKeepsRecords
  <2> QED BY <1>10, <2>2, <2>3 DEF PrepareFails
<1> QED BY <1>9, <1>10

\* What the run knows of the participants of the manifest it is on.
LEMMA CallRunFacts ==
    ASSUME BaseInv, StoreInv, NEW c \in Calls, Still(c), UNCHANGED <<task, due>>, Wrote(c)
    PROVE  RunFacts'
<1> USE Constants
<1>1. TypeOK /\ LockInv /\ TodoInv BY DEF BaseInv
<1>2. SUFFICES ASSUME pos'[Recovery].step \notin {"idle", "choose"}, Fresh(Recovery)'
               PROVE  RunFacts'
  BY DEF RunFacts
<1>3. pos'[Recovery] = pos[Recovery] /\ Current' = Current BY DEF Current, Still
<1>4. Current \in Calls /\ On(Recovery) = Current /\ On(Recovery)' = Current /\ On(c) = c
  BY <1>1, <1>2, <1>3, OnIs DEF On, Current
<1>5. journal' = journal \/ Current # c
  <2> SUFFICES ASSUME Current = c, journal' # journal PROVE FALSE OBVIOUS
  <2>1. stale' = stale \cup ((Readers(c) \ {c}) \X {c}) BY <1>4 DEF Wrote
  <2>2. Recovery \in Readers(c) BY <1>1, <1>2, <1>3 DEF Readers, LockInv, RunSteps, Rolling
  <2> QED BY <1>2, <1>4, <2>1, <2>2 DEF Fresh
<1>6. journal'[Current] = journal[Current] BY <1>4, <1>5 DEF Wrote
<1>7. Fresh(Recovery) BY <1>2, <1>4 DEF Fresh, Wrote
<1>8. RunFacts BY DEF StoreInv, RunFacts
<1>9. Required(Current)' = Required(Current) BY <1>3 DEF Required, Participants, IsUndo
<1> QED BY <1>2, <1>3, <1>6, <1>7, <1>8, <1>9 DEF RunFacts, FactIs

\* What the invariant says of a call depends on its manifest, its position and
\* the stores.
LEMMA FactsStay ==
    ASSUME TypeOK, NEW d \in Calls, FactsAt(d), task' = task, journal'[d] = journal[d], pos'[d] = pos[d],
           audited \subseteq audited', (changeset'[d] = "none") <=> (changeset[d] = "none"),
           IsUndo(d) /\ changeset[Original(d)] = "undone" => changeset'[Original(d)] = "undone"
    PROVE  FactsAt(d)'
<1>1. Required(d)' = Required(d) /\ Turn(d)' = Turn(d) /\ IsUndo(d)' = IsUndo(d) /\ Original(d)' = Original(d)
  BY DEF Required, Turn, Participants, IsUndo, Original
<1>2. \A i, f : FactIs(d, i, f)' <=> FactIs(d, i, f) BY DEF FactIs
<1>3. \A i \in Required(d) : Effected(d, i) => Effected(d, i)'
  BY <1>1, OriginalIs DEF Effected
<1>4. pos[d].step = "fact" => Turn(d) \in Required(d) BY TurnIs DEF FactsAt, Sharing
<1> HIDE DEF Effected, FactIs
<1> QED BY <1>1, <1>2, <1>3, <1>4 DEF FactsAt

\* The same for a call that reverts a change set which is not undone.
LEMMA UndoOthers ==
    ASSUME TypeOK, UndoInv, NEW c \in Calls, ~Undone(c), c \notin derailed,
           UNCHANGED <<task, derailed, misled>>,
           \A d \in Calls \ {c} : journal'[d] = journal[d] /\ pos'[d] = pos[d],
           \A d \in Calls : changeset'[d] = "undone" <=> changeset[d] = "undone"
    PROVE  UndoInv'
<1>1. \A d \in Calls : (Undone(d)' <=> Undone(d)) /\ Original(d)' = Original(d)
  <2> SUFFICES ASSUME NEW d \in Calls PROVE (Undone(d)' <=> Undone(d)) /\ Original(d)' = Original(d) OBVIOUS
  <2>1. IsUndo(d)' <=> IsUndo(d) BY DEF IsUndo
  <2>2. Original(d)' = Original(d) BY DEF Original
  <2> QED BY <2>1, <2>2, OriginalIs DEF Undone
<1>2. \A d \in Calls : d # c => /\ Standing(d)' <=> Standing(d)
                                /\ Unended(d)' <=> Unended(d)
                                /\ Carried(d)' <=> Carried(d)
  <2> SUFFICES ASSUME NEW d \in Calls, d # c
               PROVE  /\ Standing(d)' <=> Standing(d)
                      /\ Unended(d)' <=> Unended(d)
                      /\ Carried(d)' <=> Carried(d)
    OBVIOUS
  <2>1. journal'[d] = journal[d] /\ pos'[d] = pos[d] OBVIOUS
  <2>2. Standing(d)' <=> Standing(d) BY <2>1 DEF Standing, FactIs
  <2>3. Unended(d)' <=> Unended(d) BY <2>1 DEF Unended
  <2>4. Turn(d)' = Turn(d) BY <2>1 DEF Turn, Participants, IsUndo
  <2> QED BY <2>1, <2>2, <2>3, <2>4 DEF Carried
<1>8. \A d \in Calls : d # c => (Ending(d)' <=> Ending(d)) BY <1>2 DEF Ending
<1>3. \A d \in Calls : changeset[d] = "undone" =>
         \E e \in Calls : e # c /\ Original(e) = d /\ (Ending(e) \/ e \in derailed)
  <2> SUFFICES ASSUME NEW d \in Calls, changeset[d] = "undone"
               PROVE  \E e \in Calls : e # c /\ Original(e) = d /\ (Ending(e) \/ e \in derailed)
    OBVIOUS
  <2>1. PICK e \in Calls : Original(e) = d /\ (Ending(e) \/ e \in derailed) BY DEF UndoInv
  <2>2. Undone(e) BY <2>1, MoveAssumption DEF Undone, IsUndo, Original
  <2> QED BY <2>1, <2>2
<1>4. \A d \in derailed' : journal'[d].state \in {"recovery_required", "rolling_back", "rolled_back"}
  <2>1. derailed \subseteq Calls BY DEF TypeOK, HistoryOK
  <2> QED BY <2>1 DEF UndoInv
<1>5. \A d \in Calls : Undone(d)' /\ Unended(d)' => Carried(d)' \/ d \in derailed' \cup misled' BY <1>1, <1>2 DEF UndoInv
<1>6. \A d, e \in Calls :
         Undone(d)' /\ Undone(e)' /\ Ending(d)' /\ Ending(e)' /\ Original(d)' = Original(e)' => d = e
  BY <1>1, <1>8 DEF UndoInv
<1>7. \A d \in Calls : changeset'[d] = "undone" =>
         \E e \in Calls : Original(e)' = d /\ (Ending(e)' \/ e \in derailed')
  BY <1>1, <1>3, <1>8
<1>9. \A d \in misled' : Undone(d)' /\ pos'[d].step \notin Early \cup Deciding \cup {"effect", "fact"}
  <2>1. misled \subseteq Calls /\ c \notin misled BY DEF TypeOK, HistoryOK, UndoInv
  <2> QED BY <1>1, <2>1 DEF UndoInv
<1> QED BY <1>4, <1>5, <1>6, <1>7, <1>9 DEF UndoInv

\* An undo that stands goes on to do so, and one that is misled stays so.
LEMMA UndoStands ==
    ASSUME TypeOK, UndoInv, NEW c \in Calls, Ending(c), Ending(c)', Carried(c)' \/ c \in misled,
           UNCHANGED <<task, derailed, misled>>, c \notin derailed,
           c \in misled => pos'[c].step \notin Early \cup Deciding \cup {"effect", "fact"},
           \A d \in Calls \ {c} : journal'[d] = journal[d] /\ pos'[d] = pos[d],
           \A d \in Calls : changeset'[d] = "undone" <=> changeset[d] = "undone"
    PROVE  UndoInv'
<1>1. \A d \in Calls : (Undone(d)' <=> Undone(d)) /\ Original(d)' = Original(d)
  <2> SUFFICES ASSUME NEW d \in Calls PROVE (Undone(d)' <=> Undone(d)) /\ Original(d)' = Original(d) OBVIOUS
  <2>1. IsUndo(d)' <=> IsUndo(d) BY DEF IsUndo
  <2>2. Original(d)' = Original(d) BY DEF Original
  <2> QED BY <2>1, <2>2, OriginalIs DEF Undone
<1>2. \A d \in Calls : d # c => /\ Standing(d)' <=> Standing(d)
                                /\ Unended(d)' <=> Unended(d)
                                /\ Carried(d)' <=> Carried(d)
  <2> SUFFICES ASSUME NEW d \in Calls, d # c
               PROVE  /\ Standing(d)' <=> Standing(d)
                      /\ Unended(d)' <=> Unended(d)
                      /\ Carried(d)' <=> Carried(d)
    OBVIOUS
  <2>1. journal'[d] = journal[d] /\ pos'[d] = pos[d] OBVIOUS
  <2>2. Standing(d)' <=> Standing(d) BY <2>1 DEF Standing, FactIs
  <2>3. Unended(d)' <=> Unended(d) BY <2>1 DEF Unended
  <2>4. Turn(d)' = Turn(d) BY <2>1 DEF Turn, Participants, IsUndo
  <2> QED BY <2>1, <2>2, <2>3, <2>4 DEF Carried
<1>3. \A d \in Calls : Ending(d)' <=> Ending(d) BY <1>2 DEF Ending
<1>4. \A d \in derailed' : journal'[d].state \in {"recovery_required", "rolling_back", "rolled_back"}
  <2>1. derailed \subseteq Calls BY DEF TypeOK, HistoryOK
  <2> QED BY <2>1 DEF UndoInv
<1>5. \A d \in Calls : Undone(d)' /\ Unended(d)' => Carried(d)' \/ d \in derailed' \cup misled' BY <1>1, <1>2 DEF UndoInv
<1>6. \A d, e \in Calls :
         Undone(d)' /\ Undone(e)' /\ Ending(d)' /\ Ending(e)' /\ Original(d)' = Original(e)' => d = e
  BY <1>1, <1>3 DEF UndoInv
<1>7. \A d \in Calls : changeset'[d] = "undone" =>
         \E e \in Calls : Original(e)' = d /\ (Ending(e)' \/ e \in derailed')
  <2> HIDE DEF Ending
  <2> QED BY <1>1, <1>3 DEF UndoInv
<1>8. \A d \in misled' : Undone(d)' /\ pos'[d].step \notin Early \cup Deciding \cup {"effect", "fact"}
  <2>1. misled \subseteq Calls BY DEF TypeOK, HistoryOK
  <2> QED BY <1>1, <2>1 DEF UndoInv
<1> QED BY <1>4, <1>5, <1>6, <1>7, <1>8 DEF UndoInv

\* A call that shares its outcome, and is not about to record the last part of
\* it, has not ended the change set it reverts, or is misled about it.
LEMMA NotYetUndone ==
    ASSUME BaseInv, RecordsInv, NEW c \in Calls, pos[c].step \in Sharing,
           pos[c].step = "fact" => Turn(c) # "original_change_set"
    PROVE  /\ c \notin derailed /\ journal[c].state = Pending
           /\ c \notin misled => ~Undone(c)
           /\ pos[c].step # "failed" => c \notin misled
<1>1. pos[c].step \in Held BY DEF Sharing, Held
<1>2. journal[c].state = Pending BY <1>1 DEF RecordsInv, PhaseInv, StateAt, Sharing, Committing
<1>3. c \notin derailed BY <1>2 DEF RecordsInv, UndoInv, Pending
<1>4. Unended(c) BY <1>1 DEF Unended
<1>5. ~Carried(c) BY DEF Carried, Sharing, Deciding
<1>6. c \notin misled => ~Undone(c) BY <1>3, <1>4, <1>5 DEF RecordsInv, UndoInv
<1>7. pos[c].step # "failed" => c \notin misled BY DEF RecordsInv, UndoInv, Sharing
<1> QED BY <1>2, <1>3, <1>6, <1>7

LEMMA FactIsSet ==
    ASSUME MoveInv, RecordsInv, NEW c \in Calls, pos[c].step \in Sharing,
           NEW fact \in {"committed", "failed"}, SetFact(c, fact), Fresh(c)
    PROVE  /\ Wrote(c) /\ journal'[c].state = journal[c].state
           /\ DOMAIN journal'[c].facts = Required(c)
           /\ Turn(c) \in Required(c) /\ FactIs(c, Turn(c), "pending")
           /\ journal'[c].facts[Turn(c)] = fact
           /\ \A i \in Required(c) \ {Turn(c)} : journal'[c].facts[i] = journal[c].facts[i]
<1>1. TypeOK /\ StoreInv BY DEF MoveInv, BaseInv, RecordsInv
<1>2. c \in Workers /\ On(c) = c /\ pos[c].step \in Held \ {"inspect"} BY Constants DEF On, Sharing, Held
<1>3. \E i \in Required(c) : FactIs(c, i, "pending") BY <1>1 DEF StoreInv, FactsAt
<1>4. Turn(c) \in Required(c) /\ FactIs(c, Turn(c), "pending") BY <1>1, <1>3, TurnIs
<1>5. journal[c].facts \in [Required(c) -> {"pending", "committed", "failed"}] BY <1>1, FactsAre
<1>6. journal[c] \in Manifests BY <1>1 DEF TypeOK, RecordsOK
<1> DEFINE facts == [journal[c].facts EXCEPT ![Turn(c)] = fact]
           m == [journal[c] EXCEPT !.facts = facts]
<1>7. Write(c, m) BY DEF SetFact
<1>8. /\ DOMAIN facts = Required(c) /\ facts[Turn(c)] = fact
      /\ \A i \in Required(c) \ {Turn(c)} : facts[i] = journal[c].facts[i]
  BY <1>4, <1>5
<1> HIDE DEF facts
<1>9. m.state = journal[c].state /\ m.facts = facts BY <1>6 DEF Manifests
<1>10. journal' = [journal EXCEPT ![c] = m] /\ stale' = stale \cup ((Readers(c) \ {c}) \X {c})
  BY <1>2, <1>7 DEF Write
<1> HIDE DEF m
<1>11. journal'[c] = m /\ \A d \in Calls : d # c => journal'[d] = journal[d]
  BY <1>1, <1>10 DEF TypeOK, RecordsOK
<1>12. Wrote(c) BY <1>2, <1>10, <1>11 DEF Wrote
<1> QED BY <1>4, <1>8, <1>9, <1>11, <1>12

LEMMA FailedRecords ==
    ASSUME MoveInv, MoveInv', RecordsInv, NEW c \in Calls, Failed(c)
    PROVE  RecordsInv'
<1>1. BaseInv /\ BaseInv' /\ TypeOK /\ PhaseInv /\ StoreInv /\ UndoInv BY DEF MoveInv, BaseInv, RecordsInv
<1>2. c \in Workers /\ On(c) = c /\ On(c)' = c BY Constants DEF On
<1>3. pos[c].step \in Sharing /\ pos[c].step = "failed" /\ pos[c].step \in (Held \cup Undoing) \ {"inspect"}
  BY DEF Failed, Sharing, Held
<1>4. c \notin derailed /\ journal[c].state = Pending /\ (c \notin misled => ~Undone(c))
  BY <1>1, <1>3, NotYetUndone
<1>5. /\ Wrote(c) /\ journal'[c].state = journal[c].state
      /\ DOMAIN journal'[c].facts = Required(c)
      /\ journal'[c].facts[Turn(c)] = "failed"
      /\ \A i \in Required(c) \ {Turn(c)} : journal'[c].facts[i] = journal[c].facts[i]
  BY <1>3, FactIsSet DEF Failed
<1>6. UNCHANGED <<task, due, derailed, misled, changeset, audited>> BY DEF Failed, Stays, memory, history, records
<1>7. Still(c) /\ pos'[c].step = "rollback"
  <2>1. pos \in [Workers -> Positions] /\ pos[c] \in Positions BY <1>1, <1>2 DEF TypeOK, MemoryOK
  <2>2. pos' = [pos EXCEPT ![c] = [pos[c] EXCEPT !.step = "rollback", !.tries = 2]] BY <2>1 DEF Failed
  <2> QED BY <1>2, <2>1, <2>2 DEF Still, Positions
<1>8. pos'[c].step \notin Held \cup Deciding \cup Early \cup Sharing
  BY <1>7 DEF Held, Committing, Deciding, Early, Sharing
<1>9. journal'[c].state \notin Final \cup {"none", "commit_decided", "committed"} BY <1>4, <1>5 DEF Final, Pending
<1>10. PhaseInv' BY <1>1, <1>2, <1>3, <1>5, <1>6, <1>7, <1>8, <1>9, CallPhases
<1>11. \A d \in Calls \ {c} : journal'[d] = journal[d] /\ pos'[d] = pos[d]
  BY <1>2, <1>5, <1>7, Constants DEF Wrote, Still
<1>12. UndoInv'
  <2>1. CASE c \notin misled BY <1>1, <1>4, <1>6, <1>11, <2>1, UndoOthers
  <2>2. CASE c \in misled
    <3>1. Ending(c) /\ Ending(c)' BY <1>6, <2>2 DEF Ending
    <3>2. pos'[c].step \notin Early \cup Deciding \cup {"effect", "fact"} BY <1>7, <1>8
    <3> QED BY <1>1, <1>4, <1>6, <1>11, <2>2, <3>1, <3>2, UndoStands
  <2> QED BY <2>1, <2>2
<1>13. RunFacts' BY <1>1, <1>5, <1>6, <1>7, CallRunFacts
<1>14. FactsAt(c)'
  <2>1. FactsAt(c) BY <1>1 DEF StoreInv
  <2>2. Required(c)' = Required(c) BY <1>6 DEF Required, Participants, IsUndo
  <2>3. \A i \in Required(c) : FactIs(c, i, "committed")' => FactIs(c, i, "committed")
    BY <1>5 DEF FactIs
  <2>4. \A i \in Required(c) : Effected(c, i)' <=> Effected(c, i) BY <1>6 DEF Effected, Original
  <2> HIDE DEF Effected, FactIs
  <2> QED BY <1>5, <1>8, <1>9, <2>1, <2>2, <2>3, <2>4 DEF FactsAt
<1>15. \A d \in Calls : d # c => FactsAt(d)' BY <1>1, <1>6, <1>11, FactsStay DEF StoreInv
<1>16. StoreInv' BY <1>13, <1>14, <1>15 DEF StoreInv, RunFacts
<1> QED BY <1>10, <1>12, <1>16 DEF RecordsInv

LEMMA FactRecords ==
    ASSUME MoveInv, MoveInv', RecordsInv, NEW c \in Calls, Fact(c)
    PROVE  RecordsInv'
<1>1. BaseInv /\ BaseInv' /\ TypeOK /\ PhaseInv /\ StoreInv /\ UndoInv BY DEF MoveInv, BaseInv, RecordsInv
<1>2. c \in Workers /\ On(c) = c /\ On(c)' = c BY Constants DEF On
<1>3. pos[c].step \in Sharing /\ pos[c].step = "fact" /\ pos[c].step \in (Held \cup Undoing) \ {"inspect"}
      /\ pos[c].step \in Held
  BY DEF Fact, Sharing, Held
<1>4. journal[c].state = Pending BY <1>1, <1>3 DEF PhaseInv, StateAt, Committing
<1>5. /\ Wrote(c) /\ journal'[c].state = journal[c].state
      /\ DOMAIN journal'[c].facts = Required(c)
      /\ Turn(c) \in Required(c) /\ FactIs(c, Turn(c), "pending")
      /\ journal'[c].facts[Turn(c)] = "committed"
      /\ \A i \in Required(c) \ {Turn(c)} : journal'[c].facts[i] = journal[c].facts[i]
  BY <1>3, FactIsSet DEF Fact
<1>6. UNCHANGED <<task, due, derailed, misled, changeset, audited>> BY DEF Fact, Stays, memory, history, records
<1> DEFINE last == Participants(c)[Len(Participants(c))]
<1>7. Still(c) /\ pos'[c].step = IF Turn(c) = last THEN "decide" ELSE "effect"
  BY <1>1, <1>2, GotoIs DEF Fact, CallSteps, Held
<1>8. last = IF IsUndo(c) THEN "original_change_set" ELSE "audit"
  <2>1. CASE IsUndo(c)
    <3>1. Participants(c) = <<"change_set", "audit", "original_change_set">> BY <2>1 DEF Participants
    <3> QED BY <2>1, <3>1
  <2>2. CASE ~IsUndo(c)
    <3>1. Participants(c) = <<"change_set", "audit">> BY <2>2 DEF Participants
    <3> QED BY <2>2, <3>1
  <2> QED BY <2>1, <2>2
<1> HIDE DEF last
<1>9. pos'[c].step \in {"decide", "effect"} /\ pos'[c].step \notin Early \cup Undoing \cup {"over"}
  BY <1>7 DEF Committing, Early, Undoing, Rolling
<1>10. journal'[c].state \notin Final \cup {"none", "commit_decided", "committed"} BY <1>4, <1>5 DEF Final, Pending
<1>11. journal'[c].state \in StateAt(pos'[c].step) BY <1>4, <1>5, <1>9 DEF StateAt, Committing
<1>12. PhaseInv' BY <1>1, <1>2, <1>3, <1>5, <1>6, <1>7, <1>9, <1>10, <1>11, CallPhases
<1>13. \A d \in Calls \ {c} : journal'[d] = journal[d] /\ pos'[d] = pos[d]
  BY <1>2, <1>5, <1>7, Constants DEF Wrote, Still
<1>14. FactsAt(c) /\ Required(c)' = Required(c) /\ (IsUndo(c)' <=> IsUndo(c)) /\ Original(c)' = Original(c)
  BY <1>1, <1>6 DEF StoreInv, Required, Participants, IsUndo, Original
<1>15. /\ \A i \in Required(c) : ~FactIs(c, i, "failed")
       /\ FactIs(c, "audit", "committed") => FactIs(c, "change_set", "committed")
       /\ IsUndo(c) => FactIs(c, "original_change_set", "pending")
       /\ Effected(c, Turn(c))
  BY <1>3, <1>14 DEF FactsAt
<1>16. \A i \in Required(c) : FactIs(c, i, "pending") \/ FactIs(c, i, "committed")
  <2>1. journal[c].facts \in [Required(c) -> {"pending", "committed", "failed"}] BY <1>1, FactsAre
  <2> QED BY <1>15, <2>1 DEF FactIs
<1>17. /\ IsUndo(c) => Original(c) \in Calls
       /\ IsUndo(c) <=> "original_change_set" \in Required(c)
       /\ {"change_set", "audit"} \subseteq Required(c)
       /\ Required(c) \subseteq {"change_set", "audit", "original_change_set"}
       /\ FactIs(c, "change_set", "pending") => Turn(c) = "change_set"
       /\ FactIs(c, "audit", "pending") => Turn(c) \in {"change_set", "audit"}
  BY <1>1, <1>5, OriginalIs, TurnIs
<1>25. PICK t \in Required(c) : t = Turn(c) BY <1>5
<1>18. /\ FactIs(c, t, "committed")' /\ ~FactIs(c, t, "pending")' /\ ~FactIs(c, t, "failed")'
       /\ \A i \in Required(c) \ {t} : \A f : FactIs(c, i, f)' <=> FactIs(c, i, f)
  BY <1>5, <1>25 DEF FactIs
<1>19. \A i \in Required(c) : Effected(c, i)' <=> Effected(c, i) BY <1>6 DEF Effected, Original
<1>20. FactsAt(c)'
  <2>1. \A i \in Required(c) : FactIs(c, i, "committed")' => Effected(c, i)'
    <3> HIDE DEF Effected, FactIs
    <3> QED BY <1>14, <1>15, <1>18, <1>19, <1>25 DEF FactsAt
  <2>2. CASE pos'[c].step = "decide"
    <3>1. \A i \in Required(c) : i = t \/ FactIs(c, i, "committed")
      <4>1. Turn(c) = IF IsUndo(c) THEN "original_change_set" ELSE "audit" BY <1>7, <1>8, <2>2
      <4> QED BY <1>15, <1>16, <1>17, <1>25, <4>1
    <3>2. \A i \in Required(c) : FactIs(c, i, "committed")' BY <1>18, <3>1
    <3> HIDE DEF Effected, FactIs
    <3> QED BY <1>5, <1>9, <1>14, <2>1, <2>2, <3>2 DEF FactsAt, Deciding, Sharing
  <2>3. CASE pos'[c].step = "effect"
    <3>1. Turn(c) # (IF IsUndo(c) THEN "original_change_set" ELSE "audit") BY <1>7, <1>8, <2>3
    <3>2. pos'[c].step \notin Deciding \cup {"fact"} BY <2>3 DEF Deciding
    <3>3. \A i \in Required(c) : ~FactIs(c, i, "failed")'
      <4> HIDE DEF FactIs
      <4> QED BY <1>15, <1>18
    <3>4. IsUndo(c) => FactIs(c, "original_change_set", "pending")' BY <1>15, <1>17, <1>18, <1>25, <3>1
    <3>5. \E i \in Required(c) : FactIs(c, i, "pending")'
      <4>1. CASE IsUndo(c) BY <1>17, <3>4, <4>1
      <4>2. CASE ~IsUndo(c)
        <5>1. Turn(c) = "change_set" BY <1>5, <1>17, <3>1, <4>2
        <5>2. ~FactIs(c, "audit", "committed") BY <1>5, <1>15, <5>1 DEF FactIs
        <5>3. FactIs(c, "audit", "pending")' BY <1>16, <1>17, <1>18, <1>25, <5>1, <5>2
        <5> QED BY <1>17, <5>3
      <4> QED BY <4>1, <4>2
    <3>6. FactIs(c, "audit", "committed")' => FactIs(c, "change_set", "committed")'
      <4>1. CASE Turn(c) = "change_set" BY <1>18, <1>25, <4>1
      <4>2. CASE Turn(c) # "change_set"
        <5>1. ~FactIs(c, "change_set", "pending") BY <1>17, <4>2
        <5>2. FactIs(c, "change_set", "committed") BY <1>16, <1>17, <5>1
        <5> QED BY <1>17, <1>18, <1>25, <4>2, <5>2
      <4> QED BY <4>1, <4>2
    <3>7. ~FactIs(c, "change_set", "pending")'
      <4>1. CASE Turn(c) = "change_set" BY <1>18, <1>25, <4>1
      <4>2. CASE Turn(c) # "change_set" BY <1>17, <1>18, <1>25, <4>2
      <4> QED BY <4>1, <4>2
    <3> HIDE DEF Effected, FactIs
    <3> QED BY <1>5, <1>9, <1>10, <1>14, <2>1, <3>2, <3>3, <3>4, <3>5, <3>6, <3>7 DEF FactsAt
  <2> QED BY <1>9, <2>2, <2>3
<1>21. \A d \in Calls : d # c => FactsAt(d)' BY <1>1, <1>6, <1>13, FactsStay DEF StoreInv
<1>22. RunFacts' BY <1>1, <1>5, <1>6, <1>7, CallRunFacts
<1>23. StoreInv' BY <1>20, <1>21, <1>22 DEF StoreInv, RunFacts
<1>24. UndoInv'
  <2>1. CASE Turn(c) # "original_change_set"
    <3>1. ~Undone(c) /\ c \notin derailed BY <1>1, <1>3, <2>1, NotYetUndone
    <3> QED BY <1>1, <1>6, <1>13, <3>1, UndoOthers
  <2>2. CASE Turn(c) = "original_change_set"
    <3>1. IsUndo(c) /\ pos'[c].step = "decide" BY <1>5, <1>7, <1>8, <1>17, <2>2
    <3>2. Standing(c) /\ Standing(c)'
      <4>1. FactIs(c, "change_set", "committed") /\ FactIs(c, "audit", "committed")
        BY <1>16, <1>17, <2>2
      <4>2. FactIs(c, "change_set", "committed")' /\ FactIs(c, "audit", "committed")'
        BY <1>17, <1>18, <1>25, <2>2, <4>1
      <4>3. ~FactIs(c, "original_change_set", "failed") /\ ~FactIs(c, "original_change_set", "failed")'
        BY <1>15, <1>17, <1>18, <1>25, <2>2
      <4> HIDE DEF FactIs
      <4> QED BY <1>4, <1>5, <4>1, <4>2, <4>3 DEF Standing
    <3>3. Carried(c)' BY <3>1, <3>2 DEF Carried, Deciding
    <3>4. \A d \in Calls : /\ Undone(d)' <=> Undone(d)
                           /\ Original(d)' = Original(d)
                           /\ Standing(d)' <=> Standing(d)
      <4> SUFFICES ASSUME NEW d \in Calls
                   PROVE  /\ Undone(d)' <=> Undone(d)
                          /\ Original(d)' = Original(d)
                          /\ Standing(d)' <=> Standing(d)
        OBVIOUS
      <4>1. Original(d)' = Original(d) /\ (Undone(d)' <=> Undone(d)) BY <1>6 DEF Undone, IsUndo, Original
      <4>2. CASE d = c BY <3>2, <4>1, <4>2
      <4>3. CASE d # c
        <5>1. Standing(d)' <=> Standing(d) BY <1>13, <4>3 DEF Standing, FactIs
        <5> QED BY <4>1, <5>1
      <4> QED BY <4>2, <4>3
    <3>5. \A d \in Calls : d # c => (Unended(d)' => Unended(d)) /\ (Carried(d) => Carried(d)')
      <4> SUFFICES ASSUME NEW d \in Calls, d # c PROVE (Unended(d)' => Unended(d)) /\ (Carried(d) => Carried(d)')
        OBVIOUS
      <4>1. journal'[d] = journal[d] /\ pos'[d] = pos[d] BY <1>13
      <4>2. Unended(d)' <=> Unended(d) BY <4>1 DEF Unended
      <4>3. Turn(d)' = Turn(d) BY <1>6, <4>1 DEF Turn, Participants, IsUndo
      <4> QED BY <3>4, <4>1, <4>2, <4>3 DEF Carried
    <3>6. \A d \in derailed' : journal'[d].state \in {"recovery_required", "rolling_back", "rolled_back"}
      <4>1. derailed \subseteq Calls BY <1>1 DEF TypeOK, HistoryOK
      <4> QED BY <1>1, <1>5, <1>6, <1>13, <4>1 DEF UndoInv
    <3>10. \A d \in Calls : Ending(d)' <=> Ending(d) BY <1>6, <3>4 DEF Ending
    <3>11. \A d \in misled' : Undone(d)' /\ pos'[d].step \notin Early \cup Deciding \cup {"effect", "fact"}
      <4>1. misled \subseteq Calls /\ c \notin misled BY <1>1, <1>3 DEF TypeOK, HistoryOK, UndoInv
      <4> QED BY <1>1, <1>6, <1>13, <3>4, <4>1 DEF UndoInv
    <3> HIDE DEF Undone, Unended, Standing, Carried, Ending
    <3>7. \A d \in Calls : Undone(d)' /\ Unended(d)' => Carried(d)' \/ d \in derailed' \cup misled'
      BY <1>1, <1>6, <3>3, <3>4, <3>5 DEF UndoInv
    <3>8. \A d, e \in Calls :
            Undone(d)' /\ Undone(e)' /\ Ending(d)' /\ Ending(e)' /\ Original(d)' = Original(e)' => d = e
      BY <1>1, <3>4, <3>10 DEF UndoInv
    <3>9. \A d \in Calls : changeset'[d] = "undone" =>
            \E e \in Calls : Original(e)' = d /\ (Ending(e)' \/ e \in derailed')
      BY <1>1, <1>6, <3>4, <3>10 DEF UndoInv
    <3> QED BY <3>6, <3>7, <3>8, <3>9, <3>11 DEF UndoInv
  <2> QED BY <2>1, <2>2
<1> QED BY <1>12, <1>23, <1>24 DEF RecordsInv

\* A call ends the change set it reverts, and goes on to record that, or is
\* misled about it.
LEMMA OriginalEnds ==
    ASSUME BaseInv, RecordsInv, NEW c \in Calls, pos[c].step = "effect", Turn(c) = "original_change_set",
           UNCHANGED <<task, journal, derailed>>, \A d \in Calls \ {c} : pos'[d] = pos[d],
           \A d \in Calls : changeset[d] = "undone" => changeset'[d] = "undone",
           \A d \in Calls : changeset'[d] = "undone" => changeset[d] = "undone" \/ d = Original(c),
           changeset'[Original(c)] = "undone",
           \/ pos'[c].step = "fact" /\ misled' = misled
           \/ pos'[c].step = "failed" /\ misled' = misled \cup {c}
    PROVE  UndoInv'
<1>1. TypeOK /\ LockInv /\ PhaseInv /\ StoreInv /\ UndoInv BY DEF BaseInv, RecordsInv
<1>2. pos[c].step \in Sharing /\ pos[c].step \in Held BY DEF Sharing, Held
<1>3. ~Undone(c) /\ c \notin derailed /\ c \notin misled /\ journal[c].state = Pending BY <1>2, NotYetUndone
<1>4. /\ \A i \in Required(c) : ~FactIs(c, i, "failed")
      /\ \E i \in Required(c) : FactIs(c, i, "pending")
  BY <1>1, <1>2 DEF StoreInv, FactsAt
<1>5. /\ Turn(c) \in Required(c) /\ IsUndo(c) /\ Original(c) \in Calls
      /\ {"change_set", "audit"} \subseteq Required(c)
      /\ ~FactIs(c, "change_set", "pending") /\ ~FactIs(c, "audit", "pending")
  BY <1>1, <1>4, OriginalIs, TurnIs
<1>6. changeset[Original(c)] # "undone" BY <1>3, <1>5 DEF Undone
<1>7. Standing(c)
  <2>1. journal[c].facts \in [Required(c) -> {"pending", "committed", "failed"}] BY <1>1, FactsAre
  <2>2. FactIs(c, "change_set", "committed") /\ FactIs(c, "audit", "committed")
    BY <1>4, <1>5, <2>1 DEF FactIs
  <2>3. ~FactIs(c, "original_change_set", "failed") BY <1>4, <1>5
  <2> QED BY <1>3, <2>2, <2>3 DEF Standing
<1>8. \A d \in Calls : /\ Original(d)' = Original(d) /\ (IsUndo(d)' <=> IsUndo(d))
                       /\ Standing(d)' <=> Standing(d)
  BY DEF Standing, FactIs, Original, IsUndo
<1>22. \A d \in Calls : Turn(d)' = Turn(d)
  <2>1. task' = task /\ journal' = journal OBVIOUS
  <2> QED BY ONLY <2>1 DEF Turn, Participants, IsUndo
<1>9. Carried(c)' \/ c \in misled'
  <2>1. Standing(c)' /\ Turn(c)' = Turn(c) BY <1>7, <1>8, <1>22
  <2> QED BY <2>1 DEF Carried
<1>10. \A d \in Calls : Ending(d)' => Ending(d) BY <1>7, <1>8 DEF Ending
<1>11. \A d \in Calls : Ending(d) => Ending(d)' BY <1>8 DEF Ending
<1>12. \A d \in Calls : Undone(d)' => Undone(d) \/ (IsUndo(d) /\ Original(d) = Original(c))
  <2> SUFFICES ASSUME NEW d \in Calls, Undone(d)'
               PROVE  Undone(d) \/ (IsUndo(d) /\ Original(d) = Original(c))
    OBVIOUS
  <2>1. IsUndo(d) /\ Original(d) \in Calls BY <1>1, <1>8, OriginalIs DEF Undone
  <2> QED BY <1>8, <2>1 DEF Undone
<1>13. \A d \in Calls : Undone(d) => Undone(d)'
  <2> SUFFICES ASSUME NEW d \in Calls, Undone(d) PROVE Undone(d)' OBVIOUS
  <2>1. IsUndo(d) /\ Original(d) \in Calls BY <1>1, OriginalIs DEF Undone
  <2> QED BY <1>8, <2>1 DEF Undone
\* No other undo of the same call stands, or may come to stand.
<1>14. \A e \in Present : e # c => journal[e].state \in Final BY <1>1, <1>2 DEF PhaseInv
<1>15. ASSUME NEW e \in Calls, e # c, IsUndo(e), Original(e) = Original(c), Ending(e) PROVE FALSE
  <2>1. CASE e \in misled BY <1>1, <1>6, <1>15, <2>1 DEF UndoInv, Undone
  <2>2. CASE Standing(e)
    <3>1. e \in Present BY <2>2 DEF Present, Standing, Pending
    <3>2. journal[e].state \in Final BY <1>14, <1>15, <3>1
    <3>3. journal[e].state = "committed" BY <2>2, <3>2 DEF Standing, Final, Pending
    <3>4. FactIs(e, "original_change_set", "committed") /\ "original_change_set" \in Required(e)
      BY <1>1, <1>15, <3>3, OriginalIs DEF StoreInv, FactsAt
    <3>5. Effected(e, "original_change_set") BY <1>1, <3>4 DEF StoreInv, FactsAt
    <3> QED BY <1>6, <1>15, <3>5 DEF Effected
  <2> QED BY <1>15, <2>1, <2>2 DEF Ending
<1>16. ASSUME NEW e \in Calls, e # c, Unended(e)'
       PROVE  Unended(e) /\ ~(IsUndo(e) /\ Original(e) = Original(c) /\ ~Undone(e))
  <2>1. pos'[e] = pos[e] BY <1>16
  <2>2. Unended(e) BY <1>16, <2>1 DEF Unended
  <2>3. lock = c BY <1>1, <1>2 DEF LockInv
  <2>4. pos[e].step \notin Held \cup {"waiting"} BY <1>1, <1>16, <2>3, Constants DEF LockInv
  <2>5. e \in Present /\ journal[e].state \notin Final BY <2>2, <2>4 DEF Unended, Present
  <2> QED BY <1>14, <1>16, <2>5
<1>17. ASSUME NEW e \in Calls, Undone(e)', Unended(e)' PROVE Carried(e)' \/ e \in derailed' \cup misled'
  <2>1. CASE e = c BY <1>9, <2>1
  <2>2. CASE e # c
    <3>1. Undone(e) /\ Unended(e) BY <1>12, <1>16, <1>17, <2>2
    <3>2. CASE Carried(e)
      <4>1. Turn(e)' = Turn(e) /\ pos'[e] = pos[e] BY <1>22, <2>2
      <4> QED BY <1>8, <3>2, <4>1 DEF Carried
    <3> QED BY <1>1, <3>1, <3>2 DEF UndoInv
  <2> QED BY <2>1, <2>2
<1> HIDE DEF Undone, Unended, Standing, Carried, Ending
<1>18. ASSUME NEW d \in Calls, NEW e \in Calls, Undone(d)', Undone(e)', Ending(d)', Ending(e)',
              Original(d)' = Original(e)'
       PROVE  d = e
  <2>1. Ending(d) /\ Ending(e) /\ Original(d) = Original(e) BY <1>8, <1>10, <1>18
  <2>2. CASE Original(d) = Original(c)
    <3>1. IsUndo(d) /\ IsUndo(e) BY <1>8, <1>18 DEF Undone
    <3> QED BY <1>15, <2>1, <2>2, <3>1
  <2>3. CASE Original(d) # Original(c)
    <3>1. Undone(d) /\ Undone(e) BY <1>12, <1>18, <2>1, <2>3
    <3> QED BY <1>1, <2>1, <3>1 DEF UndoInv
  <2> QED BY <2>2, <2>3
<1>19. ASSUME NEW d \in Calls, changeset'[d] = "undone"
       PROVE  \E e \in Calls : Original(e)' = d /\ (Ending(e)' \/ e \in derailed')
  <2>1. CASE d = Original(c)
    <3>1. Ending(c)' BY <1>7, <1>8 DEF Ending
    <3> QED BY <1>8, <2>1, <3>1
  <2>2. CASE d # Original(c)
    <3>1. changeset[d] = "undone" BY <1>19, <2>2
    <3> QED BY <1>1, <1>8, <1>11, <3>1 DEF UndoInv
  <2> QED BY <2>1, <2>2
<1>20. \A d \in derailed' : journal'[d].state \in {"recovery_required", "rolling_back", "rolled_back"}
  BY <1>1 DEF UndoInv
<1>21. ASSUME NEW d \in misled'
       PROVE  Undone(d)' /\ pos'[d].step \notin Early \cup Deciding \cup {"effect", "fact"}
  <2>1. CASE d \in misled
    <3>1. d \in Calls /\ d # c BY <1>1, <1>3, <2>1 DEF TypeOK, HistoryOK
    <3>2. Undone(d) /\ pos'[d] = pos[d] BY <1>1, <2>1, <3>1 DEF UndoInv
    <3> QED BY <1>1, <1>13, <2>1, <3>1, <3>2 DEF UndoInv
  <2>2. CASE d \notin misled
    <3>1. d = c /\ pos'[c].step = "failed" BY <1>21, <2>2
    <3>2. "failed" \notin Early \cup Deciding BY DEF Early, Committing, Deciding
    <3> QED BY <1>5, <1>8, <3>1, <3>2 DEF Undone
  <2> QED BY <2>1, <2>2
<1> QED BY <1>17, <1>18, <1>19, <1>20, <1>21 DEF UndoInv

LEMMA EffectRecords ==
    ASSUME MoveInv, MoveInv', RecordsInv, NEW c \in Calls, Effect(c)
    PROVE  RecordsInv'
<1>1. BaseInv /\ BaseInv' /\ TypeOK /\ PhaseInv /\ StoreInv /\ UndoInv BY DEF MoveInv, BaseInv, RecordsInv
<1>2. c \in Workers /\ On(c) = c /\ On(c)' = c BY Constants DEF On
<1>3. pos[c].step \in Sharing /\ pos[c].step = "effect" /\ pos[c].step \in (Held \cup Undoing) \ {"inspect"}
      /\ pos[c].step \in Held
  BY DEF Effect, Sharing, Held
<1>4. ~Undone(c) /\ c \notin derailed /\ journal[c].state = Pending BY <1>1, <1>3, NotYetUndone
<1>5. UNCHANGED <<task, due, derailed, misled, journal, stale, lock>> BY DEF Effect, memory, history
<1>6. Still(c) /\ pos'[c].step = "fact" BY <1>1, <1>2, GotoIs DEF Effect, CallSteps, Held
<1>7. Wrote(c) BY <1>2, <1>5, LeftIs
<1>8. journal'[c].state \notin Final \cup {"none", "commit_decided", "committed"} BY <1>4, <1>5 DEF Final, Pending
<1>9. journal'[c].state \in StateAt(pos'[c].step) BY <1>4, <1>5, <1>6 DEF StateAt, Committing
<1>10. PhaseInv' BY <1>1, <1>2, <1>3, <1>5, <1>6, <1>7, <1>8, <1>9, CallPhases
<1>11. \A d \in Calls \ {c} : journal'[d] = journal[d] /\ pos'[d] = pos[d] BY <1>5, <1>6, Constants DEF Still
<1>12. RunFacts' BY <1>1, <1>5, <1>6, <1>7, CallRunFacts
<1>13. FactsAt(c) /\ Required(c)' = Required(c) /\ Turn(c)' = Turn(c)
       /\ (IsUndo(c)' <=> IsUndo(c)) /\ Original(c)' = Original(c)
  BY <1>1, <1>5 DEF StoreInv, Required, Participants, IsUndo, Original, Turn
<1>14. /\ \A i \in Required(c) : ~FactIs(c, i, "failed")
       /\ \E i \in Required(c) : FactIs(c, i, "pending")
       /\ FactIs(c, "audit", "committed") => FactIs(c, "change_set", "committed")
       /\ IsUndo(c) => FactIs(c, "original_change_set", "pending")
       /\ FactIs(c, "change_set", "pending") => changeset[c] = "none"
  BY <1>3, <1>13 DEF FactsAt
<1>15. /\ Turn(c) \in Required(c) /\ FactIs(c, Turn(c), "pending")
       /\ IsUndo(c) => Original(c) \in Calls
       /\ IsUndo(c) <=> "original_change_set" \in Required(c)
       /\ {"change_set", "audit"} \subseteq Required(c)
       /\ Required(c) \subseteq {"change_set", "audit", "original_change_set"}
       /\ FactIs(c, "change_set", "pending") => Turn(c) = "change_set"
       /\ FactIs(c, "audit", "pending") => Turn(c) \in {"change_set", "audit"}
  BY <1>1, <1>14, OriginalIs, TurnIs
<1>16. changeset \in [Calls -> {"none", "active", "undone", "recovery_required"}] BY <1>1 DEF TypeOK, RecordsOK
\* What becomes of the stores.
<1>17. /\ audited \subseteq audited' /\ Effected(c, Turn(c))'
       /\ \A d \in Calls : d # c => (changeset'[d] = "none" <=> changeset[d] = "none")
       /\ \A d \in Calls : changeset[d] = "undone" => changeset'[d] = "undone"
       /\ changeset[c] # "none" => changeset'[c] # "none"
       /\ \A d \in Calls : changeset'[d] = "undone" =>
            changeset[d] = "undone" \/ (Turn(c) = "original_change_set" /\ d = Original(c))
       /\ Turn(c) = "original_change_set" => changeset'[Original(c)] = "undone"
  <2>1. CASE Turn(c) = "change_set"
    <3>1. changeset' = [changeset EXCEPT ![c] = "active"] /\ UNCHANGED audited BY <2>1 DEF Effect
    <3>2. FactIs(c, "change_set", "pending") BY <1>15, <2>1
    <3>3. changeset[c] = "none" BY <1>14, <3>2
    <3>4. \A d \in Calls : changeset'[d] = IF d = c THEN "active" ELSE changeset[d] BY <1>16, <3>1
    <3>5. Effected(c, Turn(c))' BY <1>13, <2>1, <3>4 DEF Effected
    <3> QED BY <2>1, <3>1, <3>3, <3>4, <3>5
  <2>2. CASE Turn(c) = "audit"
    <3>1. audited' = audited \cup {c} /\ UNCHANGED changeset BY <2>2 DEF Effect
    <3>2. Effected(c, Turn(c))' BY <1>13, <2>2, <3>1 DEF Effected
    <3> QED BY <2>2, <3>1, <3>2
  <2>3. CASE Turn(c) = "original_change_set"
    <3>1. Undoable(c) /\ changeset' = [changeset EXCEPT ![Original(c)] = "undone"] /\ UNCHANGED audited
      BY <2>3 DEF Effect
    <3>2. Original(c) \in Calls BY <1>15, <2>3
    <3>3. \A d \in Calls : changeset'[d] = IF d = Original(c) THEN "undone" ELSE changeset[d] BY <1>16, <3>1, <3>2
    <3>4. changeset[Original(c)] # "none" BY <3>1 DEF Undoable
    <3>5. Effected(c, Turn(c))' BY <1>13, <2>3, <3>2, <3>3 DEF Effected
    <3> QED BY <2>3, <3>1, <3>2, <3>3, <3>4, <3>5
  <2> QED BY <1>15, <2>1, <2>2, <2>3
<1>18. FactsAt(c)'
  <2>1. \A i, f : FactIs(c, i, f)' <=> FactIs(c, i, f) BY <1>5 DEF FactIs
  <2>2. \A i \in Required(c) : Effected(c, i) => Effected(c, i)'
    BY <1>13, <1>15, <1>17 DEF Effected
  <2>3. pos'[c].step \notin Early \cup Deciding \cup {"effect"} BY <1>6 DEF Early, Deciding, Committing
  <2>4. DOMAIN journal'[c].facts = Required(c) BY <1>5, <1>13 DEF FactsAt
  <2>5. Effected(c, Turn(c))' BY <1>17
  <2> HIDE DEF Effected, FactIs
  <2> QED BY <1>5, <1>6, <1>8, <1>13, <1>14, <2>1, <2>2, <2>3, <2>4, <2>5 DEF FactsAt
<1>19. \A d \in Calls : d # c => FactsAt(d)'
  <2> SUFFICES ASSUME NEW d \in Calls, d # c PROVE FactsAt(d)' OBVIOUS
  <2>1. FactsAt(d) BY <1>1 DEF StoreInv
  <2>2. IsUndo(d) => Original(d) \in Calls BY <1>1, OriginalIs
  <2> QED BY <1>1, <1>5, <1>11, <1>17, <2>1, <2>2, FactsStay
<1>20. StoreInv' BY <1>12, <1>18, <1>19 DEF StoreInv, RunFacts
<1>21. UndoInv'
  <2>1. CASE Turn(c) # "original_change_set"
    <3>1. \A d \in Calls : changeset'[d] = "undone" <=> changeset[d] = "undone" BY <1>17, <2>1
    <3> QED BY <1>1, <1>4, <1>5, <1>11, <3>1, UndoOthers
  <2>2. CASE Turn(c) = "original_change_set" BY <1>1, <1>3, <1>4, <1>5, <1>6, <1>11, <1>17, <2>2, OriginalEnds
  <2> QED BY <2>1, <2>2
<1> QED BY <1>10, <1>20, <1>21 DEF RecordsInv

LEMMA EffectFailsRecords ==
    ASSUME MoveInv, MoveInv', RecordsInv, NEW c \in Calls, EffectFails(c)
    PROVE  RecordsInv'
<1>1. BaseInv /\ BaseInv' /\ TypeOK /\ PhaseInv /\ StoreInv /\ UndoInv BY DEF MoveInv, BaseInv, RecordsInv
<1>2. c \in Workers /\ On(c) = c /\ On(c)' = c BY Constants DEF On
<1>3. pos[c].step = "effect" /\ pos[c].step \in (Held \cup Undoing) \ {"inspect"} /\ pos[c].step \in Held
  BY DEF EffectFails, Held
<1>4. Still(c) /\ pos'[c].step = "failed" BY <1>1, <1>2, GotoIs DEF EffectFails, CallSteps, Held
<1>5. UNCHANGED <<task, due, derailed, journal, stale>> /\ audited \subseteq audited'
  BY DEF EffectFails, memory
<1>6. Advances(c) BY <1>3, <1>4 DEF Advances, Early, Deciding, Sharing, Committing
<1>7. journal[c].state = Pending BY <1>1, <1>3 DEF PhaseInv, StateAt, Committing
<1>8. journal[c].state \in StateAt("failed") BY <1>7 DEF StateAt, Committing
<1>9. CASE UNCHANGED <<changeset, misled>>
  <2>1. SameStores BY <1>5, <1>9 DEF SameStores
  <2>2. ~Carried(c) BY <1>3 DEF Carried, Deciding
  <2> QED BY <1>1, <1>3, <1>4, <1>5, <1>6, <1>8, <1>9, <2>1, <2>2, CallMoves
<1>10. CASE /\ Turn(c) = "original_change_set" /\ changeset[Original(c)] = "active"
            /\ changeset' = [changeset EXCEPT ![Original(c)] = "undone"]
            /\ misled' = misled \cup {c}
  <2>1. changeset \in [Calls -> {"none", "active", "undone", "recovery_required"}] BY <1>1 DEF TypeOK, RecordsOK
  <2>2. \E i \in Required(c) : FactIs(c, i, "pending") BY <1>1, <1>3 DEF StoreInv, FactsAt, Sharing
  <2>3. Original(c) \in Calls
    <3>1. Turn(c) \in Required(c) BY <1>1, <2>2, TurnIs
    <3> QED BY <1>1, <1>10, <3>1, OriginalIs
  <2>4. \A d \in Calls : changeset'[d] = IF d = Original(c) THEN "undone" ELSE changeset[d]
    BY <1>10, <2>1, <2>3
  <2>5. \A d \in Calls \ {c} : journal'[d] = journal[d] /\ pos'[d] = pos[d] BY <1>4, <1>5, Constants DEF Still
  <2>6. UndoInv' BY <1>1, <1>3, <1>4, <1>5, <1>10, <2>3, <2>4, <2>5, OriginalEnds
  <2>7. Wrote(c) BY <1>2, <1>5, LeftIs
  <2>8. journal'[c].state \notin Final \cup {"none", "commit_decided", "committed"}
    BY <1>5, <1>7 DEF Final, Pending
  <2>9. journal'[c].state \in StateAt(pos'[c].step) BY <1>4, <1>5, <1>8
  <2>10. PhaseInv' BY <1>1, <1>2, <1>3, <1>5, <1>4, <2>7, <2>8, <2>9, CallPhases
  <2>11. RunFacts' BY <1>1, <1>4, <1>5, <2>7, CallRunFacts
  <2>12. \A d \in Calls : d # c => FactsAt(d)'
    <3> SUFFICES ASSUME NEW d \in Calls, d # c PROVE FactsAt(d)' OBVIOUS
    <3>1. FactsAt(d) BY <1>1 DEF StoreInv
    <3>2. IsUndo(d) => Original(d) \in Calls BY <1>1, OriginalIs
    <3>3. (changeset'[d] = "none") <=> (changeset[d] = "none") BY <1>10, <2>4
    <3>4. IsUndo(d) /\ changeset[Original(d)] = "undone" => changeset'[Original(d)] = "undone" BY <2>4, <3>2
    <3> QED BY <1>1, <1>5, <2>5, <3>1, <3>3, <3>4, FactsStay
  <2>13. FactsAt(c)'
    <3>1. FactsAt(c) /\ Required(c)' = Required(c) /\ Turn(c)' = Turn(c)
          /\ (IsUndo(c)' <=> IsUndo(c)) /\ Original(c)' = Original(c)
      BY <1>1, <1>5 DEF StoreInv, Required, Participants, IsUndo, Original, Turn
    <3>2. \A i, f : FactIs(c, i, f)' <=> FactIs(c, i, f) BY <1>5 DEF FactIs
    <3>3. \A i \in Required(c) : Effected(c, i) => Effected(c, i)'
      <4>1. changeset[c] # "none" => changeset'[c] # "none" BY <2>4
      <4>2. changeset'[Original(c)]  = "undone" BY <2>3, <2>4
      <4> QED BY <1>5, <3>1, <4>1, <4>2 DEF Effected
    <3>4. pos'[c].step \notin Early \cup Deciding \cup {"effect", "fact"} BY <1>4 DEF Early, Deciding, Committing
    <3>5. pos[c].step \in Sharing BY <1>3 DEF Sharing
    <3> HIDE DEF Effected, FactIs
    <3> QED BY <1>5, <2>8, <3>1, <3>2, <3>3, <3>4, <3>5 DEF FactsAt
  <2>14. StoreInv' BY <2>11, <2>12, <2>13 DEF StoreInv, RunFacts
  <2> QED BY <2>6, <2>10, <2>14 DEF RecordsInv
<1> QED BY <1>9, <1>10 DEF EffectFails

LEMMA CallStepRecords ==
    ASSUME MoveInv, MoveInv', RecordsInv, NEW c \in Calls, CallStep(c)
    PROVE  RecordsInv'
BY PrepareRecords, CommitStepRecords, CommitFailsRecords, EffectRecords, EffectFailsRecords, FactRecords,
   FactFailsRecords, FailedRecords, FailedFailsRecords, DecidedRecords, FinalizeFailsRecords,
   CallRollbackRecords, RollbackEndsRecords, UnprovenRecords, ReconcileRecords
   DEF CallStep
-----------------------------------------------------------------------------
(* The steps of a run.                                                      *)

\* What is known of a run that is on a manifest.
LEMMA AtRun ==
    ASSUME MoveInv, RecordsInv, pos[Recovery].step \notin {"idle", "choose"}
    PROVE  /\ BaseInv /\ TypeOK /\ lock = Recovery /\ due # <<>>
           /\ Current \in Calls /\ Current \in Present /\ On(Recovery) = Current
           /\ journal[Current].state # "none" /\ journal[Current] \in Manifests
           /\ HeadAt /\ RunFacts /\ StoreInv /\ UndoInv /\ FactsAt(Current)
<1>1. BaseInv /\ TypeOK /\ LockInv /\ TodoInv BY DEF MoveInv, BaseInv
<1>2. lock = Recovery /\ due # <<>> BY <1>1 DEF LockInv, TodoInv
<1>3. Ready(Recovery) /\ On(Recovery) = Current BY <1>2, RunIs DEF Ready
<1>4. Current \in Calls /\ Current \in Present BY <1>1, <1>3, RunIs, ReadyIs
<1>5. HeadAt BY <1>2 DEF RecordsInv, PhaseInv, ScanInv
<1>6. RunFacts BY DEF RecordsInv, StoreInv, RunFacts
<1>7. journal[Current].state # "none" /\ journal[Current] \in Manifests
  BY <1>1, <1>4 DEF Present, TypeOK, RecordsOK
<1>8. StoreInv /\ UndoInv /\ FactsAt(Current) BY <1>4 DEF RecordsInv, StoreInv
<1> QED BY <1>1, <1>2, <1>3, <1>4, <1>5, <1>6, <1>7, <1>8

\* What it reads in the next state.
LEMMA RunReads ==
    ASSUME due' = due, Wrote(Recovery)
    PROVE  /\ Current' = Current /\ Seen' = Seen /\ On(Recovery)' = On(Recovery)
           /\ Fresh(Recovery)' <=> Fresh(Recovery)
<1>1. Current' = Current /\ Seen' = Seen /\ On(Recovery)' = On(Recovery) BY DEF Current, Seen, On
<1> QED BY <1>1 DEF Wrote, Fresh

\* It moves on, and writes nothing.
LEMMA RunMoves ==
    ASSUME BaseInv, BaseInv', RecordsInv, Still(Recovery), lock = Recovery, due # <<>>,
           pos'[Recovery].step \notin {"idle", "choose"},
           UNCHANGED <<task, due, derailed, misled, journal, stale>>, SameStores, HeadAt', RunFacts'
    PROVE  RecordsInv'
<1>1. Wrote(Recovery) BY RunIs, LeftIs
<1>2. Ready(Recovery) /\ On(Recovery) = Current BY RunIs DEF Ready
<1>3. Current \in Present BY <1>2, RunIs, ReadyIs
<1>4. journal'[Current].state # "none" /\ journal'[Current].facts = journal[Current].facts BY <1>3 DEF Present
<1> QED BY <1>1, <1>4, RunKeepsRecords

LEMMA RunRollbackRecords ==
    ASSUME MoveInv, MoveInv', RecordsInv, RollbackStep(Recovery)
    PROVE  RecordsInv'
<1>1. /\ pos[Recovery].step \in Undoing /\ Still(Recovery)
      /\ pos'[Recovery].step \in (Undoing \cap RunSteps) \ {"choose", "idle"}
      /\ UNCHANGED <<task, due, derailed, misled, lock>> /\ SameStores /\ Wrote(Recovery)
      /\ journal'[On(Recovery)].facts = journal[On(Recovery)].facts
      /\ pos[Recovery].step # "conclude" /\ pos'[Recovery].step \in Rolling \ {"rollback"}
      /\ pos[Recovery].step = "rmdir" => pos'[Recovery].step = "conclude"
      /\ \/ UNCHANGED <<journal, stale>> /\ (pos[Recovery].step = "rollback" => pos[Recovery].rolling)
         \/ /\ journal'[On(Recovery)].state = "rolling_back" /\ pos[Recovery].step = "rollback"
            /\ Fresh(Recovery) /\ ~pos[Recovery].rolling
  BY RunIs, RollbackLeaves
<1>2. pos[Recovery].step \in Rolling /\ pos[Recovery].step \notin {"idle", "choose", "verify", "record", "conclude"}
  BY <1>1 DEF RollbackStep, BeginRollback, Restage, Remove, Restore, Unstage, RemoveDirectory, Rolling
<1>3. /\ BaseInv /\ TypeOK /\ lock = Recovery /\ due # <<>>
      /\ Current \in Calls /\ Current \in Present /\ On(Recovery) = Current
      /\ journal[Current].state # "none"
      /\ HeadAt /\ RunFacts
  BY <1>2, AtRun
<1>4. BaseInv' BY DEF MoveInv
<1>5. /\ Current' = Current /\ Seen' = Seen /\ (Fresh(Recovery)' <=> Fresh(Recovery)) BY <1>1, RunReads
<1>6. pos'[Recovery].step \notin {"idle", "choose", "probe", "confirm", "decide", "drop", "dropped", "finish", "sweep",
                                  "verify", "record", "rollback"}
  BY <1>1 DEF Rolling
<1>7. RunFacts' BY <1>6 DEF RunFacts
<1>8. CASE UNCHANGED <<journal, stale>> /\ (pos[Recovery].step = "rollback" => pos[Recovery].rolling)
  <2>1. HeadAt'
    <3>1. Seen = "rolled_back" => journal[Current].state = "rolled_back" /\ pos'[Recovery].step = "conclude"
      BY <1>1, <1>2, <1>3 DEF HeadAt
    <3>2. Fresh(Recovery) /\ Seen # "rolled_back" => journal[Current].state = "rolling_back"
      BY <1>2, <1>3, <1>8 DEF HeadAt
    <3> QED BY <1>1, <1>5, <1>6, <1>8, <3>1, <3>2 DEF HeadAt
  <2> QED BY <1>1, <1>3, <1>4, <1>6, <1>7, <1>8, <2>1, RunMoves
<1>9. CASE /\ journal'[On(Recovery)].state = "rolling_back" /\ pos[Recovery].step = "rollback"
           /\ Fresh(Recovery) /\ ~pos[Recovery].rolling
  <2>1. Seen # "rolled_back" BY <1>3, <1>9 DEF HeadAt
  <2>2. journal[Current].state \notin Final \cup {"commit_decided"} BY <1>3, <1>9, <2>1 DEF HeadAt
  <2>3. HeadAt' BY <1>1, <1>3, <1>5, <1>6, <1>9, <2>1 DEF HeadAt
  <2>4. journal[Current].state \in Installed => \E i \in Required(Current) : FactIs(Current, i, "failed")
    BY <1>3, <1>9, <2>2 DEF RunFacts, Installed, Final
  <2>5. journal'[Current].state \notin Installed \cup {"none", "commit_decided", "committed"}
    BY <1>3, <1>9 DEF Installed, Pending
  <2> QED BY <1>1, <1>3, <1>4, <1>6, <1>7, <1>9, <2>2, <2>3, <2>4, <2>5, RunKeepsRecords
<1> QED BY <1>1, <1>8, <1>9

LEMMA ChooseRecords ==
    ASSUME MoveInv, MoveInv', RecordsInv, Choose
    PROVE  RecordsInv'
<1> DEFINE s == CASE Seen = "committed"      -> "sweep"
                  [] Seen = "rolled_back"    -> "verify"
                  [] Seen = "commit_decided" -> "confirm"
                  [] Seen = Pending -> "probe"
                  [] OTHER -> "rollback"
           r == [step |-> s, todo |-> Sources(Current), tries |-> 1, rolling |-> Seen = "rolling_back"]
<1>1. pos[Recovery].step = "choose" /\ due # <<>> BY DEF Choose, At
<1>2. BaseInv /\ BaseInv' /\ TypeOK /\ lock = Recovery /\ On(Recovery) = Current /\ Current \in Calls /\ Recovery \in Workers
  BY <1>1, AtChoose, RunIs DEF MoveInv
<1>3. UNCHANGED <<task, due, derailed, misled, journal, stale>> /\ SameStores BY SameIs DEF Choose, Rest, memory, history
<1>4. pos \in [Workers -> Positions] BY <1>2 DEF TypeOK, MemoryOK
<1>5. pos' = [pos EXCEPT ![Recovery] = r] BY DEF Choose
<1>6. r.step = s /\ r.rolling = (Seen = "rolling_back") OBVIOUS
<1>7. /\ s \in {"sweep", "verify", "confirm", "probe", "rollback"}
      /\ s = "sweep" => Seen = "committed"
      /\ (s = "verify") <=> (Seen = "rolled_back")
      /\ s = "confirm" => Seen = "commit_decided"
      /\ s = "probe" => Seen = Pending
      /\ s = "rollback" => Seen \notin Final \cup {"commit_decided", Pending}
  BY DEF Pending, Final
<1> HIDE DEF r, s
<1>8. pos'[Recovery].step = s /\ pos'[Recovery].rolling = (Seen = "rolling_back") /\ Still(Recovery)
  BY <1>2, <1>4, <1>5, <1>6 DEF Still
<1>9. Seen \in Final \/ Fresh(Recovery) => Seen = journal[Current].state
  <2>1. Ready(Recovery) BY <1>1, AtChoose
  <2>2. Len(due) \in Nat \ {0} /\ On(Recovery) = due[1].call BY <1>2, <2>1, ReadyIs
  <2>3. Current = due[1].call /\ Seen = due[1].state BY <1>2, <2>2 DEF Seen
  <2> QED BY <1>1, <1>2, <2>2, <2>3 DEF RecordsInv, PhaseInv, ScanInv, Fresh
<1>10. Wrote(Recovery) BY <1>2, <1>3, LeftIs
<1>11. Current' = Current /\ Seen' = Seen /\ (Fresh(Recovery)' <=> Fresh(Recovery)) BY <1>3, <1>10, RunReads
<1>12. HeadAt'
  <2>1. Seen = "rolled_back" => journal[Current].state = "rolled_back" /\ s = "verify" BY <1>7, <1>9 DEF Final
  <2>2. s = "probe" => Seen # "rolling_back" BY <1>7 DEF Pending
  <2>3. s = "sweep" => journal[Current].state \in Final BY <1>7, <1>9 DEF Final
  <2>4. s \notin Rolling \ {"rollback"} /\ s \notin {"record", "decide", "drop", "dropped", "finish"} BY <1>7 DEF Rolling
  <2>5. Fresh(Recovery) => /\ s = "probe" => journal[Current].state = Pending
                           /\ s = "confirm" => journal[Current].state = "commit_decided"
                           /\ s = "rollback" => journal[Current].state \notin Final \cup {"commit_decided"}
                           /\ Seen = "rolling_back" => journal[Current].state = "rolling_back"
    BY <1>7, <1>9
  <2> QED BY <1>3, <1>7, <1>8, <1>11, <2>1, <2>2, <2>3, <2>4, <2>5 DEF HeadAt
<1>13. RunFacts'
  <2>1. s = "confirm" /\ Fresh(Recovery) => journal[Current].state # Pending BY <1>7, <1>9 DEF Pending
  <2>2. s = "rollback" /\ Fresh(Recovery) => journal[Current].state # Pending BY <1>7, <1>9
  <2> QED BY <1>3, <1>7, <1>8, <1>11, <2>1, <2>2 DEF RunFacts
<1>14. pos'[Recovery].step \notin {"idle", "choose"} BY <1>7, <1>8
<1> QED BY <1>1, <1>2, <1>3, <1>8, <1>12, <1>13, <1>14, RunMoves

LEMMA CompensateRecords ==
    ASSUME MoveInv, MoveInv', RecordsInv, Compensate
    PROVE  RecordsInv'
<1>1. pos[Recovery].step = "probe" BY DEF Compensate, At
<1>2. /\ BaseInv /\ TypeOK /\ lock = Recovery /\ due # <<>>
      /\ Current \in Calls /\ HeadAt /\ RunFacts
  BY <1>1, AtRun
<1>3. BaseInv' BY DEF MoveInv
<1>4. UNCHANGED <<task, due, derailed, misled, journal, stale, pos, audited>> BY DEF Compensate, memory, history
<1>5. Still(Recovery) BY <1>4 DEF Still
<1>6. SameStores
  <2>1. changeset \in [Calls -> {"none", "active", "undone", "recovery_required"}] BY <1>2 DEF TypeOK, RecordsOK
  <2>2. changeset' = [changeset EXCEPT ![Current] = "recovery_required"] /\ changeset[Current] = "active"
    BY DEF Compensate, ToCompensate
  <2>3. \A d \in Calls : changeset'[d] = IF d = Current THEN "recovery_required" ELSE changeset[d] BY <2>1, <2>2
  <2> QED BY <1>4, <2>2, <2>3 DEF SameStores
<1>7. Wrote(Recovery) BY <1>4, RunIs, LeftIs
<1>8. Current' = Current /\ Seen' = Seen /\ (Fresh(Recovery)' <=> Fresh(Recovery)) BY <1>4, <1>7, RunReads
<1>9. HeadAt' BY <1>2, <1>4, <1>8 DEF HeadAt
<1>10. RunFacts' BY <1>1, <1>4 DEF RunFacts
<1> QED BY <1>1, <1>2, <1>3, <1>4, <1>5, <1>6, <1>9, <1>10, RunMoves

\* The loops of a run, and the end of a rollback that was one already.
LEMMA RunLoopRecords ==
    ASSUME MoveInv, MoveInv', RecordsInv, Confirm \/ Sweep \/ Verify
    PROVE  RecordsInv'
<1>1. PICK s \in {"confirm", "sweep", "verify"}, n \in {"decide", "finish", "drop", "record", "rmdir"} :
        /\ pos[Recovery].step = s /\ Done(Recovery, s, n)
        /\ s = "confirm" => /\ n \in {"decide", "finish", "drop"}
                            /\ n = "decide" <=> M.state # "commit_decided"
        /\ s = "sweep" => n = "record"
        /\ s = "verify" => n = "rmdir"
  <2>1. CASE Confirm
    <3>1. CASE M.state # "commit_decided" BY <2>1, <3>1 DEF Confirm, At
    <3>2. CASE M.state = "commit_decided" /\ M.drops = None BY <2>1, <3>2 DEF Confirm, At
    <3>3. CASE M.state = "commit_decided" /\ M.drops # None BY <2>1, <3>3 DEF Confirm, At
    <3> QED BY <3>1, <3>2, <3>3
  <2>2. CASE Sweep BY <2>2 DEF Sweep, At
  <2>3. CASE Verify BY <2>3 DEF Verify, At
  <2> QED BY <2>1, <2>2, <2>3
<1>2. /\ BaseInv /\ BaseInv' /\ TypeOK /\ lock = Recovery /\ due # <<>>
      /\ Current \in Calls /\ On(Recovery) = Current /\ HeadAt /\ RunFacts /\ M = journal[Current]
  BY <1>1, AtRun DEF MoveInv, M
<1>3. UNCHANGED <<task, due, derailed, misled, journal, stale>> /\ SameStores
  BY SameIs DEF Confirm, Sweep, Verify, Rest, memory, history
<1>4. Still(Recovery) /\ pos'[Recovery].step \in {s, n}
  <2>1. s \in CallSteps \cup RunSteps /\ n \in CallSteps \cup RunSteps BY DEF RunSteps, Rolling
  <2> QED BY <1>1, <1>2, <2>1, RunIs, DoneIs
<1>5. Wrote(Recovery) BY <1>3, RunIs, LeftIs
<1>6. Current' = Current /\ Seen' = Seen /\ (Fresh(Recovery)' <=> Fresh(Recovery)) BY <1>3, <1>5, RunReads
<1>7. HeadAt'
  <2>1. CASE s = "confirm"
    <3>1. Seen # "rolled_back" BY <1>1, <1>2, <2>1 DEF HeadAt
    <3>2. Fresh(Recovery) => journal[Current].state \in {Pending, "commit_decided"}
      BY <1>1, <1>2, <2>1, <3>1 DEF HeadAt
    <3>3. pos'[Recovery].step \in {"confirm", "decide", "finish", "drop"}
          /\ pos'[Recovery].step \notin Rolling \cup {"sweep", "record", "probe", "verify"}
      BY <1>1, <1>4, <2>1 DEF Rolling
    <3> QED BY <1>1, <1>2, <1>3, <1>4, <1>6, <2>1, <3>1, <3>2, <3>3 DEF HeadAt, Pending
  <2>2. CASE s = "sweep"
    <3>1. Seen # "rolled_back" /\ journal[Current].state \in Final BY <1>1, <1>2, <2>2 DEF HeadAt
    <3>2. pos'[Recovery].step \in {"sweep", "record"} /\ pos'[Recovery].step \notin Rolling
      BY <1>1, <1>4, <2>2 DEF Rolling
    <3> QED BY <1>3, <1>6, <3>1, <3>2 DEF HeadAt
  <2>3. CASE s = "verify"
    <3>1. Seen = "rolled_back" /\ journal[Current].state = "rolled_back" BY <1>1, <1>2, <2>3 DEF HeadAt
    <3>2. pos'[Recovery].step \in {"verify", "rmdir"} BY <1>1, <1>4, <2>3
    <3> QED BY <1>3, <1>6, <3>1, <3>2 DEF HeadAt
  <2> QED BY <2>1, <2>2, <2>3
<1>8. RunFacts'
  <2>1. pos'[Recovery].step \in {"confirm", "decide"} => pos[Recovery].step = "confirm" BY <1>1, <1>4
  <2>2. pos'[Recovery].step # "rollback" BY <1>1, <1>4
  <2>3. Required(Current)' = Required(Current) BY <1>3, <1>6 DEF Required, Participants, IsUndo
  <2> QED BY <1>2, <1>3, <1>6, <2>1, <2>2, <2>3 DEF RunFacts, FactIs
<1>9. pos'[Recovery].step \notin {"idle", "choose"} BY <1>1, <1>4
<1> QED BY <1>2, <1>3, <1>4, <1>7, <1>8, <1>9, RunMoves

\* A run completes a commit.
LEMMA RunDecidedRecords ==
    ASSUME MoveInv, MoveInv', RecordsInv,
           Decide(Recovery) \/ Drop(Recovery) \/ Dropped(Recovery) \/ FinishCommitted
    PROVE  RecordsInv'
<1>1. pos[Recovery].step \in Deciding BY DEF Decide, Drop, Dropped, FinishCommitted, At, Deciding
<1>2. /\ BaseInv /\ BaseInv' /\ TypeOK /\ lock = Recovery /\ due # <<>> /\ Recovery \in Workers
      /\ Current \in Calls /\ On(Recovery) = Current /\ HeadAt /\ RunFacts
      /\ journal[Current].state # "none" /\ journal[Current] \in Manifests
  BY <1>1, AtRun, RunIs DEF MoveInv, Deciding
<1>3. UNCHANGED <<task, due, derailed, misled>> /\ SameStores
  BY SameIs DEF Decide, Drop, Dropped, FinishCommitted, Stays, Rest, memory, history
<1>4. Seen # "rolled_back" BY <1>1, <1>2 DEF HeadAt, Deciding
<1>5. Fresh(Recovery) => /\ pos[Recovery].step = "decide" => journal[Current].state = Pending /\ AllFacts(Current)
                         /\ pos[Recovery].step # "decide" => journal[Current].state = "commit_decided"
  BY <1>1, <1>2, <1>4 DEF HeadAt, RunFacts, AllFacts, Deciding
<1>6. PICK n \in {"drop", "dropped", "finish", "sweep"} :
        /\ Goto(Recovery, n) \/ Loop(Recovery, n)
        /\ n = "sweep" <=> FinishCommitted
  <2>1. CASE Decide(Recovery)
    <3>1. PICK n \in {"drop", "finish"} : Goto(Recovery, n) BY <2>1, Zenon DEF Decide
    <3>2. ~FinishCommitted BY <2>1 DEF Decide, FinishCommitted, At
    <3> QED BY <3>1, <3>2
  <2>2. CASE Drop(Recovery) BY <2>2 DEF Drop, FinishCommitted, At
  <2>3. CASE Dropped(Recovery) BY <2>3 DEF Dropped, FinishCommitted, At
  <2>4. CASE FinishCommitted BY <2>4 DEF FinishCommitted
  <2> QED BY <2>1, <2>2, <2>3, <2>4
<1>7. Still(Recovery) /\ pos'[Recovery].step = n
  <2>1. n \in CallSteps \cup RunSteps BY DEF RunSteps
  <2> QED BY <1>2, <1>6, <2>1, GotoIs, LoopIs
<1>8. pos'[Recovery].step \notin Rolling \cup {"idle", "choose", "record", "verify", "probe", "confirm", "decide"}
  BY <1>7 DEF Rolling
<1>9. RunFacts' BY <1>8 DEF RunFacts, Rolling
<1>10. CASE UNCHANGED <<journal, stale>> /\ pos[Recovery].step # "decide" /\ n # "sweep"
  <2>1. Current' = Current /\ Seen' = Seen /\ (Fresh(Recovery)' <=> Fresh(Recovery))
    BY <1>2, <1>3, <1>10, LeftIs, RunReads
  <2>2. HeadAt' BY <1>4, <1>5, <1>7, <1>8, <1>10, <2>1 DEF HeadAt
  <2> QED BY <1>2, <1>3, <1>7, <1>8, <1>9, <1>10, <2>2, RunMoves
<1>11. CASE ~(UNCHANGED <<journal, stale>> /\ pos[Recovery].step # "decide" /\ n # "sweep")
  <2>1. /\ Fresh(Recovery) /\ Wrote(Recovery) /\ journal'[Current].facts = journal[Current].facts
        /\ journal'[Current].state = IF n = "sweep" THEN "committed" ELSE "commit_decided"
    <3>1. CASE Decide(Recovery)
      <4>1. ~FinishCommitted BY <3>1 DEF Decide, FinishCommitted, At
      <4>2. Become(Recovery, "commit_decided") /\ Fresh(Recovery) BY <3>1 DEF Decide
      <4> QED BY <1>2, <1>6, <4>1, <4>2, BecameIs DEF States
    <3>2. CASE Drop(Recovery)
      <4>1. ~FinishCommitted BY <3>2 DEF Drop, FinishCommitted, At
      <4> QED BY <1>6, <1>11, <3>2, <4>1 DEF Drop
    <3>3. CASE Dropped(Recovery)
      <4>1. ~FinishCommitted /\ pos[Recovery].step = "dropped" BY <3>3 DEF Dropped, FinishCommitted, At
      <4> DEFINE m == [journal[Current] EXCEPT !.dropped = TRUE]
      <4>2. m \in Manifests /\ m.state = journal[Current].state /\ m.facts = journal[Current].facts
        BY <1>2 DEF Manifests
      <4>3. Write(Recovery, m) /\ Fresh(Recovery) BY <1>2, <1>6, <1>11, <3>3, <4>1 DEF Dropped
      <4> HIDE DEF m
      <4>4. Wrote(Recovery) /\ journal'[Current] = m BY <1>2, <4>2, <4>3, WroteIs
      <4> QED BY <1>5, <1>6, <4>1, <4>2, <4>3, <4>4
    <3>4. CASE FinishCommitted
      <4>1. Become(Recovery, "committed") /\ Fresh(Recovery) BY <3>4 DEF FinishCommitted
      <4> QED BY <1>2, <1>6, <3>4, <4>1, BecameIs DEF States
    <3> QED BY <3>1, <3>2, <3>3, <3>4
  <2>2. Current' = Current /\ Seen' = Seen BY <1>3, <2>1, RunReads
  <2>3. HeadAt' BY <1>4, <1>7, <1>8, <2>1, <2>2 DEF HeadAt, Final
  <2>4. journal[Current].state \in Installed \ Final /\ journal'[Current].state \in Installed
        /\ journal'[Current].state # "none"
        /\ journal[Current].state \notin {"recovery_required", "rolling_back", "rolled_back"}
    BY <1>5, <2>1 DEF Installed, Final, Pending
  <2>5. journal[Current].state \in {"commit_decided", "committed"} \/ AllFacts(Current) BY <1>5, <2>1
  <2> QED BY <1>2, <1>3, <1>7, <1>8, <1>9, <2>1, <2>3, <2>4, <2>5, RunKeepsRecords
<1> QED BY <1>10, <1>11

LEMMA RolledBackRecords ==
    ASSUME MoveInv, MoveInv', RecordsInv, RolledBack
    PROVE  RecordsInv'
<1>1. pos[Recovery].step = "conclude" /\ pos[Recovery].step \in Rolling \ {"rollback"} BY DEF RolledBack, At, Rolling
<1>2. /\ BaseInv /\ BaseInv' /\ TypeOK /\ lock = Recovery /\ due # <<>> /\ Recovery \in Workers
      /\ Current \in Calls /\ On(Recovery) = Current /\ HeadAt
  BY <1>1, AtRun, RunIs DEF MoveInv
<1>3. UNCHANGED <<task, due, derailed, misled>> /\ SameStores BY SameIs DEF RolledBack, Rest, memory, history
<1>4. Still(Recovery) /\ pos'[Recovery].step = "record" BY <1>2, GotoIs DEF RolledBack, RunSteps
<1>5. "record" \notin Rolling BY DEF Rolling
<1>6. RunFacts' BY <1>4 DEF RunFacts
<1>7. CASE Seen = "rolled_back"
  <2>1. UNCHANGED <<journal, stale>> BY <1>7 DEF RolledBack
  <2>2. Current' = Current /\ Seen' = Seen BY <1>2, <1>3, <2>1, LeftIs, RunReads
  <2>3. journal[Current].state = "rolled_back" BY <1>2, <1>7 DEF HeadAt
  <2>4. HeadAt' BY <1>4, <1>5, <1>7, <2>1, <2>2, <2>3 DEF HeadAt, Final
  <2> QED BY <1>2, <1>3, <1>4, <1>6, <2>1, <2>4, RunMoves
<1>8. CASE Seen # "rolled_back"
  <2>1. Fresh(Recovery) /\ Become(Recovery, "rolled_back") BY <1>8 DEF RolledBack
  <2>2. Wrote(Recovery) /\ journal'[Current].state = "rolled_back" /\ journal'[Current].facts = journal[Current].facts
    BY <1>2, <2>1, BecameIs DEF States
  <2>3. journal[Current].state = "rolling_back" BY <1>1, <1>2, <1>8, <2>1 DEF HeadAt
  <2>4. Current' = Current /\ Seen' = Seen BY <1>3, <2>2, RunReads
  <2>5. HeadAt' BY <1>4, <1>5, <1>8, <2>2, <2>4 DEF HeadAt, Final
  <2>6. journal[Current].state \notin Installed \cup Final
        /\ journal'[Current].state \notin Installed \cup {"none", "commit_decided", "committed"}
    BY <2>2, <2>3 DEF Installed, Final, Pending
  <2> QED BY <1>2, <1>3, <1>4, <1>6, <2>2, <2>5, <2>6, RunKeepsRecords
<1> QED BY <1>7, <1>8

\* A run that finds an undo that has taken effect finds all of its participants.
LEMMA UndoneIsFound ==
    ASSUME TypeOK, StoreInv, Current \in Calls, Undone(Current), Standing(Current)
    PROVE  Found = Required(Current)
<1> DEFINE c == Current
<1>1. /\ \A i \in Required(c) : FactIs(c, i, "committed") => Effected(c, i)
      /\ {"change_set", "audit"} \subseteq Required(c)
      /\ Required(c) \subseteq {"change_set", "audit", "original_change_set"}
  BY OriginalIs DEF StoreInv, FactsAt
<1>2. changeset[c] # "none" BY <1>1 DEF Standing, Effected
<1>3. Evidence("change_set") = "present" /\ Evidence("audit") = "present"
  BY DEF Standing, FactIs, Evidence, M
<1>4. Evidence("original_change_set") = "present"
  BY <1>2 DEF Undone, Evidence
<1>5. \A i \in Required(c) : Evidence(i) = "present" BY <1>1, <1>3, <1>4
<1> QED BY <1>5 DEF Found

\* What it finds is in its store.
LEMMA FoundIsEffected ==
    ASSUME TypeOK, StoreInv, Current \in Calls, NEW i \in Found
    PROVE  i \in Required(Current) /\ Effected(Current, i)
<1>1. i \in Required(Current) /\ Evidence(i) = "present" BY DEF Found
<1>2. CASE FactIs(Current, i, "committed") BY <1>1, <1>2 DEF StoreInv, FactsAt
<1>3. CASE ~FactIs(Current, i, "committed")
  <2>1. M.facts[i] # "committed" BY <1>3 DEF FactIs, M
  <2>2. CASE i = "audit" BY <1>1, <2>1, <2>2 DEF Evidence, Effected
  <2>3. CASE i = "change_set" BY <1>1, <2>1, <2>3 DEF Evidence, Effected
  <2>4. CASE i = "original_change_set" BY <1>1, <2>1, <2>4 DEF Evidence, Effected
  <2> QED BY <1>1, <2>2, <2>3, <2>4, OriginalIs
<1> QED BY <1>1, <1>2, <1>3

LEMMA ProbeRecords ==
    ASSUME MoveInv, MoveInv', RecordsInv, Probe
    PROVE  RecordsInv'
<1>1. pos[Recovery].step = "probe" /\ Fresh(Recovery) BY DEF Probe, At
<1>22. PICK c \in Calls : c = Current BY <1>1, AtRun
<1> DEFINE facts == [i \in Required(c) |-> IF i \in Found THEN "committed" ELSE "failed"]
           m == [journal[c] EXCEPT !.facts = facts]
<1>2. /\ BaseInv /\ TypeOK /\ lock = Recovery /\ due # <<>>
      /\ c = Current /\ c \in Present /\ On(Recovery) = c
      /\ journal[c].state # "none" /\ journal[c] \in Manifests
      /\ HeadAt /\ StoreInv /\ UndoInv /\ FactsAt(c)
  BY <1>1, <1>22, AtRun
<1>3. BaseInv' /\ Recovery \in Workers /\ PhaseInv BY RunIs DEF MoveInv, RecordsInv
<1>4. UNCHANGED <<task, due, derailed, misled, changeset, audited>> BY DEF Probe, Rest, memory, history, records
<1>5. Seen # "rolled_back" /\ journal[c].state = Pending /\ ~pos[Recovery].rolling
  BY <1>1, <1>2 DEF HeadAt
<1>6. m \in Manifests /\ m.state = journal[c].state /\ m.facts = facts
  <2>1. facts \in [Required(c) -> {"pending", "committed", "failed"}] OBVIOUS
  <2>2. facts \in UNION {[S -> {"pending", "committed", "failed"}] :
                         S \in SUBSET {"change_set", "audit", "original_change_set"}}
    BY <2>1, RequiredIs
  <2> HIDE DEF facts
  <2> QED BY <1>2, <2>2 DEF Manifests
<1>7. Write(Recovery, m) BY <1>2 DEF Probe, M
<1>8. /\ DOMAIN facts = Required(c)
      /\ \A i \in Required(c) : facts[i] = IF i \in Found THEN "committed" ELSE "failed"
  OBVIOUS
<1> HIDE DEF facts, m
<1>9. Wrote(Recovery) /\ journal'[c] = m BY <1>1, <1>2, <1>3, <1>6, <1>7, WroteIs
<1>10. /\ journal'[c].state = Pending /\ DOMAIN journal'[c].facts = Required(c)
       /\ \A i \in Required(c) : (FactIs(c, i, "committed")' <=> i \in Found) /\ (FactIs(c, i, "failed")' <=> i \notin Found)
  BY <1>5, <1>6, <1>8, <1>9 DEF FactIs
<1>11. /\ Still(Recovery) /\ pos'[Recovery].rolling = pos[Recovery].rolling
       /\ pos'[Recovery].step = IF Found = Required(c) THEN "confirm" ELSE "rollback"
  <2> DEFINE s == IF Found = Required(c) THEN "confirm" ELSE "rollback"
  <2>1. Loop(Recovery, s) /\ s \in CallSteps \cup RunSteps BY <1>2 DEF Probe, RunSteps, Rolling
  <2> HIDE DEF s
  <2>2. Still(Recovery) /\ pos'[Recovery].rolling = pos[Recovery].rolling /\ pos'[Recovery].step = s
    BY <1>2, <1>3, <2>1, LoopIs
  <2> QED BY <2>2 DEF s
<1>12. Current' = c /\ Seen' = Seen /\ (Fresh(Recovery)' <=> Fresh(Recovery)) /\ Required(c)' = Required(c)
  BY <1>2, <1>4, <1>9, RunReads DEF Required, Participants, IsUndo
<1>13. HeadAt'
  <2>1. "confirm" \notin Rolling BY DEF Rolling
  <2> QED BY <1>2, <1>5, <1>10, <1>11, <1>12, <2>1 DEF HeadAt, Pending, Final
<1>14. PhaseInv'
  <2>1. journal[c].state \notin Final /\ journal'[c].state # "none" BY <1>5, <1>10 DEF Pending, Final
  <2>2. pos'[Recovery].step \notin {"idle", "choose"} BY <1>11
  <2> QED BY <1>2, <1>3, <1>4, <1>9, <1>11, <1>13, <2>1, <2>2, RunPhases
<1>15. RunFacts'
  <2>1. Found \subseteq Required(c) BY <1>2 DEF Found
  <2>2. Found = Required(c) => \A i \in Required(c) : FactIs(c, i, "committed")' BY <1>10
  <2>3. Found # Required(c) => \E i \in Required(c) : FactIs(c, i, "failed")' BY <1>10, <2>1
  <2> HIDE DEF FactIs
  <2> QED BY <1>11, <1>12, <2>2, <2>3 DEF RunFacts
<1>16. \A d \in Calls : pos'[d] = pos[d] BY <1>11, Constants DEF Still
<1>17. \A d \in Calls \ {c} : journal'[d] = journal[d] BY <1>2, <1>9 DEF Wrote
<1>18. pos[c].step \notin Held \cup Early
  <2>1. LockInv /\ OrderInv BY <1>2 DEF BaseInv
  <2>2. pos[c].step \notin Held BY <1>2, <2>1, Constants DEF LockInv
  <2>3. pos[c].step \notin {"idle", "waiting", "inspect"} BY <1>2, <2>1 DEF OrderInv
  <2> QED BY <2>2, <2>3 DEF Held, Early
<1>19. FactsAt(c)'
  <2>1. \A i \in Required(c) : Effected(c, i)' <=> Effected(c, i) BY <1>4 DEF Effected, Original
  <2>2. \A i \in Required(c) : FactIs(c, i, "committed")' => Effected(c, i)
    BY <1>2, <1>10, FoundIsEffected
  <2>3. pos'[c].step \notin Early \cup Deciding \cup Sharing BY <1>16, <1>2, <1>18 DEF Deciding, Sharing, Held
  <2>4. journal'[c].state \notin {"commit_decided", "committed"} BY <1>10 DEF Pending
  <2> HIDE DEF Effected, FactIs
  <2> QED BY <1>10, <1>12, <2>1, <2>2, <2>3, <2>4 DEF FactsAt
<1>20. StoreInv'
  <2>1. \A d \in Calls : d # c => FactsAt(d)' BY <1>2, <1>4, <1>16, <1>17, FactsStay DEF StoreInv
  <2> QED BY <1>15, <1>19, <2>1 DEF StoreInv, RunFacts
<1>21. UndoInv'
  <2>1. c \notin derailed BY <1>2, <1>5 DEF UndoInv, Pending
  <2>2. CASE ~Undone(c) BY <1>2, <1>4, <1>16, <1>17, <2>1, <2>2, UndoOthers
  <2>3. CASE Undone(c)
    <3>1. Unended(c) BY <1>5 DEF Unended, Pending, Final
    <3>2. Carried(c) \/ c \in misled BY <1>2, <2>1, <2>3, <3>1 DEF UndoInv
    <3>10. c \in misled => pos'[c].step \notin Early \cup Deciding \cup {"effect", "fact"}
      BY <1>2, <1>16 DEF UndoInv
    <3>11. CASE c \in misled
      <4>1. Ending(c) /\ Ending(c)' BY <1>4, <3>11 DEF Ending
      <4> QED BY <1>2, <1>4, <1>16, <1>17, <2>1, <3>10, <3>11, <4>1, UndoStands
    <3> SUFFICES ASSUME Carried(c) PROVE UndoInv' BY <3>2, <3>11
    <3>3. Standing(c) BY DEF Carried
    <3>4. Found = Required(c) BY <1>2, <2>3, <3>3, UndoneIsFound
    <3>5. \A i \in {"change_set", "audit"} : FactIs(c, i, "committed")' BY <1>2, <1>10, <3>4, OriginalIs
    <3>6. IsUndo(c) => ~FactIs(c, "original_change_set", "failed")' BY <1>2, <1>10, <3>4, OriginalIs
    <3>7. Standing(c)' BY <1>10, <2>3, <3>5, <3>6 DEF Standing, Undone
    <3>8. pos'[c].step = "over" BY <1>16, <1>18, <1>2 DEF Carried, Deciding, Held
    <3>9. Carried(c)' BY <3>7, <3>8 DEF Carried
    <3>12. Ending(c) /\ Ending(c)' BY <3>3, <3>7 DEF Ending
    <3> QED BY <1>2, <1>4, <1>16, <1>17, <2>1, <3>9, <3>10, <3>12, UndoStands
  <2> QED BY <2>2, <2>3
<1> QED BY <1>14, <1>20, <1>21 DEF RecordsInv

\* The run has recorded what became of a manifest, and goes on to the next.
LEMMA RecordedRecords ==
    ASSUME MoveInv, MoveInv', RecordsInv, Recorded
    PROVE  RecordsInv'
<1> USE Constants
<1>1. pos[Recovery].step = "record" BY DEF Recorded, At
<1>2. /\ BaseInv /\ TypeOK /\ lock = Recovery /\ due # <<>>
      /\ Current \in Calls /\ On(Recovery) = Current /\ HeadAt /\ PhaseInv
  BY <1>1, AtRun DEF RecordsInv
<1>3. BaseInv' BY DEF MoveInv
<1>4. UNCHANGED <<task, derailed, misled, changeset, audited, journal, stale, lock>> /\ due' = Tail(due) /\ SameStores
  BY SameIs DEF Recorded, memory, history, records
<1>5. Still(Recovery) /\ pos'[Recovery].step = "choose" BY <1>2, GotoIs DEF Recorded, RunSteps
<1>6. \A d \in Calls : pos'[d] = pos[d] /\ On(d) = d /\ On(d)' = d BY <1>5 DEF Still, On
<1>7. Ready(Recovery) BY <1>2, RunIs DEF Ready
<1>8. Current = due[1].call /\ Len(due) \in Nat \ {0} BY <1>2, <1>7, ReadyIs
<1>9. /\ Len(due') = Len(due) - 1
      /\ \A i \in 1..Len(due') : i + 1 \in 1..Len(due) /\ due'[i] = due[i + 1]
  <2> DEFINE S == [call : Calls, state : States]
  <2>1. due \in Seq(S) BY <1>2 DEF TypeOK, MemoryOK
  <2> HIDE DEF S
  <2> QED BY <1>4, <1>8, <2>1
<1>10. ScanInv'
  <2>1. ScanInv BY <1>2 DEF PhaseInv
  <2>2. /\ \A d \in Present : journal[d].state \in Final \/ \E i \in 1..Len(due) : due[i].call = d
        /\ \A i, j \in 1..Len(due) : due[i].call = due[j].call => i = j
        /\ \A i \in 1..Len(due) :
             i # 1 /\ (due[i].state \in Final \/ <<Recovery, due[i].call>> \notin stale)
             => due[i].state = journal[due[i].call].state
    BY <1>2, <2>1 DEF ScanInv
  <2>3. journal[due[1].call].state \in Final BY <1>1, <1>2, <1>8 DEF HeadAt
  <2>4. \A d \in Present' : journal'[d].state \in Final \/ \E i \in 1..Len(due') : due'[i].call = d
    <3> SUFFICES ASSUME NEW d \in Present, journal[d].state \notin Final
                 PROVE  \E i \in 1..Len(due') : due'[i].call = d
      BY <1>4 DEF Present
    <3>1. PICK k \in 1..Len(due) : due[k].call = d BY <2>2
    <3>2. k # 1 BY <2>3, <3>1
    <3>3. k - 1 \in 1..Len(due') /\ (k - 1) + 1 = k BY <1>8, <1>9, <3>2
    <3>4. due'[k - 1].call = d BY <1>9, <3>1, <3>3
    <3> QED BY <3>3, <3>4
  <2>5. ASSUME NEW i \in 1..Len(due'), due'[i].state \in Final \/ <<Recovery, due'[i].call>> \notin stale
        PROVE  due'[i].state = journal[due'[i].call].state
    <3>1. i + 1 \in 1..Len(due) /\ due'[i] = due[i + 1] /\ i + 1 # 1 BY <1>9
    <3> QED BY <2>2, <2>5, <3>1
  <2>6. \A i, j \in 1..Len(due') : due'[i].call = due'[j].call => i = j
    <3> SUFFICES ASSUME NEW i \in 1..Len(due'), NEW j \in 1..Len(due'), due'[i].call = due'[j].call
                 PROVE  i = j
      OBVIOUS
    <3>1. /\ i + 1 \in 1..Len(due) /\ due'[i] = due[i + 1]
          /\ j + 1 \in 1..Len(due) /\ due'[j] = due[j + 1]
      BY <1>9
    <3>2. i + 1 = j + 1 BY <2>2, <3>1
    <3> QED BY <3>2
  <2> QED BY <1>4, <1>5, <2>4, <2>5, <2>6 DEF ScanInv
<1>11. PhaseInv'
  <2>1. \A d \in Calls : pos'[d].step \notin Held BY <1>2, <1>6 DEF BaseInv, LockInv
  <2> QED BY <1>2, <1>4, <1>6, <1>10, <2>1 DEF PhaseInv, Fresh
<1>12. RunFacts' BY <1>5 DEF RunFacts
<1>13. \A d \in Calls : Advances(d) BY <1>6 DEF Advances
<1> QED BY <1>2, <1>3, <1>4, <1>6, <1>11, <1>12, <1>13, RestKeepsRecords

\* The run has visited everything, and the lock goes to a call that waits: it
\* finds no manifest that is not at its end.
LEMMA RunEndsRecords ==
    ASSUME MoveInv, MoveInv', RecordsInv, RunEnds
    PROVE  RecordsInv'
<1> USE Constants
<1>1. BaseInv /\ BaseInv' /\ TypeOK /\ LockInv /\ OrderInv /\ PhaseInv BY DEF MoveInv, BaseInv, RecordsInv
<1>2. pos[Recovery].step = "choose" /\ due = <<>> /\ lock = Recovery BY <1>1 DEF RunEnds, At, LockInv
<1>3. UNCHANGED <<task, derailed, misled, changeset, audited, journal, stale, due>> /\ SameStores
  BY SameIs DEF RunEnds, records
<1> DEFINE r == [Resting EXCEPT !.step = "over"]
           s == [Resting EXCEPT !.step = "inspect"]
<1>4. r.step = "over" /\ s.step = "inspect" /\ Resting.step = "idle" BY DEF Resting
<1>5. pos \in [Workers -> Positions] BY <1>1 DEF TypeOK, MemoryOK
<1>6. PICK c \in Calls \cup {None} :
        /\ lock' = c /\ pos'[Recovery].step = "idle"
        /\ c \in Calls => pos[c].step = "waiting" /\ pos'[c].step = "inspect"
        /\ \A d \in Calls \ {c} : IF pos[d].step = "waiting" THEN pos'[d].step = "over" ELSE pos'[d] = pos[d]
  <2>1. CASE Waiting = {}
    <3>1. lock' = None /\ pos' = [pos EXCEPT ![Recovery] = Resting] BY <2>1 DEF RunEnds
    <3>2. \A d \in Calls : pos[d].step # "waiting" BY <2>1 DEF Waiting
    <3>3. pos'[Recovery] = Resting /\ \A d \in Calls : pos'[d] = pos[d] BY <1>5, <3>1
    <3> QED BY <1>4, <3>1, <3>2, <3>3
  <2>2. CASE Waiting # {}
    <3>1. PICK c \in Waiting :
            /\ lock' = c
            /\ pos' = [w \in Workers |-> CASE w = Recovery -> Resting
                                          [] w = c -> s
                                          [] w \in Waiting \ {c} -> r
                                          [] OTHER -> pos[w]]
      BY <2>2 DEF RunEnds
    <3>2. c \in Calls /\ pos[c].step = "waiting" /\ c # Recovery BY DEF Waiting
    <3> HIDE DEF r, s
    <3>3. pos'[Recovery] = Resting
      <4>1. Recovery \notin Waiting BY DEF Waiting
      <4> QED BY <3>1, <3>2, <4>1
    <3>4. pos'[c] = s BY <3>1, <3>2
    <3>5. \A d \in Calls \ {c} : pos'[d] = IF pos[d].step = "waiting" THEN r ELSE pos[d]
      BY <3>1, <3>2 DEF Waiting
    <3>6. /\ lock' = c /\ pos'[Recovery].step = "idle"
          /\ c \in Calls => pos[c].step = "waiting" /\ pos'[c].step = "inspect"
          /\ \A d \in Calls \ {c} : IF pos[d].step = "waiting" THEN pos'[d].step = "over" ELSE pos'[d] = pos[d]
      BY <1>4, <3>1, <3>2, <3>3, <3>4, <3>5
    <3> QED BY <3>2, <3>6
  <2> QED BY <2>1, <2>2
<1> HIDE DEF r, s
<1>7. \A d \in Calls : pos[d].step \notin Held BY <1>1, <1>2 DEF LockInv
<1>8. ASSUME NEW d \in Calls
      PROVE  \/ d = c /\ pos[d].step = "waiting" /\ pos'[d].step = "inspect"
             \/ d # c /\ pos'[d].step = "over"
             \/ d # c /\ pos'[d] = pos[d]
  BY <1>6
<1>9. PhaseInv'
  <2>1. lock' # Recovery BY <1>6
  <2>2. \A d \in Present : journal[d].state \in Final
    <3>1. ScanInv BY <1>1 DEF PhaseInv
    <3>2. Len(due) = 0 BY <1>2
    <3> QED BY <1>2, <3>1, <3>2 DEF ScanInv
  <2>3. ASSUME NEW d \in Calls, pos'[d].step \in Held
        PROVE  journal'[d].state \in StateAt(pos'[d].step)
    <3>1. "over" \notin Held BY DEF Held, Committing
    <3>2. pos[d].step = "waiting" /\ pos'[d].step = "inspect" BY <1>7, <1>8, <2>3, <3>1
    <3>3. journal[d].state = "none" BY <1>1, <3>2 DEF OrderInv
    <3> QED BY <1>3, <3>2, <3>3 DEF StateAt, Committing
  <2>4. ASSUME NEW d \in Calls, pos'[d].step \in Undoing PROVE pos'[d] = pos[d]
    <3>1. "over" \notin Undoing /\ "inspect" \notin Undoing BY DEF Undoing, Rolling
    <3> QED BY <1>8, <2>4, <3>1
  <2>5. \A d \in Calls : On(d)' = d /\ On(d) = d BY DEF On
  <2> QED BY <1>1, <1>3, <2>1, <2>2, <2>3, <2>4, <2>5 DEF PhaseInv, ScanInv, Present, Fresh
<1>10. RunFacts' BY <1>6 DEF RunFacts
<1>11. /\ {"inspect", "waiting"} \subseteq Early /\ "inspect" \notin Deciding \cup Sharing
       /\ "over" \notin Early \cup Deciding \cup Sharing \cup Held
  BY DEF Early, Committing, Deciding, Sharing, Held
<1>12. \A d \in Calls : Advances(d) BY <1>8, <1>11 DEF Advances
<1>13. \A d \in Calls : pos'[d].step \in Held \cup {"waiting"} => pos[d].step \in Held \cup {"waiting"}
  BY <1>8, <1>11
<1>14. \A d \in Calls : Carried(d) => pos'[d].step \in Deciding \cup {"over"} \/ pos'[d].step = pos[d].step
  BY <1>8 DEF Carried, Deciding
<1> QED BY <1>1, <1>3, <1>9, <1>10, <1>12, <1>13, <1>14, RestKeepsRecords

\* What a run that fails leaves of the records.
LEMMA RunFailsWrites ==
    ASSUME MoveInv, RecordsInv, RunFails
    PROVE  /\ BaseInv /\ TypeOK /\ RecordsInv /\ lock = Recovery /\ Current \in Calls /\ Current \in Present
           /\ UNCHANGED <<task, misled>> /\ SameStores /\ SameFacts /\ derailed \subseteq derailed'
           /\ \A d \in Calls : \/ journal'[d] = journal[d] /\ (d \in derailed' => d \in derailed)
                               \/ /\ d = Current /\ journal[d].state \notin Final
                                  /\ journal'[d].state = "recovery_required"
                                  /\ d \in derailed' <=> d \in derailed \/ Decided
<1>1. BaseInv /\ TypeOK BY DEF MoveInv, BaseInv
<1>2. /\ lock = Recovery /\ Ready(Recovery) /\ Current \in Calls
      /\ UNCHANGED <<changeset, audited, task>>
  BY RunFailsLeaves
<1>3. Current \in Present BY <1>1, <1>2, RunIs, ReadyIs
<1>4. SameStores BY <1>2, SameIs DEF records
<1>5. journal \in [Calls -> Manifests] /\ derailed \subseteq Calls BY <1>1 DEF TypeOK, RecordsOK, HistoryOK
<1>6. CASE M.state \in Final
  <2>1. UNCHANGED <<journal, derailed, misled>> BY <1>6 DEF RunFails
  <2> QED BY <1>1, <1>2, <1>3, <1>4, <2>1 DEF SameFacts
<1>7. CASE M.state \notin Final
  <2>10. misled' = misled BY DEF RunFails
  <2> DEFINE m == [journal[Current] EXCEPT !.state = "recovery_required"]
  <2>1. journal[Current] \in Manifests BY <1>2, <1>5
  <2>2. m.state = "recovery_required" /\ m.facts = journal[Current].facts BY <2>1 DEF Manifests
  <2>3. journal' = [journal EXCEPT ![Current] = m] BY <1>5, <1>7 DEF RunFails
  <2> HIDE DEF m
  <2>4. journal'[Current] = m /\ \A d \in Calls : d # Current => journal'[d] = journal[d]
    BY <1>2, <1>5, <2>3
  <2>5. derailed' = derailed \cup IF Decided THEN {Current} ELSE {} BY <1>7 DEF RunFails
  <2>6. derailed \subseteq derailed' /\ \A d \in Calls : d # Current => (d \in derailed' => d \in derailed) BY <2>5
  <2>7. Current \in derailed' <=> Current \in derailed \/ Decided BY <2>5
  <2>8. SameFacts BY <2>2, <2>4 DEF SameFacts
  <2>9. journal[Current].state \notin Final BY <1>7 DEF M
  <2> QED BY <1>1, <1>2, <1>3, <1>4, <2>2, <2>4, <2>6, <2>7, <2>8, <2>9, <2>10
<1> QED BY <1>6, <1>7

\* What it leaves of the server.
LEMMA RunFailsEnds ==
    ASSUME MoveInv, RunFails
    PROVE  /\ (lock' = None /\ pos'[Recovery].step = "idle" /\ stale \subseteq stale') \/ Ends
           /\ \A d \in Calls : /\ pos'[d].step \in {"over", pos[d].step}
                               /\ pos'[d].step \notin Held \cup {"waiting"}
                               /\ Ends => pos'[d].step \in {"idle", "over"}
<1> USE Constants
<1>1. BaseInv /\ TypeOK /\ LockInv BY DEF MoveInv, BaseInv
<1>2. lock = Recovery BY RunFailsLeaves
<1>3. \A d \in Calls : pos[d].step \notin Held BY <1>1, <1>2 DEF LockInv
<1> DEFINE r == [Resting EXCEPT !.step = "over"]
<1>4. r.step = "over" /\ Resting.step = "idle" BY DEF Resting
<1>5. {"idle", "over", "waiting"} \cap Held = {} BY DEF Held, Committing
<1>6. CASE Waiting = {}
  <2>1. Ends BY <1>6 DEF RunFails
  <2>2. pos' = [w \in Workers |-> IF w = Recovery \/ pos[w].step = "idle" THEN Resting ELSE r] BY <2>1 DEF Ends
  <2> HIDE DEF r
  <2> QED BY <1>4, <1>5, <2>1, <2>2
<1>7. CASE Waiting # {}
  <2>1. /\ pos' = [w \in Workers |-> CASE w = Recovery -> Resting
                                      [] w \in Waiting -> r
                                      [] OTHER -> pos[w]]
        /\ lock' = None /\ stale \subseteq stale'
    BY <1>7 DEF RunFails
  <2> HIDE DEF r
  <2>2. pos'[Recovery] = Resting
    <3>1. Recovery \notin Waiting BY DEF Waiting
    <3> QED BY <2>1, <3>1
  <2>3. \A d \in Calls : pos'[d] = IF pos[d].step = "waiting" THEN r ELSE pos[d]
    BY <2>1 DEF Waiting
  <2>4. ASSUME Ends, NEW d \in Calls PROVE pos'[d].step \in {"idle", "over"}
    BY <1>4, <2>4 DEF Ends
  <2> QED BY <1>3, <1>4, <1>5, <2>1, <2>2, <2>3, <2>4
<1> QED BY <1>6, <1>7

LEMMA RunFailsRecords ==
    ASSUME MoveInv, MoveInv', RecordsInv, RunFails
    PROVE  RecordsInv'
<1> USE Constants
<1>1. /\ BaseInv /\ TypeOK /\ lock = Recovery /\ Current \in Calls /\ Current \in Present
      /\ UNCHANGED <<task, misled>> /\ SameStores /\ SameFacts /\ derailed \subseteq derailed'
      /\ \A d \in Calls : \/ journal'[d] = journal[d] /\ (d \in derailed' => d \in derailed)
                          \/ /\ d = Current /\ journal[d].state \notin Final
                             /\ journal'[d].state = "recovery_required"
                             /\ d \in derailed' <=> d \in derailed \/ Decided
  BY RunFailsWrites
<1>2. BaseInv' /\ PhaseInv /\ StoreInv /\ UndoInv BY DEF MoveInv, RecordsInv
<1>3. /\ (lock' = None /\ pos'[Recovery].step = "idle" /\ stale \subseteq stale') \/ Ends
      /\ \A d \in Calls : /\ pos'[d].step \in {"over", pos[d].step}
                          /\ pos'[d].step \notin Held \cup {"waiting"}
                          /\ Ends => pos'[d].step \in {"idle", "over"}
  BY RunFailsEnds
<1>4. PhaseInv'
  <2>1. CASE Ends BY <1>2, <2>1, EndsPhases
  <2>2. CASE lock' = None /\ stale \subseteq stale'
    <3>1. ASSUME NEW d \in Calls, pos'[d].step \in Undoing, journal'[d].state \in Final
          PROVE  <<d, d>> \in stale'
      <4>1. "over" \notin Undoing /\ "recovery_required" \notin Final BY DEF Undoing, Rolling, Final
      <4>2. pos[d].step \in Undoing /\ journal'[d] = journal[d] BY <1>1, <1>3, <3>1, <4>1
      <4> QED BY <1>2, <2>2, <3>1, <4>2 DEF PhaseInv, Fresh, On
    <3>2. \A d \in Calls : On(d)' = d BY DEF On
    <3> QED BY <1>3, <2>2, <3>1, <3>2 DEF PhaseInv, ScanInv, Fresh
  <2> QED BY <1>3, <2>1, <2>2
<1>5. RunFacts'
  <2>1. pos'[Recovery].step = "idle" BY <1>3, <1>1 DEF Ends, Resting
  <2> QED BY <2>1 DEF RunFacts
<1>6. \A d \in Calls : Advances(d)
  <2>1. "over" \notin Early \cup Deciding \cup Sharing BY DEF Early, Committing, Deciding, Sharing
  <2> QED BY <1>3, <2>1 DEF Advances
<1>7. StoreInv'
  <2>1. \A d \in Calls : journal'[d].state \in {"commit_decided", "committed"} =>
               journal[d].state \in {"commit_decided", "committed"} \/ AllFacts(d)
    BY <1>1
  <2> HIDE DEF AllFacts
  <2> QED BY <1>1, <1>2, <1>5, <1>6, <2>1, StoreStep
<1>8. UndoInv'
  <2>1. \A d \in Calls : changeset'[d] = "undone" <=> changeset[d] = "undone" BY <1>1 DEF SameStores
  <2>2. \A d \in derailed' : journal'[d].state \in {"recovery_required", "rolling_back", "rolled_back"}
    <3>1. derailed' \subseteq Calls BY <1>2 DEF BaseInv, TypeOK, HistoryOK
    <3> QED BY <1>1, <1>2, <3>1 DEF UndoInv
  <2>3. ASSUME NEW d \in Calls, Undone(d), Standing(d)
        PROVE  journal'[d].state \in Installed \/ d \in derailed' \cup misled'
    <3>1. CASE journal'[d] = journal[d] BY <2>3, <3>1 DEF Standing, Installed
    <3>2. CASE d = Current /\ journal[d].state \notin Final /\ (d \in derailed' <=> d \in derailed \/ Decided)
      <4>1. journal[d].state \in {Pending, "commit_decided"} BY <2>3, <3>2 DEF Standing, Final
      <4>2. Found = Required(Current) BY <1>1, <1>2, <2>3, <3>2, UndoneIsFound
      <4>3. Decided BY <3>2, <4>1, <4>2 DEF Decided, M
      <4> QED BY <3>2, <4>3
    <3> QED BY <1>1, <3>1, <3>2
  <2>4. \A d \in Calls : journal'[d].state \in Installed =>
               journal[d].state \in Installed \/ FactIs(d, "change_set", "pending")
    <3>1. "recovery_required" \notin Installed BY DEF Installed, Pending
    <3> QED BY <1>1, <3>1
  <2>5. \A d \in Calls : Undone(d) /\ Unended(d)' => Unended(d)
    <3> SUFFICES ASSUME NEW d \in Calls, Unended(d)' PROVE Unended(d) OBVIOUS
    <3>1. journal'[d].state \notin {"none"} \cup Final BY <1>3 DEF Unended
    <3>2. CASE journal'[d] = journal[d] BY <3>1, <3>2 DEF Unended
    <3>3. CASE d = Current /\ journal[d].state \notin Final BY <1>1, <3>3 DEF Unended, Present
    <3> QED BY <1>1, <3>2, <3>3
  <2>6. \A d \in Calls : Carried(d) =>
               pos'[d].step \in Deciding \cup {"over"} \/ pos'[d].step = pos[d].step
    BY <1>3
  <2> HIDE DEF Unended, Carried, Standing, Undone, FactIs, Advances
  <2> QED BY <1>1, <1>2, <1>6, <2>1, <2>2, <2>3, <2>4, <2>5, <2>6, UndoStep
<1> QED BY <1>4, <1>7, <1>8 DEF RecordsInv

LEMMA RecoveryStepRecords ==
    ASSUME MoveInv, MoveInv', RecordsInv, RecoveryStep
    PROVE  RecordsInv'
BY ChooseRecords, CompensateRecords, ProbeRecords, RunLoopRecords, RecordedRecords, RunRollbackRecords,
   RolledBackRecords, RunDecidedRecords, RunEndsRecords, RunFailsRecords
   DEF RecoveryStep
-----------------------------------------------------------------------------
(* The server and its surroundings.                                         *)

\* A call that does not wait is over, and what a call waits for has not been done.
LEMMA StartRunRecords ==
    ASSUME MoveInv, MoveInv', RecordsInv, lock = None, StartRun, pos'[Recovery].step = "choose",
           UNCHANGED <<journal, order, derailed, misled, changeset, audited>>,
           \A d \in Calls : pos'[d] = pos[d] \/ (pos[d].step = "idle" /\ pos'[d].step = "waiting" /\ ~Undone(d))
    PROVE  RecordsInv'
<1>1. BaseInv /\ BaseInv' /\ PhaseInv BY DEF MoveInv, RecordsInv
<1>2. task' = task /\ SameStores BY SameIs DEF StartRun, records
<1>3. "waiting" \in Early /\ "waiting" \notin Held \cup Undoing \cup Deciding \cup Sharing
  BY DEF Early, Held, Committing, Undoing, Rolling, Deciding, Sharing
<1>4. "idle" \in Early /\ "idle" \notin Deciding \cup {"over", "fact"} BY DEF Early, Deciding
<1>5. PhaseInv'
  <2>1. \A d \in Calls : pos'[d].step \in Undoing => pos[d].step \in Undoing BY <1>3
  <2>2. lock # Recovery BY Constants
  <2> QED BY <1>1, <2>1, <2>2, StartRunPhases
<1>6. RunFacts' BY DEF RunFacts
<1>7. \A d \in Calls : Advances(d) BY <1>3, <1>4 DEF Advances
<1>8. \A d \in Calls : Undone(d) /\ pos'[d].step \in Held \cup {"waiting"} => pos[d].step \in Held \cup {"waiting"}
  OBVIOUS
<1>9. \A d \in Calls : Carried(d) => pos'[d].step \in Deciding \cup {"over"} \/ pos'[d].step = pos[d].step
  BY <1>4 DEF Carried
<1> HIDE DEF StartRun, Undone, Carried, Advances
<1> QED BY <1>1, <1>2, <1>5, <1>6, <1>7, <1>8, <1>9, RestKeepsRecords

LEMMA EndsRecords ==
    ASSUME MoveInv, MoveInv', RecordsInv, Ends, UNCHANGED <<journal, derailed, misled, changeset, audited>>
    PROVE  RecordsInv'
<1>1. BaseInv /\ BaseInv' BY DEF MoveInv
<1>2. task' = task /\ SameStores BY SameIs DEF Ends, records
<1>3. PhaseInv' BY <1>1, EndsPhases
<1>4. pos'[Recovery].step = "idle" /\ \A d \in Calls : pos'[d].step = IF pos[d].step = "idle" THEN "idle" ELSE "over"
  BY Constants DEF Ends, Resting
<1>5. RunFacts' BY <1>4 DEF RunFacts
<1>6. {"idle", "over"} \cap (Held \cup Deciding \cup Sharing \cup {"waiting"}) = {} /\ "over" \notin Early
  BY DEF Early, Held, Committing, Deciding, Sharing
<1>7. \A d \in Calls : Advances(d) BY <1>4, <1>6 DEF Advances
<1>8. \A d \in Calls : pos'[d].step \notin Held \cup {"waiting"} BY <1>4, <1>6
<1>9. \A d \in Calls : pos'[d].step \in Deciding \cup {"over"} \/ pos'[d].step = pos[d].step BY <1>4
<1> HIDE DEF Ends, Advances
<1> QED BY <1>1, <1>2, <1>3, <1>5, <1>7, <1>8, <1>9, RestKeepsRecords

LEMMA AskRecords ==
    ASSUME MoveInv, MoveInv', RecordsInv, NEW c \in Calls, Ask(c)
    PROVE  RecordsInv'
<1> USE Constants
<1>1. BaseInv /\ BaseInv' /\ TypeOK /\ PhaseInv BY DEF MoveInv, BaseInv, RecordsInv
<1>2. pos[c].step = "idle" /\ UNCHANGED <<journal, order, derailed, misled, changeset, audited>> /\ SameStores
  BY SameIs DEF Ask, records
<1>3. CASE UNCHANGED <<memory, stale, raced>> /\ (Over(c) \/ (lock = Recovery /\ Goto(c, "waiting") /\ ~Undone(c)))
  <2>1. UNCHANGED <<task, due, stale, journal>> BY <1>2, <1>3 DEF memory
  <2>2. Still(c) /\ (pos'[c].step = "over" \/ (pos'[c].step = "waiting" /\ ~Undone(c)))
    <3>1. CASE Over(c) BY <1>1, <3>1, OverIs
    <3>2. CASE Goto(c, "waiting") /\ ~Undone(c) BY <1>1, <3>2, GotoIs DEF CallSteps
    <3> QED BY <1>3, <3>1, <3>2
  <2>3. \A d \in Calls : d # c => pos'[d] = pos[d] BY <2>2 DEF Still
  <2>4. pos'[Recovery] = pos[Recovery] BY <2>2 DEF Still
  <2>5. {"over", "waiting"} \cap (Held \cup Undoing \cup Deciding \cup Sharing) = {} /\ "idle" \in Early
        /\ "idle" \notin Deciding \cup {"over", "fact"}
    BY DEF Held, Committing, Undoing, Rolling, Deciding, Sharing, Early
  <2>6. PhaseInv' BY <1>1, <2>1, <2>2, <2>5, CallRests
  <2>7. RunFacts'
    <3>1. RunFacts BY DEF RecordsInv, StoreInv, RunFacts
    <3> QED BY <2>1, <2>4, <3>1 DEF RunFacts, Fresh, On, Current, Required, Participants, IsUndo, FactIs
  <2>8. \A d \in Calls : Advances(d) BY <1>2, <2>2, <2>3, <2>5 DEF Advances
  <2>9. \A d \in Calls : Undone(d) /\ pos'[d].step \in Held \cup {"waiting"} => pos[d].step \in Held \cup {"waiting"}
    BY <2>2, <2>3, <2>5
  <2>10. \A d \in Calls : Carried(d) => pos'[d].step \in Deciding \cup {"over"} \/ pos'[d].step = pos[d].step
    BY <1>2, <2>3, <2>5 DEF Carried
  <2> HIDE DEF Undone, Carried, Advances
  <2> QED BY <1>1, <1>2, <2>1, <2>6, <2>7, <2>8, <2>9, <2>10, RestKeepsRecords
<1>4. CASE /\ lock = None /\ StartRun /\ ~Undone(c)
           /\ pos' = [pos EXCEPT ![c].step = "waiting", ![Recovery].step = "choose"]
  <2> DEFINE r == [pos[c] EXCEPT !.step = "waiting"]
             s == [pos[Recovery] EXCEPT !.step = "choose"]
  <2>1. pos \in [Workers -> Positions] BY <1>1 DEF TypeOK, MemoryOK
  <2>2. r.step = "waiting" BY <2>1 DEF Positions
  <2>3. s.step = "choose" BY <2>1 DEF Positions
  <2>4. pos' = [[pos EXCEPT ![c] = r] EXCEPT ![Recovery] = s] BY <1>4, <2>1
  <2> HIDE DEF r, s
  <2>5. /\ pos'[Recovery].step = "choose" /\ pos'[c].step = "waiting"
        /\ \A v \in Workers \ {c, Recovery} : pos'[v] = pos[v]
    BY <2>1, <2>2, <2>3, <2>4
  <2>6. \A d \in Calls : pos'[d] = pos[d] \/ (pos[d].step = "idle" /\ pos'[d].step = "waiting" /\ ~Undone(d))
    BY <1>2, <1>4, <2>5
  <2> QED BY <1>2, <1>4, <2>5, <2>6, StartRunRecords
<1>5. ~(IsUndo(c) /\ changeset[Original(c)] # "active") => ~Undone(c) BY DEF Undone
<1>6. lock \notin {None, Recovery} \/ lock = Recovery \/ lock = None OBVIOUS
<1> QED BY <1>3, <1>4, <1>5, <1>6 DEF Ask

LEMMA UseWorkspaceRecords ==
    ASSUME MoveInv, MoveInv', RecordsInv, UseWorkspace
    PROVE  RecordsInv'
<1>1. TypeOK BY DEF MoveInv, BaseInv
<1>2. UNCHANGED <<journal, order, derailed, misled, changeset, audited>> BY DEF UseWorkspace, records
<1>3. CASE frozen
  <2>1. Ends BY <1>3 DEF UseWorkspace
  <2> QED BY <1>2, <2>1, EndsRecords
<1>4. CASE ~frozen
  <2>1. lock = None /\ StartRun /\ Goto(Recovery, "choose") BY <1>4 DEF UseWorkspace
  <2>2. Still(Recovery) /\ pos'[Recovery].step = "choose" BY <1>1, <2>1, Constants, GotoIs DEF RunSteps
  <2>3. \A d \in Calls : pos'[d] = pos[d] BY <2>2, Constants DEF Still
  <2> QED BY <1>2, <2>1, <2>2, <2>3, StartRunRecords
<1> QED BY <1>3, <1>4

\* Nothing of what the invariant is about changes.
LEMMA SameRecords ==
    ASSUME MoveInv, MoveInv', RecordsInv,
           UNCHANGED <<journal, task, lock, due, pos, stale, changeset, audited, derailed, misled>>
    PROVE  RecordsInv'
<1>1. BaseInv /\ BaseInv' /\ PhaseInv BY DEF MoveInv, RecordsInv
<1>2. SameStores BY SameIs DEF records
<1>3. Present' = Present /\ Current' = Current /\ Seen' = Seen /\ (HeadAt' <=> HeadAt)
  BY DEF Present, Current, Seen, HeadAt, Fresh, On
<1>4. PhaseInv'
  <2>1. ScanInv' BY <1>1, <1>3 DEF PhaseInv, ScanInv
  <2>2. \A d \in Calls : Fresh(d)' <=> Fresh(d) BY DEF Fresh, On
  <2> QED BY <1>1, <1>3, <2>1, <2>2 DEF PhaseInv
<1>5. RunFacts'
  <2>1. RunFacts BY DEF RecordsInv, StoreInv, RunFacts
  <2> QED BY <2>1 DEF RunFacts, Fresh, On, Current, Required, Participants, IsUndo, FactIs
<1>6. \A d \in Calls : Advances(d) BY DEF Advances
<1> QED BY <1>1, <1>2, <1>4, <1>5, <1>6, RestKeepsRecords

LEMMA NextKeepsRecords ==
    ASSUME MoveInv, MoveInv', RecordsInv, [Next]_vars
    PROVE  RecordsInv'
<1>1. ASSUME NEW c \in Calls, Ask(c) \/ CallStep(c) PROVE RecordsInv' BY <1>1, AskRecords, CallStepRecords
<1>2. CASE RecoveryStep BY <1>2, RecoveryStepRecords
<1>3. CASE UseWorkspace BY <1>3, UseWorkspaceRecords
<1>4. CASE Crash
  <2>1. Ends /\ UNCHANGED <<journal, derailed, misled, changeset, audited>> BY <1>4 DEF Crash, records, history
  <2> QED BY <2>1, EndsRecords
<1>5. CASE OtherProgram
  <2>1. TypeOK BY DEF MoveInv, BaseInv
  <2>2. UNCHANGED <<derailed, misled>> BY <1>5 DEF OtherProgram
  <2> QED BY <1>5, <2>1, <2>2, OtherIs, SameRecords
<1>6. CASE UNCHANGED vars BY <1>6, SameRecords DEF vars, disk, records, memory, history
<1> QED BY <1>1, <1>2, <1>3, <1>4, <1>5, <1>6 DEF Next

\* At the start there is no manifest, and nothing in the stores.
LEMMA InitRecords == MoveInit => RecordsInv
<1> SUFFICES ASSUME MoveInit PROVE RecordsInv OBVIOUS
<1> USE Constants
<1>1. /\ journal = [c \in Calls |-> NoManifest(c)] /\ derailed = {} /\ misled = {} /\ lock = None
      /\ changeset = [c \in Calls |-> "none"] /\ audited = {}
      /\ pos = [v \in Workers |-> IF v # Recovery /\ task[v].plan = NoPlan
                                    THEN [Resting EXCEPT !.step = "over"] ELSE Resting]
  BY DEF MoveInit
<1>2. TypeOK BY InitKeeps DEF MoveInv, BaseInv
<1>3. pos[Recovery].step = "idle" /\ \A c \in Calls : pos[c].step \in {"idle", "over"} BY <1>1 DEF Resting
<1>4. \A c \in Calls : journal[c].state = "none" /\ journal[c].facts = [i \in Required(c) |-> "pending"]
  BY <1>1 DEF NoManifest
<1>5. {"idle", "over"} \cap (Held \cup Undoing \cup Deciding \cup Sharing) = {}
  BY DEF Held, Committing, Undoing, Rolling, Deciding, Sharing
<1>6. PhaseInv BY <1>1, <1>3, <1>5 DEF PhaseInv, ScanInv
<1>7. \A c \in Calls : FactsAt(c)
  <2> SUFFICES ASSUME NEW c \in Calls PROVE FactsAt(c) OBVIOUS
  <2>1. DOMAIN journal[c].facts = Required(c) /\ \A i \in Required(c) : FactIs(c, i, "pending") /\ ~FactIs(c, i, "committed")
    BY <1>4 DEF FactIs
  <2>2. changeset[c] = "none" /\ journal[c].state = "none" BY <1>1, <1>4
  <2>3. pos[c].step \notin Deciding \cup Sharing BY <1>3, <1>5
  <2> HIDE DEF FactIs
  <2> QED BY <2>1, <2>2, <2>3 DEF FactsAt
<1>8. StoreInv BY <1>3, <1>7 DEF StoreInv
<1>9. UndoInv
  <2>1. \A d \in Calls : changeset[d] # "undone" BY <1>1
  <2>2. \A c \in Calls : ~Undone(c) BY <1>2, <2>1, OriginalIs DEF Undone
  <2> QED BY <1>1, <2>1, <2>2 DEF UndoInv
<1> QED BY <1>6, <1>8, <1>9 DEF RecordsInv

\* The records agree where the invariant holds.
LEMMA RecordsFit ==
    ASSUME MoveInv, RecordsInv
    PROVE  RecordsAgree
<1>1. TypeOK /\ StoreInv /\ UndoInv BY DEF MoveInv, BaseInv, RecordsInv
<1>2. ASSUME NEW c \in Calls, journal[c].state = "committed"
      PROVE  /\ changeset[c] # "none" /\ c \in audited
             /\ IsUndo(c) => changeset[Original(c)] = "undone"
             /\ \A i \in Required(c) : FactIs(c, i, "committed")
  <2>1. \A i \in Required(c) : FactIs(c, i, "committed") /\ Effected(c, i) BY <1>1, <1>2 DEF StoreInv, FactsAt
  <2> QED BY <1>1, <2>1, OriginalIs DEF Effected
<1>3. ASSUME NEW d \in Calls, changeset[d] = "undone"
      PROVE  \E c \in Calls :
                /\ Reverts(c, d)
                /\ \/ journal[c].state \in {Pending, "commit_decided", "committed"}
                   \/ c \in derailed \cup misled
  BY <1>1, <1>3 DEF UndoInv, Ending, Standing, Reverts
<1>4. ASSUME NEW d \in Calls
      PROVE  Cardinality({c \in Calls : Reverts(c, d) /\ journal[c].state = "committed"}) <= 1
  <2> DEFINE S == {c \in Calls : Reverts(c, d) /\ journal[c].state = "committed"}
  <2>1. ASSUME NEW c \in S, NEW e \in S PROVE c = e
    <3>1. /\ c \in Calls /\ e \in Calls /\ Original(c) = d /\ Original(e) = d
          /\ journal[c].state = "committed" /\ journal[e].state = "committed"
      BY DEF Reverts
    <3>2. IsUndo(c) /\ IsUndo(e) BY <3>1, MoveAssumption DEF IsUndo, Original
    <3>3. Undone(c) /\ Undone(e) BY <1>2, <3>1, <3>2 DEF Undone
    <3>4. Standing(c) /\ Standing(e) BY <1>1, <1>2, <3>1, <3>2, OriginalIs DEF Standing, FactIs
    <3> QED BY <1>1, <3>1, <3>3, <3>4 DEF UndoInv, Ending
  <2> HIDE DEF S
  <2>2. CASE S = {} BY <2>2, FS_EmptySet DEF S
  <2>3. CASE S # {}
    <3>1. PICK c \in S : TRUE BY <2>3
    <3>2. S = {c} BY <2>1, <3>1
    <3>3. Cardinality(S) = 1 BY <3>2, FS_Singleton
    <3> QED BY <3>3 DEF S
  <2> QED BY <2>2, <2>3
<1> QED BY <1>2, <1>3, <1>4 DEF RecordsAgree

(***************************************************************************)
(* The inductive invariant of the records, whoever has taken the lock:      *)
(* what a manifest, a store and the worker between them say of each other.  *)
(***************************************************************************)
THEOREM RecordInvariance == Spec => []RecordsInv
<1>1. MoveInit => MoveInv /\ RecordsInv BY InitKeeps, InitRecords
<1>2. MoveInv /\ RecordsInv /\ [Next]_vars => (MoveInv /\ RecordsInv)' BY NextKeeps, NextKeepsRecords
<1> QED BY <1>1, <1>2, PTL DEF Spec

(***************************************************************************)
(* participantContext, reconcileParticipants: a committed move has its      *)
(* change set and its audit event, and an undo that has ended the change    *)
(* set it reverts is the only one that is committed, and stands, is given   *)
(* up for good, or was told that it had failed to.                          *)
(***************************************************************************)
THEOREM StoresFit == Spec => []RecordsAgree
<1>1. MoveInv /\ RecordsInv => RecordsAgree BY RecordsFit
<1> QED BY <1>1, Invariance, RecordInvariance, PTL

(***************************************************************************)
(* ensureWorkspaceReady, prepare: no move plans before what every earlier   *)
(* one has begun is committed or rolled back.                               *)
(***************************************************************************)
THEOREM RecoveredFirst == Spec => []RecoveredBeforeMove
<1>1. MoveInv /\ RecordsInv => RecoveredBeforeMove
  <2> SUFFICES ASSUME MoveInv, RecordsInv, NEW c \in Calls, pos[c].step = "inspect", NEW d \in Present
               PROVE  journal[d].state \in Final
    BY DEF RecoveredBeforeMove
  <2>1. c \notin Present BY DEF MoveInv, BaseInv, OrderInv, Present
  <2>2. pos[c].step \in Held BY DEF Held
  <2> QED BY <2>1, <2>2 DEF RecordsInv, PhaseInv
<1> QED BY <1>1, Invariance, RecordInvariance, PTL
=============================================================================
