--------------------------- MODULE ToolCallsProofs ---------------------------
(***************************************************************************)
(* Proofs about ToolCalls, for any number of calls and servers: CallsInv is *)
(* an invariant, and the calls implement ToolGate.                          *)
(***************************************************************************)
EXTENDS ToolCallsInvariant, TLAPS, FiniteSetTheorems, SequenceTheorems, WellFoundedInduction

-----------------------------------------------------------------------------
(* Lists without repetition                                                 *)

\* What is put at the end of a list is in it, after all that was.
LEMMA Appended ==
    ASSUME NEW S, NEW q \in Seq(S), NEW e \in S
    PROVE  LET r == Append(q, e) IN
           /\ r \in Seq(S)
           /\ Len(r) = Len(q) + 1
           /\ DOMAIN r = 1..(Len(q) + 1) /\ DOMAIN q = 1..Len(q) /\ Len(q) \in Nat
           /\ r[Len(q) + 1] = e
           /\ \A k \in DOMAIN q : k \in DOMAIN r /\ r[k] = q[k]
           /\ \A x : Has(r, x) <=> Has(q, x) \/ x = e
           /\ Injective(q) /\ ~Has(q, e) => Injective(r)
<1> DEFINE r == Append(q, e)
<1>1. /\ r \in Seq(S) /\ Len(r) = Len(q) + 1
      /\ DOMAIN r = 1..(Len(q) + 1) /\ DOMAIN q = 1..Len(q) /\ Len(q) \in Nat
      /\ r[Len(q) + 1] = e
      /\ \A k \in DOMAIN q : k \in DOMAIN r /\ r[k] = q[k]
  BY AppendProperties, LenProperties
<1> HIDE DEF r
<1>2. \A k \in DOMAIN r : k \in DOMAIN q \/ k = Len(q) + 1 BY <1>1
<1>3. \A x : Has(r, x) <=> Has(q, x) \/ x = e BY <1>1, <1>2 DEF Has
<1>4. Injective(q) /\ ~Has(q, e) => Injective(r) BY <1>1, <1>2 DEF Has, Injective
<1> QED BY <1>1, <1>3, <1>4 DEF r

\* What is taken from the head of a list is in it no more.
LEMMA Taken ==
    ASSUME NEW S, NEW q \in Seq(S), q # << >>
    PROVE  LET r == Tail(q) IN
           /\ r \in Seq(S) /\ Head(q) \in S /\ Head(q) = q[1] /\ 1 \in DOMAIN q
           /\ Len(q) \in Nat /\ Len(r) = Len(q) - 1
           /\ DOMAIN q = 1..Len(q) /\ DOMAIN r = 1..(Len(q) - 1)
           /\ \A k \in DOMAIN r : k \in Nat /\ k >= 1 /\ k + 1 \in DOMAIN q /\ r[k] = q[k + 1]
           /\ \A x : Has(r, x) => Has(q, x)
           /\ \A x : Has(q, x) => Has(r, x) \/ x = Head(q)
           /\ Injective(q) => Injective(r) /\ ~Has(r, Head(q))
<1> DEFINE r == Tail(q)
<1>1. /\ r \in Seq(S) /\ Head(q) \in S /\ Head(q) = q[1] /\ 1 \in DOMAIN q
      /\ Len(q) \in Nat /\ Len(r) = Len(q) - 1
      /\ DOMAIN q = 1..Len(q) /\ DOMAIN r = 1..(Len(q) - 1)
      /\ \A k \in DOMAIN r : k \in Nat /\ k >= 1 /\ k + 1 \in DOMAIN q /\ r[k] = q[k + 1]
  BY HeadTailProperties, LenProperties, EmptySeq
<1> HIDE DEF r
<1>2. \A k \in DOMAIN q : k = 1 \/ (k \in Nat /\ k - 1 \in DOMAIN r /\ r[k - 1] = q[k]) BY <1>1
<1>3. /\ \A x : Has(r, x) => Has(q, x)
      /\ \A x : Has(q, x) => Has(r, x) \/ x = Head(q)
  BY <1>1, <1>2 DEF Has
<1>4. Injective(q) => Injective(r) /\ ~Has(r, Head(q)) 
  <2> SUFFICES ASSUME Injective(q) PROVE Injective(r) /\ ~Has(r, Head(q)) OBVIOUS
  <2>1. Injective(r)
    <3> SUFFICES ASSUME NEW i \in DOMAIN r, NEW j \in DOMAIN r, r[i] = r[j] PROVE i = j BY DEF Injective
    <3>1. q[i + 1] = q[j + 1] /\ i + 1 \in DOMAIN q /\ j + 1 \in DOMAIN q BY <1>1
    <3>2. i + 1 = j + 1 BY <3>1 DEF Injective
    <3> QED BY <3>2, <1>1
  <2>2. ASSUME NEW k \in DOMAIN r, r[k] = Head(q) PROVE FALSE
    <3>1. k + 1 \in DOMAIN q /\ q[k + 1] = q[1] /\ k \in Nat /\ k >= 1 BY <2>2, <1>1
    <3>2. k + 1 = 1 BY <3>1, <1>1 DEF Injective
    <3> QED BY <3>1, <3>2
  <2> QED BY <2>1, <2>2 DEF Has
<1> QED BY <1>1, <1>3, <1>4 DEF r

\* Two lists in a row.
LEMMA Joined ==
    ASSUME NEW S, NEW q \in Seq(S), NEW p \in Seq(S)
    PROVE  LET r == q \o p IN
           /\ r \in Seq(S)
           /\ Len(q) \in Nat /\ DOMAIN q = 1..Len(q)
           /\ \A k \in DOMAIN q : k \in DOMAIN r /\ r[k] = q[k]
           /\ \A k \in DOMAIN p : k \in Nat /\ k >= 1 /\ k + Len(q) \in DOMAIN r /\ r[k + Len(q)] = p[k]
           /\ \A k \in DOMAIN r : \/ k \in DOMAIN q 
                                  \/ k \in Nat /\ k > Len(q) /\ k - Len(q) \in DOMAIN p /\ r[k] = p[k - Len(q)]
           /\ \A k \in DOMAIN r : (k \in DOMAIN q /\ r[k] = q[k]) \/ Has(p, r[k])
           /\ \A x : Has(r, x) <=> Has(q, x) \/ Has(p, x)
           /\ Injective(q) /\ Injective(p) /\ (\A x : ~(Has(q, x) /\ Has(p, x))) => Injective(r)
<1> DEFINE r == q \o p
<1>1. /\ r \in Seq(S)
      /\ Len(q) \in Nat /\ DOMAIN q = 1..Len(q)
      /\ \A k \in DOMAIN q : k \in DOMAIN r /\ r[k] = q[k]
      /\ \A k \in DOMAIN p : k \in Nat /\ k >= 1 /\ k + Len(q) \in DOMAIN r /\ r[k + Len(q)] = p[k]
      /\ \A k \in DOMAIN r : \/ k \in DOMAIN q 
                             \/ k \in Nat /\ k > Len(q) /\ k - Len(q) \in DOMAIN p /\ r[k] = p[k - Len(q)]
  BY ConcatProperties, LenProperties
<1> HIDE DEF r
<1>2. \A x : Has(r, x) <=> Has(q, x) \/ Has(p, x)
  <2> SUFFICES ASSUME NEW x PROVE Has(r, x) <=> Has(q, x) \/ Has(p, x) OBVIOUS
  <2>1. Has(r, x) => Has(q, x) \/ Has(p, x) BY <1>1 DEF Has
  <2>2. Has(q, x) => Has(r, x) BY <1>1 DEF Has
  <2>3. Has(p, x) => Has(r, x) BY <1>1 DEF Has
  <2> QED BY <2>1, <2>2, <2>3
<1>3. Injective(q) /\ Injective(p) /\ (\A x : ~(Has(q, x) /\ Has(p, x))) => Injective(r)
  <2> SUFFICES ASSUME Injective(q), Injective(p), \A x : ~(Has(q, x) /\ Has(p, x)),
                      NEW i \in DOMAIN r, NEW j \in DOMAIN r, r[i] = r[j]
               PROVE  i = j
    BY DEF Injective
  <2>1. CASE i \in DOMAIN q /\ j \in DOMAIN q BY <2>1, <1>1 DEF Injective
  <2>2. CASE i \in DOMAIN q /\ j \notin DOMAIN q
    <3>1. Has(q, r[i]) /\ Has(p, r[i]) BY <2>2, <1>1 DEF Has
    <3> QED BY <3>1
  <2>3. CASE i \notin DOMAIN q /\ j \in DOMAIN q
    <3>1. Has(q, r[i]) /\ Has(p, r[i]) BY <2>3, <1>1 DEF Has
    <3> QED BY <3>1
  <2>4. CASE i \notin DOMAIN q /\ j \notin DOMAIN q
    <3>1. i - Len(q) = j - Len(q) BY <2>4, <1>1 DEF Injective
    <3> QED BY <3>1, <2>4, <1>1
  <2> QED BY <2>1, <2>2, <2>3, <2>4
<1>4. \A k \in DOMAIN r : (k \in DOMAIN q /\ r[k] = q[k]) \/ Has(p, r[k]) BY <1>1 DEF Has
<1> QED BY <1>1, <1>2, <1>3, <1>4 DEF r

-----------------------------------------------------------------------------
(* The counters                                                             *)

\* A set of calls with one more, or one fewer.
LEMMA Counted ==
    ASSUME NEW T \in SUBSET Calls, NEW c \in Calls
    PROVE  /\ Cardinality(T) \in Nat
           /\ Cardinality(T) = 0 <=> T = {}
           /\ c \notin T => Cardinality(T \cup {c}) = Cardinality(T) + 1
           /\ c \in T => Cardinality(T \ {c}) = Cardinality(T) - 1
<1>1. IsFiniteSet(T) BY CallAssumption, FS_Subset
<1> QED BY <1>1, FS_CardinalityType, FS_EmptySet, FS_AddElement, FS_RemoveElement

\* A call that starts is counted on its server.
LEMMA CountsUp ==
    ASSUME LifecycleTypeOK, CountersExact, UNCHANGED home, NEW c \in Calls, at[c] # "running",
           \A d \in Calls : at'[d] = "running" <=> d = c \/ at[d] = "running",
           active' = [active EXCEPT ![home[c]] = @ + 1]
    PROVE  \A s \in Servers : active'[s] = Cardinality(Running(s)')
<1> SUFFICES ASSUME NEW s \in Servers PROVE active'[s] = Cardinality(Running(s)') OBVIOUS
<1>1. Running(s) \in SUBSET Calls /\ active[s] = Cardinality(Running(s)) /\ active[s] \in Nat
  BY DEF Running, On, CountersExact, LifecycleTypeOK
<1>2. CASE s = home[c]
  <2>1. Running(s)' = Running(s) \cup {c} /\ c \notin Running(s) BY <1>2 DEF Running, On
  <2>2. active'[s] = active[s] + 1 BY <1>2 DEF LifecycleTypeOK
  <2> QED BY <1>1, <2>1, <2>2, Counted
<1>3. CASE s # home[c]
  <2>1. Running(s)' = Running(s) BY <1>3 DEF Running, On
  <2>2. active'[s] = active[s] BY <1>3 DEF LifecycleTypeOK
  <2> QED BY <1>1, <2>1, <2>2
<1> QED BY <1>2, <1>3

\* A call that ends is counted no more, and it was counted.
LEMMA CountsDown ==
    ASSUME LifecycleTypeOK, CountersExact, UNCHANGED home, NEW c \in Calls, at[c] = "running",
           \A d \in Calls : at'[d] = "running" <=> d # c /\ at[d] = "running",
           active' = [active EXCEPT ![home[c]] = @ - 1]
    PROVE  /\ \A s \in Servers : active'[s] = Cardinality(Running(s)')
           /\ active[home[c]] \in Nat /\ active[home[c]] > 0 /\ active' \in [Servers -> Nat]
<1>1. \A s \in Servers :
        Running(s) \in SUBSET Calls /\ active[s] = Cardinality(Running(s)) /\ active[s] \in Nat
  BY DEF Running, On, CountersExact, LifecycleTypeOK
<1>2. active[home[c]] > 0
  <2>1. c \in Running(home[c]) /\ home[c] \in Servers BY DEF Running, On, LifecycleTypeOK
  <2>2. Cardinality(Running(home[c])) # 0 /\ active[home[c]] = Cardinality(Running(home[c]))
    BY <2>1, <1>1, Counted
  <2> QED BY <2>1, <2>2, <1>1
<1>3. ASSUME NEW s \in Servers PROVE active'[s] = Cardinality(Running(s)')
  <2>1. CASE s = home[c]
    <3>1. Running(s)' = Running(s) \ {c} /\ c \in Running(s) BY <2>1 DEF Running, On
    <3>2. active'[s] = active[s] - 1 BY <2>1 DEF LifecycleTypeOK
    <3> QED BY <1>1, <3>1, <3>2, Counted
  <2>2. CASE s # home[c]
    <3>1. Running(s)' = Running(s) BY <2>2 DEF Running, On
    <3>2. active'[s] = active[s] BY <2>2 DEF LifecycleTypeOK
    <3> QED BY <1>1, <3>1, <3>2
  <2> QED BY <2>1, <2>2
<1>4. home[c] \in Servers /\ active \in [Servers -> Nat] BY DEF LifecycleTypeOK
<1>5. active' \in [Servers -> Nat] BY <1>1, <1>2, <1>4
<1> QED BY <1>1, <1>2, <1>3, <1>4, <1>5

\* Nothing starts and nothing ends.
LEMMA CountsKept ==
    ASSUME CountersExact, UNCHANGED <<home, active>>,
           \A d \in Calls : at'[d] = "running" <=> at[d] = "running"
    PROVE  \A s \in Servers : active'[s] = Cardinality(Running(s)')
<1>1. \A s \in Servers : Running(s)' = Running(s) BY DEF Running, On
<1> QED BY <1>1 DEF CountersExact

\* What an idle server means: a counter at zero has nobody behind it.
LEMMA NoneRun ==
    ASSUME LifecycleTypeOK, CountersExact, NEW c \in Calls, active[home[c]] = 0
    PROVE  \A d \in Calls : home[d] = home[c] => at[d] # "running"
<1>1. home[c] \in Servers BY DEF LifecycleTypeOK
<1>2. Running(home[c]) \in SUBSET Calls /\ Cardinality(Running(home[c])) = 0
  BY <1>1 DEF CountersExact, Running, On
<1>3. Running(home[c]) = {} BY <1>2, Counted
<1> QED BY <1>3 DEF Running, On

\* The exclusive calls of a server and its second counter.
LEMMA PendingOf ==
    ASSUME LifecycleTypeOK, TurnsExact, CountersExact, NEW s \in Servers
    PROVE  /\ turns[s] \in Seq(Calls) /\ pending[s] = Len(turns[s]) /\ Len(turns[s]) \in Nat
           /\ DOMAIN turns[s] = 1..Len(turns[s])
           /\ pending[s] = 0 <=> turns[s] = << >>
           /\ \A c \in closes : home[c] = s /\ at[c] \notin {"idle", "over", "refused"} =>
                pending[s] > 0 /\ (at[c] # "turn" => turns[s][1] = c /\ 1 \in DOMAIN turns[s])
<1>1. turns[s] \in Seq(Calls) /\ pending[s] = Len(turns[s]) BY DEF LifecycleTypeOK, CountersExact
<1>2. Len(turns[s]) \in Nat /\ DOMAIN turns[s] = 1..Len(turns[s]) BY <1>1, LenProperties
<1>3. pending[s] = 0 <=> turns[s] = << >> BY <1>1, EmptySeq
<1>4. ASSUME NEW c \in closes, home[c] = s, at[c] \notin {"idle", "over", "refused"}
      PROVE  pending[s] > 0 /\ (at[c] # "turn" => turns[s][1] = c /\ 1 \in DOMAIN turns[s])
  <2>1. c \in Calls /\ c \in On(s) \cap closes BY <1>4 DEF LifecycleTypeOK, On
  <2>2. PICK k \in DOMAIN turns[s] : turns[s][k] = c BY <2>1, <1>4 DEF TurnsExact, Has
  <2>3. at[c] # "turn" => k = 1 BY <2>2 DEF TurnsExact
  <2> QED BY <1>1, <1>2, <2>2, <2>3
<1> QED BY <1>1, <1>2, <1>3, <1>4

-----------------------------------------------------------------------------
(* The lifecycle of one server: every step keeps its invariant              *)

LifecycleOK == LifecycleTypeOK /\ LifecycleInv

\* Nobody can be told apart before the first call.
LEMMA LifecycleStart ==
    ASSUME LifecycleInit, home \in [Calls -> Servers]
    PROVE  LifecycleOK
<1>1. LifecycleTypeOK BY EmptySeq DEF LifecycleTypeOK, LifecycleInit, Places, Waiting
<1>2. \A s \in Servers : Running(s) = {} BY DEF Running, On, LifecycleInit
<1>3. Cardinality({}) = 0 /\ Len(<< >>) = 0 /\ DOMAIN << >> = {} BY FS_EmptySet
<1>4. \A c \in Calls : at[c] \in {"idle", "over"} BY DEF LifecycleInit
<1>5. JobsExact BY <1>3, <1>4 DEF JobsExact, LifecycleInit, Injective, Has
<1>6. TurnsExact BY <1>3, <1>4 DEF TurnsExact, LifecycleInit, Injective, On
<1>7. WaitersExact BY <1>3, <1>4 DEF WaitersExact, LifecycleInit, Injective, Has
<1>8. CountersExact BY <1>2, <1>3 DEF CountersExact, LifecycleInit
<1>9. OrderKept BY <1>3, <1>4 DEF OrderKept, LifecycleInit
<1>10. DisposedIsDrained BY DEF DisposedIsDrained, IsDrained, LifecycleInit
<1> QED BY <1>1, <1>5, <1>6, <1>7, <1>8, <1>9, <1>10 DEF LifecycleOK, LifecycleInv

\* run on a server that has begun to close.
LEMMA RefuseKeeps ==
    ASSUME LifecycleOK, NEW c \in Calls, Refuse(c)
    PROVE  LifecycleOK'
<1> USE DEF LifecycleOK, LifecycleInv
<1>1. at[c] = "idle" /\ at' = [at EXCEPT ![c] = "refused"]
      /\ UNCHANGED <<home, closes, state, active, pending, turns, waiters, jobs>>
  BY DEF Refuse, Move, callFacts
<1>2. \A d \in Calls : at'[d] = IF d = c THEN "refused" ELSE at[d] BY <1>1 DEF LifecycleTypeOK
<1>3. LifecycleTypeOK' BY <1>1 DEF LifecycleTypeOK, Places
<1>4. JobsExact' BY <1>1, <1>2 DEF JobsExact
<1>5. TurnsExact' 
  <2>1. \A s \in Servers : \A k \in DOMAIN turns[s] : turns[s][k] \in Calls /\ turns[s][k] # c
    BY <1>1 DEF TurnsExact, LifecycleTypeOK
  <2> QED BY <1>1, <1>2, <2>1 DEF TurnsExact, On
<1>6. WaitersExact' BY <1>1, <1>2 DEF WaitersExact, LifecycleTypeOK
<1>7. CountersExact'
  <2>1. \A s \in Servers : active'[s] = Cardinality(Running(s)') BY <1>1, <1>2, CountsKept
  <2> QED BY <1>1, <2>1 DEF CountersExact
<1>8. OrderKept' BY <1>1, <1>2 DEF OrderKept, LifecycleTypeOK, JobsExact
<1>9. DisposedIsDrained' BY <1>1 DEF DisposedIsDrained, IsDrained
<1> QED BY <1>3, <1>4, <1>5, <1>6, <1>7, <1>8, <1>9

\* run with no exclusive call about.
LEMMA ShareKeeps ==
    ASSUME LifecycleOK, NEW c \in Calls, Share(c)
    PROVE  LifecycleOK'
<1> USE DEF LifecycleOK, LifecycleInv
<1>1. at[c] = "idle" /\ c \notin closes /\ state[home[c]] = "accepting" /\ pending[home[c]] = 0
      /\ active' = [active EXCEPT ![home[c]] = @ + 1] /\ at' = [at EXCEPT ![c] = "running"]
      /\ UNCHANGED <<home, closes, state, pending, turns, waiters, jobs>>
  BY DEF Share, Move, callFacts
<1>2. \A d \in Calls : at'[d] = IF d = c THEN "running" ELSE at[d] BY <1>1 DEF LifecycleTypeOK
<1>3. LifecycleTypeOK' BY <1>1 DEF LifecycleTypeOK, Places
<1>4. JobsExact' BY <1>1, <1>2 DEF JobsExact
<1>5. TurnsExact' 
  <2>1. \A s \in Servers : \A k \in DOMAIN turns[s] : turns[s][k] \in Calls /\ turns[s][k] # c
    BY <1>1 DEF TurnsExact, LifecycleTypeOK
  <2> QED BY <1>1, <1>2, <2>1 DEF TurnsExact, On
<1>6. WaitersExact' BY <1>1, <1>2 DEF WaitersExact, LifecycleTypeOK
<1>7. CountersExact'
  <2>1. at[c] # "running" /\ \A d \in Calls : at'[d] = "running" <=> d = c \/ at[d] = "running" BY <1>1, <1>2
  <2>2. \A s \in Servers : active'[s] = Cardinality(Running(s)') BY <1>1, <2>1, CountsUp
  <2> QED BY <1>1, <2>2 DEF CountersExact
<1>8. OrderKept' 
  <2>1. \A d \in closes : home[d] = home[c] => at[d] \in {"idle", "over", "refused"}
    BY <1>1, PendingOf DEF LifecycleTypeOK
  <2>2. \A d \in Calls : at[d] \in {"zero", "zeroing"} => home[d] # home[c]
    BY <2>1 DEF WaitersExact
  <2>3. \A d \in Calls : home[d] # home[c] => active'[home[d]] = active[home[d]] BY <1>1 DEF LifecycleTypeOK
  <2>4. \A i \in DOMAIN jobs : jobs[i] \in Calls /\ at[jobs[i]] \in {"turning", "zeroing", "clearing"}
    BY DEF JobsExact, LifecycleTypeOK, Has
  <2>5. \A i, j \in DOMAIN jobs' :
         /\ home'[jobs'[i]] = home'[jobs'[j]]
         /\ jobs'[i] \in closes' /\ at'[jobs'[j]] = "clearing"
         => j < i /\ at'[jobs'[i]] = "turning"
    BY <1>1, <1>2, <2>4 DEF OrderKept
  <2>6. \A d, e \in Calls : at'[d] = "zero" /\ home'[e] = home'[d] => at'[e] # "clearing"
    BY <1>1, <1>2 DEF OrderKept
  <2>7. \A d \in Calls : at'[d] = "zeroing" => active'[home'[d]] = 0
    BY <1>1, <1>2, <2>2, <2>3 DEF OrderKept
  <2>8. \A d \in closes', e \in Calls : at'[d] = "running" /\ home'[e] = home'[d] =>
         at'[e] # "clearing" /\ (at'[e] = "running" => e = d)
    <3> SUFFICES ASSUME NEW d \in closes, NEW e \in Calls, at'[d] = "running", home[e] = home[d]
                 PROVE  at'[e] # "clearing" /\ (at'[e] = "running" => e = d)
      BY <1>1
    <3>1. d \in Calls /\ d # c /\ at[d] = "running" BY <1>1, <1>2 DEF LifecycleTypeOK
    <3>2. e # c BY <2>1, <3>1
    <3> QED BY <1>2, <3>1, <3>2 DEF OrderKept
  <2> QED BY <2>5, <2>6, <2>7, <2>8 DEF OrderKept
<1>9. DisposedIsDrained' BY <1>1 DEF DisposedIsDrained, IsDrained, LifecycleTypeOK
<1> QED BY <1>3, <1>4, <1>5, <1>6, <1>7, <1>8, <1>9

\* run with an exclusive call about.
LEMMA WaitKeeps ==
    ASSUME LifecycleOK, NEW c \in Calls, WaitForExclusiveClear(c)
    PROVE  LifecycleOK'
<1> USE DEF LifecycleOK, LifecycleInv
<1>1. at[c] = "idle" /\ c \notin closes /\ state[home[c]] = "accepting" /\ pending[home[c]] > 0
      /\ waiters' = [waiters EXCEPT ![home[c]] = Append(@, c)] /\ at' = [at EXCEPT ![c] = "clear"]
      /\ UNCHANGED <<home, closes, state, active, pending, turns, jobs>>
  BY DEF WaitForExclusiveClear, Move, callFacts
<1>2. \A d \in Calls : at'[d] = IF d = c THEN "clear" ELSE at[d] BY <1>1 DEF LifecycleTypeOK
<1>s. home[c] \in Servers /\ waiters[home[c]] \in Seq(Calls) BY DEF LifecycleTypeOK
<1>w. /\ waiters'[home[c]] = Append(waiters[home[c]], c)
      /\ \A s \in Servers : s # home[c] => waiters'[s] = waiters[s]
  BY <1>1, <1>s DEF LifecycleTypeOK
<1>3. LifecycleTypeOK' BY <1>1, <1>s, Appended DEF LifecycleTypeOK, Places, Waiting
<1>4. JobsExact' BY <1>1, <1>2 DEF JobsExact
<1>5. TurnsExact' 
  <2>1. \A s \in Servers : \A k \in DOMAIN turns[s] : turns[s][k] \in Calls /\ turns[s][k] # c
    BY <1>1 DEF TurnsExact, LifecycleTypeOK
  <2> QED BY <1>1, <1>2, <2>1 DEF TurnsExact, On
<1>6. WaitersExact'
  <2>1. ~Has(waiters[home[c]], c) /\ Injective(waiters[home[c]]) BY <1>1, <1>s DEF WaitersExact
  <2>2. Injective(waiters'[home[c]]) /\ \A x : Has(waiters'[home[c]], x) <=> Has(waiters[home[c]], x) \/ x = c
    BY <2>1, <1>s, <1>w, Appended
  <2> QED BY SMTT(30), <1>1, <1>2, <1>s, <1>w, <2>2 DEF WaitersExact, LifecycleTypeOK
<1>7. CountersExact'
  <2>1. \A s \in Servers : active'[s] = Cardinality(Running(s)') BY <1>1, <1>2, CountsKept
  <2> QED BY <1>1, <2>1 DEF CountersExact
<1>8. OrderKept' BY <1>1, <1>2 DEF OrderKept, LifecycleTypeOK, JobsExact
<1>9. DisposedIsDrained' BY <1>1 DEF DisposedIsDrained, IsDrained
<1> QED BY <1>3, <1>4, <1>5, <1>6, <1>7, <1>8, <1>9

\* runExclusive takes a turn, which may already have come.
LEMMA RunExclusiveKeeps ==
    ASSUME LifecycleOK, NEW c \in Calls, RunExclusive(c)
    PROVE  LifecycleOK'
<1> USE DEF LifecycleOK, LifecycleInv
<1> DEFINE s == home[c]
<1> DEFINE p == IF turns[s] = << >> THEN "turning" ELSE "turn"
<1>1. /\ at[c] = "idle" /\ c \in closes /\ state[s] = "accepting"
      /\ pending' = [pending EXCEPT ![s] = @ + 1] /\ turns' = [turns EXCEPT ![s] = Append(@, c)]
      /\ at' = [at EXCEPT ![c] = p]
      /\ jobs' = IF turns[s] = << >> THEN Append(jobs, c) ELSE jobs
      /\ UNCHANGED <<home, closes, state, active, waiters>>
  BY DEF RunExclusive, Move, callFacts
<1>2. \A d \in Calls : at'[d] = IF d = c THEN p ELSE at[d] BY <1>1 DEF LifecycleTypeOK
<1>s. s \in Servers /\ turns[s] \in Seq(Calls) /\ pending[s] = Len(turns[s]) /\ jobs \in Seq(Calls)
  BY DEF LifecycleTypeOK, CountersExact
<1>t. /\ turns'[s] = Append(turns[s], c) /\ pending'[s] = pending[s] + 1
      /\ \A r \in Servers : r # s => turns'[r] = turns[r] /\ pending'[r] = pending[r]
  BY <1>1, <1>s DEF LifecycleTypeOK
<1>q. p \in {"turning", "turn"} OBVIOUS
<1>j. /\ ~Has(jobs, c) /\ ~Has(turns[s], c) /\ \A r \in Servers : \A k \in DOMAIN turns[r] : turns[r][k] # c
  <2>1. \A r \in Servers : \A k \in DOMAIN turns[r] : turns[r][k] # c
    BY <1>1 DEF TurnsExact
  <2> QED BY <2>1, <1>1, <1>s DEF JobsExact, Has
<1>a. \A d \in Calls : at'[d] = "running" <=> at[d] = "running" BY <1>1, <1>2, <1>q
<1>3. LifecycleTypeOK'
  <2>1. jobs' \in Seq(Calls) BY <1>1, <1>s, Appended
  <2>2. turns' \in [Servers -> Seq(Calls)] BY <1>1, <1>s, Appended DEF LifecycleTypeOK
  <2>3. at' \in [Calls -> Places] BY <1>1 DEF LifecycleTypeOK, Places, Waiting
  <2>4. pending' \in [Servers -> Nat] BY <1>1 DEF LifecycleTypeOK
  <2> QED BY <1>1, <2>1, <2>2, <2>3, <2>4 DEF LifecycleTypeOK
<1>4. JobsExact'
  <2>1. CASE turns[s] = << >>
    <3>1. Injective(jobs') /\ \A x : Has(jobs', x) <=> Has(jobs, x) \/ x = c
      BY <2>1, <1>1, <1>s, <1>j, Appended DEF JobsExact
    <3> QED BY <2>1, <3>1, <1>2 DEF JobsExact
  <2>2. CASE turns[s] # << >> BY <2>2, <1>1, <1>2 DEF JobsExact
  <2> QED BY <2>1, <2>2
<1>5. TurnsExact' 
  <2> SUFFICES ASSUME NEW r \in Servers
               PROVE  /\ Injective(turns'[r])
                      /\ \A k \in DOMAIN turns'[r] :
                           /\ turns'[r][k] \in closes /\ home[turns'[r][k]] = r
                           /\ k = 1 => at'[turns'[r][k]] \in {"turning", "zero", "zeroing", "running"}
                           /\ k # 1 => at'[turns'[r][k]] = "turn"
                      /\ \A d \in On(r) \cap closes :
                           at'[d] \notin {"idle", "over", "refused"} => Has(turns'[r], d)
    BY <1>1 DEF TurnsExact, On
  <2>1. CASE r # s
    <3>1. \A d \in On(r) : d # c BY <2>1 DEF On
    <3>2. \A k \in DOMAIN turns[r] : turns[r][k] \in Calls BY DEF TurnsExact, LifecycleTypeOK
    <3> QED BY <2>1, <1>2, <1>t, <1>j, <3>1, <3>2 DEF TurnsExact, On
  <2>2. CASE r = s
    <3> DEFINE q == turns[s]
    <3>1. /\ Injective(turns'[s])
          /\ \A x : Has(turns'[s], x) <=> Has(q, x) \/ x = c
          /\ DOMAIN turns'[s] = 1..(Len(q) + 1) /\ DOMAIN q = 1..Len(q) /\ Len(q) \in Nat
          /\ turns'[s][Len(q) + 1] = c
          /\ \A k \in DOMAIN q : turns'[s][k] = q[k]
      BY <1>s, <1>t, <1>j, Appended DEF TurnsExact
    <3>2. \A d \in On(s) \cap closes : at'[d] \notin {"idle", "over", "refused"} => Has(turns'[s], d)
      BY <1>2, <1>s, <3>1 DEF TurnsExact, On
    <3>3. ASSUME NEW k \in DOMAIN turns'[s], k \in DOMAIN q
          PROVE  /\ turns'[s][k] \in closes /\ home[turns'[s][k]] = s
                 /\ k = 1 => at'[turns'[s][k]] \in {"turning", "zero", "zeroing", "running"}
                 /\ k # 1 => at'[turns'[s][k]] = "turn"
      <4>1. turns'[s][k] = q[k] /\ q[k] # c /\ q[k] \in Calls BY <1>j, <1>s, <3>1, <3>3 DEF TurnsExact, LifecycleTypeOK
      <4> QED BY <1>2, <1>s, <4>1, <3>3 DEF TurnsExact
    <3>4. ASSUME NEW k \in DOMAIN turns'[s], k \notin DOMAIN q
          PROVE  /\ turns'[s][k] \in closes /\ home[turns'[s][k]] = s
                 /\ k = 1 => at'[turns'[s][k]] \in {"turning", "zero", "zeroing", "running"}
                 /\ k # 1 => at'[turns'[s][k]] = "turn"
      <4>1. k = Len(q) + 1 /\ turns'[s][k] = c BY <3>1, <3>4
      <4>2. k = 1 <=> q = << >> BY <4>1, <1>s, <3>1, EmptySeq
      <4> QED BY <1>1, <1>2, <4>1, <4>2
    <3> QED BY <2>2, <3>1, <3>2, <3>3, <3>4
  <2> QED BY <2>1, <2>2
<1>6. WaitersExact' BY SMTT(30), <1>1, <1>2, <1>q DEF WaitersExact, LifecycleTypeOK
<1>7. CountersExact'
  <2>1. \A r \in Servers : active'[r] = Cardinality(Running(r)') BY <1>1, <1>a, CountsKept
  <2>2. \A r \in Servers : pending'[r] = Len(turns'[r]) BY <1>s, <1>t, Appended DEF CountersExact
  <2> QED BY <2>1, <2>2 DEF CountersExact
<1>8. OrderKept'
  <2>1. \A d, e \in Calls : at'[d] = "zero" /\ home'[e] = home'[d] => at'[e] # "clearing"
    BY <1>1, <1>2, <1>q DEF OrderKept
  <2>2. \A d \in Calls : at'[d] = "zeroing" => active'[home'[d]] = 0
    BY <1>1, <1>2, <1>q DEF OrderKept
  <2>3. \A d \in closes', e \in Calls : at'[d] = "running" /\ home'[e] = home'[d] =>
         at'[e] # "clearing" /\ (at'[e] = "running" => e = d)
    BY <1>1, <1>2, <1>q DEF OrderKept, LifecycleTypeOK
  <2>4. \A i, j \in DOMAIN jobs' :
         /\ home'[jobs'[i]] = home'[jobs'[j]]
         /\ jobs'[i] \in closes' /\ at'[jobs'[j]] = "clearing"
         => j < i /\ at'[jobs'[i]] = "turning"
    <3>1. CASE turns[s] # << >>
      <4>1. jobs' = jobs /\ \A k \in DOMAIN jobs : jobs[k] \in Calls /\ jobs[k] # c
        BY <3>1, <1>1, <1>s, <1>j DEF Has
      <4> QED BY <4>1, <1>1, <1>2 DEF OrderKept
    <3>2. CASE turns[s] = << >>
      <4>1. /\ DOMAIN jobs' = 1..(Len(jobs) + 1) /\ DOMAIN jobs = 1..Len(jobs) /\ Len(jobs) \in Nat
            /\ jobs'[Len(jobs) + 1] = c
            /\ \A k \in DOMAIN jobs : jobs'[k] = jobs[k] /\ jobs[k] \in Calls /\ jobs[k] # c
        BY <3>2, <1>1, <1>s, <1>j, Appended DEF Has
      <4>2. at'[c] = "turning" BY <3>2, <1>2
      <4> SUFFICES ASSUME NEW i \in DOMAIN jobs', NEW j \in DOMAIN jobs', home[jobs'[i]] = home[jobs'[j]],
                          jobs'[i] \in closes, at'[jobs'[j]] = "clearing"
                   PROVE  j < i /\ at'[jobs'[i]] = "turning"
        BY <1>1
      <4>3. j # Len(jobs) + 1 BY <4>1, <4>2
      <4>4. j \in DOMAIN jobs /\ at[jobs[j]] = "clearing" /\ jobs'[j] = jobs[j] BY <4>1, <4>3, <1>2
      <4>5. CASE i \in DOMAIN jobs BY <4>1, <4>4, <4>5, <1>2 DEF OrderKept
      <4>6. CASE i \notin DOMAIN jobs BY <4>1, <4>2, <4>4, <4>6
      <4> QED BY <4>5, <4>6
    <3> QED BY <3>1, <3>2
  <2> QED BY <2>1, <2>2, <2>3, <2>4 DEF OrderKept
<1>9. DisposedIsDrained' BY <1>1 DEF DisposedIsDrained, IsDrained, LifecycleTypeOK
<1> QED BY <1>3, <1>4, <1>5, <1>6, <1>7, <1>8, <1>9

\* While an exclusive call is at the head of the event loop's queue, no shared call
\* of its server is on the way in.
LEMMA NoneClears ==
    ASSUME LifecycleOK, jobs # << >>, NEW c \in closes, Head(jobs) = c
    PROVE  \A d \in Calls : home[d] = home[c] => at[d] # "clearing"
<1> USE DEF LifecycleOK, LifecycleInv
<1>1. jobs \in Seq(Calls) /\ jobs[1] = c /\ 1 \in DOMAIN jobs /\ DOMAIN jobs = 1..Len(jobs)
  BY Taken DEF LifecycleTypeOK
<1>2. ASSUME NEW d \in Calls, home[d] = home[c], at[d] = "clearing" PROVE FALSE
  <2>1. PICK j \in DOMAIN jobs : jobs[j] = d BY <1>2 DEF JobsExact, Has
  <2>2. j < 1 BY <2>1, <1>1, <1>2 DEF OrderKept
  <2> QED BY <2>2, <1>1
<1> QED BY <1>2

\* waitForActiveZero looks at the counter once.
LEMMA TakeTurnKeeps ==
    ASSUME LifecycleOK, NEW c \in Calls, TakeTurn(c)
    PROVE  LifecycleOK'
<1> USE DEF LifecycleOK, LifecycleInv
<1> DEFINE s == home[c]
<1> DEFINE p == IF active[s] = 0 THEN "zeroing" ELSE "zero"
<1> DEFINE q == Tail(jobs)
<1>1. /\ at[c] = "turning" /\ jobs # << >> /\ Head(jobs) = c
      /\ at' = [at EXCEPT ![c] = p]
      /\ jobs' = IF active[s] = 0 THEN Append(q, c) ELSE q
      /\ UNCHANGED <<home, closes, state, active, pending, turns, waiters>>
  BY DEF TakeTurn, Move, callFacts
<1>2. \A d \in Calls : at'[d] = IF d = c THEN p ELSE at[d] BY <1>1 DEF LifecycleTypeOK
<1>s. s \in Servers /\ jobs \in Seq(Calls) BY DEF LifecycleTypeOK
<1>q. p \in {"zeroing", "zero"} OBVIOUS
<1>c. c \in closes BY <1>1 DEF WaitersExact
<1>h. /\ q \in Seq(Calls) /\ Len(q) = Len(jobs) - 1 /\ Len(jobs) \in Nat
      /\ DOMAIN q = 1..(Len(jobs) - 1) /\ DOMAIN jobs = 1..Len(jobs)
      /\ \A k \in DOMAIN q : k \in Nat /\ k >= 1 /\ k + 1 \in DOMAIN jobs /\ q[k] = jobs[k + 1] /\ q[k] \in Calls /\ q[k] # c
      /\ \A x : Has(jobs, x) <=> Has(q, x) \/ x = c
      /\ Injective(q) /\ ~Has(q, c)
  <2>1. Injective(jobs) /\ Has(jobs, c) BY <1>1 DEF JobsExact
  <2>2. /\ q \in Seq(Calls) /\ Len(q) = Len(jobs) - 1 /\ Len(jobs) \in Nat
        /\ DOMAIN q = 1..(Len(jobs) - 1) /\ DOMAIN jobs = 1..Len(jobs)
        /\ \A k \in DOMAIN q : k \in Nat /\ k >= 1 /\ k + 1 \in DOMAIN jobs /\ q[k] = jobs[k + 1]
        /\ \A x : Has(jobs, x) <=> Has(q, x) \/ x = c
        /\ Injective(q) /\ ~Has(q, c)
    BY <1>1, <1>s, <2>1, Taken
  <2>3. \A k \in DOMAIN q : q[k] \in Calls /\ q[k] # c BY <2>2 DEF Has
  <2> QED BY <2>2, <2>3
<1>n. \A d \in Calls : home[d] = s => at[d] # "clearing" BY <1>1, <1>c, NoneClears
<1>j. /\ jobs' \in Seq(Calls) /\ Injective(jobs') 
      /\ active[s] = 0 => \A x : Has(jobs', x) <=> Has(jobs, x)
      /\ active[s] # 0 => \A x : Has(jobs', x) <=> Has(jobs, x) /\ x # c
      /\ \A k \in DOMAIN jobs' : \/ k \in DOMAIN q /\ jobs'[k] = jobs[k + 1]
                                 \/ active[s] = 0 /\ jobs'[k] = c
  <2> HIDE DEF q
  <2>1. CASE active[s] = 0 BY <2>1, <1>1, <1>h, Appended
  <2>2. CASE active[s] # 0 BY <2>2, <1>1, <1>h
  <2> QED BY <2>1, <2>2
<1>a. \A d \in Calls : at'[d] = "running" <=> at[d] = "running" BY <1>1, <1>2, <1>q
<1>3. LifecycleTypeOK' BY <1>1, <1>j DEF LifecycleTypeOK, Places, Waiting
<1>4. JobsExact' BY <1>j, <1>1, <1>2, <1>q DEF JobsExact
<1>5. TurnsExact' 
  <2>1. \A r \in Servers : \A k \in DOMAIN turns[r] : turns[r][k] \in Calls /\ (turns[r][k] = c => k = 1)
    BY <1>1 DEF TurnsExact, LifecycleTypeOK
  <2> QED BY <1>1, <1>2, <1>q, <2>1 DEF TurnsExact, On
<1>6. WaitersExact'
  <2>1. \A d \in Calls : at'[d] = "clear" <=> at[d] = "clear" BY <1>1, <1>2, <1>q, <1>c
  <2>2. \A d \in closes : at'[d] \notin {"clear", "clearing"} BY <1>1, <1>2, <1>q, <1>c DEF WaitersExact, LifecycleTypeOK
  <2>3. \A d \in Calls : at'[d] \in {"turn", "turning", "zero", "zeroing"} => d \in closes
    BY <1>1, <1>2, <1>q, <1>c DEF WaitersExact
  <2> QED BY <1>1, <2>1, <2>2, <2>3 DEF WaitersExact
<1>7. CountersExact'
  <2>1. \A r \in Servers : active'[r] = Cardinality(Running(r)') BY <1>1, <1>a, CountsKept
  <2> QED BY <1>1, <2>1 DEF CountersExact
<1>8. OrderKept'
  <2>1. \A d, e \in Calls : at'[d] = "zero" /\ home'[e] = home'[d] => at'[e] # "clearing"
    BY <1>1, <1>2, <1>q, <1>n DEF OrderKept
  <2>2. \A d \in Calls : at'[d] = "zeroing" => active'[home'[d]] = 0
    BY <1>1, <1>2, <1>q DEF OrderKept
  <2>3. \A d \in closes', e \in Calls : at'[d] = "running" /\ home'[e] = home'[d] =>
         at'[e] # "clearing" /\ (at'[e] = "running" => e = d)
    BY <1>1, <1>2, <1>q DEF OrderKept, LifecycleTypeOK
  <2>4. \A i, j \in DOMAIN jobs' :
         /\ home'[jobs'[i]] = home'[jobs'[j]]
         /\ jobs'[i] \in closes' /\ at'[jobs'[j]] = "clearing"
         => j < i /\ at'[jobs'[i]] = "turning"
    <3> SUFFICES ASSUME NEW i \in DOMAIN jobs', NEW j \in DOMAIN jobs', home[jobs'[i]] = home[jobs'[j]],
                        jobs'[i] \in closes, at'[jobs'[j]] = "clearing"
                 PROVE  j < i /\ at'[jobs'[i]] = "turning"
      BY ZenonT(60), <1>1
    <3> HIDE DEF q
    <3>1. j \in DOMAIN q /\ jobs'[j] = jobs[j + 1] BY <1>j, <1>1, <1>2, <1>q
    <3>2. at[jobs[j + 1]] = "clearing" /\ jobs[j + 1] \in Calls BY <3>1, <1>h, <1>2, <1>q
    <3>3. home[jobs'[i]] # s BY <3>1, <3>2, <1>n
    <3>4. i \in DOMAIN q /\ jobs'[i] = jobs[i + 1] BY <3>3, <1>j
    <3>5. j + 1 < i + 1 /\ at[jobs[i + 1]] = "turning" BY <3>1, <3>2, <3>4, <1>h DEF OrderKept
    <3>6. jobs[i + 1] \in Calls /\ jobs[i + 1] # c /\ i \in Nat /\ j \in Nat BY <3>1, <3>4, <1>h
    <3> QED BY <3>4, <3>5, <3>6, <1>2
  <2> QED BY <2>1, <2>2, <2>3, <2>4 DEF OrderKept
<1>9. DisposedIsDrained' BY <1>1 DEF DisposedIsDrained, IsDrained
<1> QED BY <1>3, <1>4, <1>5, <1>6, <1>7, <1>8, <1>9

\* An exclusive call starts without looking again, and nothing runs.
LEMMA EnterAloneKeeps ==
    ASSUME LifecycleOK, NEW c \in Calls, EnterAlone(c)
    PROVE  LifecycleOK'
<1> USE DEF LifecycleOK, LifecycleInv
<1> DEFINE s == home[c]
<1>1. /\ at[c] = "zeroing" /\ jobs # << >> /\ Head(jobs) = c
      /\ active' = [active EXCEPT ![s] = @ + 1] /\ at' = [at EXCEPT ![c] = "running"]
      /\ jobs' = Tail(jobs)
      /\ UNCHANGED <<home, closes, state, pending, turns, waiters>>
  BY DEF EnterAlone, Move, callFacts
<1>2. \A d \in Calls : at'[d] = IF d = c THEN "running" ELSE at[d] BY <1>1 DEF LifecycleTypeOK
<1>s. s \in Servers /\ jobs \in Seq(Calls) BY DEF LifecycleTypeOK
<1>c. c \in closes BY <1>1 DEF WaitersExact
<1>n. \A d \in Calls : home[d] = s => at[d] # "clearing" BY <1>1, <1>c, NoneClears
<1>z. active[s] = 0 /\ \A d \in Calls : home[d] = s => at[d] # "running"
  BY <1>1, NoneRun DEF OrderKept
<1>o. \A d \in Calls : home[d] = s /\ d # c => at[d] \notin {"zero", "zeroing"}
  <2>1. turns[s][1] = c BY <1>1, <1>s, <1>c, PendingOf
  <2>2. \A d \in closes : home[d] = s /\ at[d] \in {"zero", "zeroing"} => turns[s][1] = d BY <1>s, PendingOf
  <2> QED BY <2>1, <2>2 DEF WaitersExact
<1>j. /\ jobs' \in Seq(Calls) /\ Injective(jobs') /\ \A x : Has(jobs', x) <=> Has(jobs, x) /\ x # c
      /\ \A k \in DOMAIN jobs' : k \in Nat /\ k + 1 \in DOMAIN jobs /\ jobs'[k] = jobs[k + 1] /\ jobs'[k] \in Calls /\ jobs'[k] # c
  <2>1. Injective(jobs) BY DEF JobsExact
  <2>2. /\ jobs' \in Seq(Calls) /\ Injective(jobs') /\ \A x : Has(jobs', x) <=> Has(jobs, x) /\ x # c
        /\ \A k \in DOMAIN jobs' : k \in Nat /\ k + 1 \in DOMAIN jobs /\ jobs'[k] = jobs[k + 1]
    BY <1>1, <1>s, <2>1, Taken
  <2>3. \A k \in DOMAIN jobs' : Has(jobs', jobs'[k]) BY DEF Has
  <2>4. \A k \in DOMAIN jobs : jobs[k] \in Calls BY <1>s
  <2> QED BY <2>2, <2>3, <2>4
<1>3. LifecycleTypeOK'
  <2>1. at' \in [Calls -> Places] BY <1>1 DEF LifecycleTypeOK, Places
  <2>2. active' \in [Servers -> Nat] BY SMTT(30), <1>1 DEF LifecycleTypeOK
  <2> QED BY <1>1, <1>j, <2>1, <2>2 DEF LifecycleTypeOK
<1>4. JobsExact' BY <1>j, <1>1, <1>2 DEF JobsExact
<1>5. TurnsExact' 
  <2>1. \A r \in Servers : \A k \in DOMAIN turns[r] : turns[r][k] \in Calls /\ (turns[r][k] = c => k = 1)
    BY <1>1 DEF TurnsExact, LifecycleTypeOK
  <2> QED BY <1>1, <1>2, <2>1 DEF TurnsExact, On
<1>6. WaitersExact'
  <2>1. \A d \in Calls : at'[d] = "clear" <=> at[d] = "clear" BY <1>1, <1>2, <1>c
  <2>2. \A d \in closes : at'[d] \notin {"clear", "clearing"} BY <1>1, <1>2, <1>c DEF WaitersExact, LifecycleTypeOK
  <2>3. \A d \in Calls : at'[d] \in {"turn", "turning", "zero", "zeroing"} => d \in closes
    BY <1>1, <1>2, <1>c DEF WaitersExact
  <2> QED BY <1>1, <2>1, <2>2, <2>3 DEF WaitersExact
<1>7. CountersExact'
  <2>1. at[c] # "running" /\ \A d \in Calls : at'[d] = "running" <=> d = c \/ at[d] = "running" BY <1>1, <1>2
  <2>2. \A r \in Servers : active'[r] = Cardinality(Running(r)') BY <1>1, <2>1, CountsUp
  <2> QED BY <1>1, <2>2 DEF CountersExact
<1>8. OrderKept'
  <2>1. \A d, e \in Calls : at'[d] = "zero" /\ home'[e] = home'[d] => at'[e] # "clearing"
    BY <1>1, <1>2 DEF OrderKept
  <2>2. \A d \in Calls : at'[d] = "zeroing" => active'[home'[d]] = 0
    <3>1. \A d \in Calls : home[d] # s => active'[home[d]] = active[home[d]] BY <1>1 DEF LifecycleTypeOK
    <3> QED BY <1>1, <1>2, <1>o, <3>1 DEF OrderKept
  <2>3. \A d \in closes', e \in Calls : at'[d] = "running" /\ home'[e] = home'[d] =>
         at'[e] # "clearing" /\ (at'[e] = "running" => e = d)
    <3> SUFFICES ASSUME NEW d \in closes, NEW e \in Calls, at'[d] = "running", home[e] = home[d]
                 PROVE  at'[e] # "clearing" /\ (at'[e] = "running" => e = d)
      BY <1>1
    <3>1. d \in Calls BY DEF LifecycleTypeOK
    <3>2. CASE home[d] = s
      <4>1. d = c BY <3>1, <3>2, <1>z, <1>2
      <4> QED BY <4>1, <1>2, <1>n, <1>z
    <3>3. CASE home[d] # s BY <3>1, <3>3, <1>2 DEF OrderKept
    <3> QED BY <3>2, <3>3
  <2>4. \A i, j \in DOMAIN jobs' :
         /\ home'[jobs'[i]] = home'[jobs'[j]]
         /\ jobs'[i] \in closes' /\ at'[jobs'[j]] = "clearing"
         => j < i /\ at'[jobs'[i]] = "turning"
    <3> SUFFICES ASSUME NEW i \in DOMAIN jobs', NEW j \in DOMAIN jobs', home[jobs'[i]] = home[jobs'[j]],
                        jobs'[i] \in closes, at'[jobs'[j]] = "clearing"
                 PROVE  j < i /\ at'[jobs'[i]] = "turning"
      BY <1>1
    <3>1. j + 1 < i + 1 /\ at[jobs[i + 1]] = "turning" BY <1>j, <1>2 DEF OrderKept
    <3> QED BY <3>1, <1>j, <1>2
  <2> QED BY <2>1, <2>2, <2>3, <2>4 DEF OrderKept
<1>9. DisposedIsDrained'
  <2>1. pending[s] > 0 BY <1>1, <1>s, <1>c, PendingOf
  <2> QED BY <1>1, <1>s, <2>1 DEF DisposedIsDrained, IsDrained, LifecycleTypeOK
<1> QED BY <1>3, <1>4, <1>5, <1>6, <1>7, <1>8, <1>9

\* A shared call starts once no exclusive call is under way.
LEMMA EnterSharedKeeps ==
    ASSUME LifecycleOK, NEW c \in Calls, EnterShared(c)
    PROVE  LifecycleOK'
<1> USE DEF LifecycleOK, LifecycleInv
<1> DEFINE s == home[c]
<1> DEFINE p == IF state[s] = "accepting" THEN "running" ELSE "refused"
<1>1. /\ at[c] = "clearing" /\ jobs # << >> /\ Head(jobs) = c
      /\ active' = IF state[s] = "accepting" THEN [active EXCEPT ![s] = @ + 1] ELSE active
      /\ at' = [at EXCEPT ![c] = p]
      /\ jobs' = Tail(jobs)
      /\ UNCHANGED <<home, closes, state, pending, turns, waiters>>
  BY DEF EnterShared, Move, callFacts
<1>2. \A d \in Calls : at'[d] = IF d = c THEN p ELSE at[d] BY <1>1 DEF LifecycleTypeOK
<1>s. s \in Servers /\ jobs \in Seq(Calls) BY DEF LifecycleTypeOK
<1>q. p \in {"running", "refused"} OBVIOUS
<1>c. c \notin closes BY <1>1 DEF WaitersExact
<1>o. /\ \A d \in Calls : home[d] = s => at[d] \notin {"zero", "zeroing"}
      /\ \A d \in closes : home[d] = s => at[d] # "running"
  <2>1. \A d \in Calls : home[d] = s => at[d] # "zero" BY <1>1 DEF OrderKept
  <2>2. \A d \in closes : home[d] = s => at[d] # "running" BY <1>1 DEF OrderKept
  <2>3. ASSUME NEW d \in Calls, home[d] = s, at[d] = "zeroing" PROVE FALSE
    <3>1. d \in closes /\ Has(jobs, d) /\ Has(jobs, c) BY <2>3, <1>1 DEF WaitersExact, JobsExact
    <3>2. PICK i \in DOMAIN jobs : jobs[i] = d BY <3>1 DEF Has
    <3>3. PICK j \in DOMAIN jobs : jobs[j] = c BY <3>1 DEF Has
    <3> QED BY <3>1, <3>2, <3>3, <2>3, <1>1 DEF OrderKept
  <2> QED BY <2>1, <2>2, <2>3
<1>j. /\ jobs' \in Seq(Calls) /\ Injective(jobs') /\ \A x : Has(jobs', x) <=> Has(jobs, x) /\ x # c
      /\ \A k \in DOMAIN jobs' : k \in Nat /\ k + 1 \in DOMAIN jobs /\ jobs'[k] = jobs[k + 1] /\ jobs'[k] \in Calls /\ jobs'[k] # c
  <2>1. Injective(jobs) BY DEF JobsExact
  <2>2. /\ jobs' \in Seq(Calls) /\ Injective(jobs') /\ \A x : Has(jobs', x) <=> Has(jobs, x) /\ x # c
        /\ \A k \in DOMAIN jobs' : k \in Nat /\ k + 1 \in DOMAIN jobs /\ jobs'[k] = jobs[k + 1]
    BY <1>1, <1>s, <2>1, Taken
  <2>3. \A k \in DOMAIN jobs' : Has(jobs', jobs'[k]) BY DEF Has
  <2>4. \A k \in DOMAIN jobs : jobs[k] \in Calls BY <1>s
  <2> QED BY <2>2, <2>3, <2>4
<1>3. LifecycleTypeOK'
  <2>1. at' \in [Calls -> Places] BY <1>1 DEF LifecycleTypeOK, Places
  <2>2. active[s] + 1 \in Nat /\ active \in [Servers -> Nat] BY <1>s DEF LifecycleTypeOK
  <2>3. active' \in [Servers -> Nat] BY <1>1, <2>2
  <2> QED BY <1>1, <1>j, <2>1, <2>3 DEF LifecycleTypeOK
<1>4. JobsExact' BY <1>j, <1>1, <1>2, <1>q DEF JobsExact
<1>5. TurnsExact' 
  <2>1. \A r \in Servers : \A k \in DOMAIN turns[r] : turns[r][k] \in Calls /\ turns[r][k] # c
    BY <1>c DEF TurnsExact, LifecycleTypeOK
  <2> QED BY <1>1, <1>2, <1>c, <2>1 DEF TurnsExact, On
<1>6. WaitersExact'
  <2>1. \A d \in Calls : at'[d] = "clear" <=> at[d] = "clear" BY <1>1, <1>2, <1>q, <1>c
  <2>2. \A d \in closes : at'[d] \notin {"clear", "clearing"} BY <1>1, <1>2, <1>q, <1>c DEF WaitersExact, LifecycleTypeOK
  <2>3. \A d \in Calls : at'[d] \in {"turn", "turning", "zero", "zeroing"} => d \in closes
    BY <1>1, <1>2, <1>q, <1>c DEF WaitersExact
  <2> QED BY <1>1, <2>1, <2>2, <2>3 DEF WaitersExact
<1>7. CountersExact'
  <2>1. \A r \in Servers : active'[r] = Cardinality(Running(r)')
    <3>1. CASE state[s] = "accepting"
      <4>1. at[c] # "running" /\ \A d \in Calls : at'[d] = "running" <=> d = c \/ at[d] = "running" BY <3>1, <1>1, <1>2
      <4> QED BY <3>1, <1>1, <4>1, CountsUp
    <3>2. CASE state[s] # "accepting"
      <4>1. \A d \in Calls : at'[d] = "running" <=> at[d] = "running" BY <3>2, <1>1, <1>2
      <4> QED BY <3>2, <1>1, <4>1, CountsKept
    <3> QED BY <3>1, <3>2
  <2> QED BY <1>1, <2>1 DEF CountersExact
<1>8. OrderKept'
  <2>1. \A d, e \in Calls : at'[d] = "zero" /\ home'[e] = home'[d] => at'[e] # "clearing"
    BY <1>1, <1>2, <1>q DEF OrderKept
  <2>2. \A d \in Calls : at'[d] = "zeroing" => active'[home'[d]] = 0
    <3>1. \A d \in Calls : home[d] # s => active'[home[d]] = active[home[d]] BY <1>1 DEF LifecycleTypeOK
    <3> QED BY <1>1, <1>2, <1>q, <1>o, <3>1 DEF OrderKept
  <2>3. \A d \in closes', e \in Calls : at'[d] = "running" /\ home'[e] = home'[d] =>
         at'[e] # "clearing" /\ (at'[e] = "running" => e = d)
    <3> SUFFICES ASSUME NEW d \in closes, NEW e \in Calls, at'[d] = "running", home[e] = home[d]
                 PROVE  at'[e] # "clearing" /\ (at'[e] = "running" => e = d)
      BY <1>1
    <3>1. d \in Calls /\ d # c /\ at[d] = "running" BY <1>c, <1>2 DEF LifecycleTypeOK
    <3>2. e # c BY <3>1, <1>o
    <3> QED BY <3>1, <3>2, <1>2 DEF OrderKept
  <2>4. \A i, j \in DOMAIN jobs' :
         /\ home'[jobs'[i]] = home'[jobs'[j]]
         /\ jobs'[i] \in closes' /\ at'[jobs'[j]] = "clearing"
         => j < i /\ at'[jobs'[i]] = "turning"
    <3> SUFFICES ASSUME NEW i \in DOMAIN jobs', NEW j \in DOMAIN jobs', home[jobs'[i]] = home[jobs'[j]],
                        jobs'[i] \in closes, at'[jobs'[j]] = "clearing"
                 PROVE  j < i /\ at'[jobs'[i]] = "turning"
      BY <1>1
    <3>1. j + 1 < i + 1 /\ at[jobs[i + 1]] = "turning" BY <1>j, <1>2 DEF OrderKept
    <3> QED BY <3>1, <1>j, <1>2
  <2> QED BY <2>1, <2>2, <2>3, <2>4 DEF OrderKept
<1>9. DisposedIsDrained' BY <1>1, <1>s DEF DisposedIsDrained, IsDrained, LifecycleTypeOK
<1> QED BY <1>3, <1>4, <1>5, <1>6, <1>7, <1>8, <1>9

\* The list of the call that waits for the running ones, if there is one.
LEMMA ZeroList ==
    ASSUME LifecycleOK, NEW s \in Servers
    PROVE  /\ ZeroWaiters(s) \in Seq(Calls) /\ Injective(ZeroWaiters(s))
           /\ \A x : Has(ZeroWaiters(s), x) <=> x \in Calls /\ home[x] = s /\ at[x] = "zero"
           /\ \A x \in Calls : home[x] = s /\ at[x] = "zero" => pending[s] > 0
<1> USE DEF LifecycleOK, LifecycleInv
<1>1. \A x \in AtZero(s) : x \in Calls /\ home[x] = s /\ at[x] = "zero" /\ turns[s][1] = x /\ pending[s] > 0
  BY PendingOf DEF AtZero, On, WaitersExact
<1>2. \A x : x \in AtZero(s) <=> x \in Calls /\ home[x] = s /\ at[x] = "zero" BY DEF AtZero, On
<1>3. CASE AtZero(s) = {}
  <2>1. ZeroWaiters(s) = << >> BY <1>3 DEF ZeroWaiters
  <2>2. << >> \in Seq(Calls) /\ DOMAIN << >> = {} BY EmptySeq
  <2> QED BY <2>1, <2>2, <1>2, <1>3 DEF Has, Injective
<1>4. CASE AtZero(s) # {}
  <2>1. PICK z : z \in AtZero(s) BY <1>4
  <2>2. AtZero(s) = {z} BY <2>1, <1>1
  <2>3. ZeroWaiters(s) = <<z>> BY <2>2, <1>4 DEF ZeroWaiters
  <2>4. <<z>> \in Seq(Calls) /\ DOMAIN <<z>> = {1} /\ <<z>>[1] = z BY <2>1, <1>1
  <2>5. Injective(<<z>>) /\ \A x : Has(<<z>>, x) <=> x = z BY <2>4 DEF Has, Injective
  <2> QED BY <2>2, <2>3, <2>4, <2>5, <1>1, <1>2
<1> QED BY <1>3, <1>4

\* The queue of the event loop after two lists have joined it.
LEMMA ResumesTwo ==
    ASSUME NEW q \in Seq(Calls), NEW y \in Seq(Calls), NEW z \in Seq(Calls),
           Injective(q), Injective(y), Injective(z),
           \A x : ~(Has(q, x) /\ Has(y, x)) /\ ~(Has(q, x) /\ Has(z, x)) /\ ~(Has(y, x) /\ Has(z, x))
    PROVE  LET r == q \o y \o z IN
           /\ r \in Seq(Calls) /\ Injective(r)
           /\ \A x : Has(r, x) <=> Has(q, x) \/ Has(y, x) \/ Has(z, x)
           /\ \A k \in DOMAIN r : (k \in DOMAIN q /\ r[k] = q[k]) \/ Has(y, r[k]) \/ Has(z, r[k])
<1> DEFINE p == q \o y
<1> DEFINE r == p \o z
<1>1. /\ p \in Seq(Calls) /\ Injective(p)
      /\ \A x : Has(p, x) <=> Has(q, x) \/ Has(y, x)
      /\ \A k \in DOMAIN p : (k \in DOMAIN q /\ p[k] = q[k]) \/ Has(y, p[k])
  <2>1. \A x : ~(Has(q, x) /\ Has(y, x)) OBVIOUS
  <2> QED BY <2>1, Joined
<1> HIDE DEF p
<1>2. /\ r \in Seq(Calls) /\ Injective(r)
      /\ \A x : Has(r, x) <=> Has(p, x) \/ Has(z, x)
      /\ \A k \in DOMAIN r : (k \in DOMAIN p /\ r[k] = p[k]) \/ Has(z, r[k])
  <2>1. \A x : ~(Has(p, x) /\ Has(z, x)) BY <1>1
  <2> QED BY <1>1, <2>1, Joined
<1> HIDE DEF r
<1>3. \A k \in DOMAIN r : (k \in DOMAIN q /\ r[k] = q[k]) \/ Has(y, r[k]) \/ Has(z, r[k])
  BY <1>1, <1>2
<1> QED BY <1>1, <1>2, <1>3 DEF p, r

\* The end of a shared call.
LEMMA FinishSharedKeeps ==
    ASSUME LifecycleOK, NEW c \in Calls, FinishShared(c)
    PROVE  LifecycleOK'
<1> USE DEF LifecycleOK, LifecycleInv
<1> DEFINE s == home[c]
<1> DEFINE zero  == IF active[s] = 1 THEN ZeroWaiters(s) ELSE << >>
<1> DEFINE clear == IF pending[s] = 0 THEN waiters[s] ELSE << >>
<1>1. /\ at[c] = "running" /\ c \notin closes
      /\ active' = [active EXCEPT ![s] = @ - 1]
      /\ jobs' = jobs \o zero \o clear
      /\ waiters' = [waiters EXCEPT ![s] = IF pending[s] = 0 THEN << >> ELSE @]
      /\ at' = [d \in Calls |->
                CASE d = c -> "over"
                  [] d # c /\ active[s] = 1 /\ d \in AtZero(s) -> "zeroing"
                  [] d # c /\ pending[s] = 0 /\ home[d] = s /\ at[d] = "clear" -> "clearing"
                  [] OTHER -> at[d]]
      /\ UNCHANGED <<home, closes, state, pending, turns>>
  BY DEF FinishShared, callFacts
<1>s. s \in Servers /\ jobs \in Seq(Calls) /\ waiters[s] \in Seq(Calls) /\ pending[s] \in Nat BY DEF LifecycleTypeOK
<1>e. << >> \in Seq(Calls) /\ Injective(<< >>) /\ \A x : ~Has(<< >>, x) BY EmptySeq DEF Injective, Has
<1>y. /\ zero \in Seq(Calls) /\ Injective(zero)
      /\ \A x : Has(zero, x) <=> active[s] = 1 /\ x \in Calls /\ home[x] = s /\ at[x] = "zero"
      /\ \A x \in Calls : home[x] = s /\ at[x] = "zero" => pending[s] > 0
  BY <1>s, <1>e, ZeroList
<1>w. \A x : Has(waiters[s], x) <=> x \in Calls /\ home[x] = s /\ at[x] = "clear"
  BY <1>s DEF WaitersExact, Has
<1>z. /\ clear \in Seq(Calls) /\ Injective(clear)
      /\ \A x : Has(clear, x) <=> pending[s] = 0 /\ x \in Calls /\ home[x] = s /\ at[x] = "clear"
  BY <1>s, <1>e, <1>w DEF WaitersExact
<1>q. Injective(jobs) /\ \A x : Has(jobs, x) <=> x \in Calls /\ at[x] \in {"turning", "zeroing", "clearing"}
  BY <1>s DEF JobsExact, Has
<1>2. \A d \in Calls : at'[d] =
        IF d = c THEN "over"
        ELSE IF active[s] = 1 /\ home[d] = s /\ at[d] = "zero" THEN "zeroing"
        ELSE IF pending[s] = 0 /\ home[d] = s /\ at[d] = "clear" THEN "clearing"
        ELSE at[d]
  BY <1>1 DEF AtZero, On
<1>j. /\ jobs' \in Seq(Calls) /\ Injective(jobs')
      /\ \A x : Has(jobs', x) <=> Has(jobs, x) \/ Has(zero, x) \/ Has(clear, x)
      /\ \A k \in DOMAIN jobs' : (k \in DOMAIN jobs /\ jobs'[k] = jobs[k]) \/ Has(zero, jobs'[k]) \/ Has(clear, jobs'[k])
  <2> HIDE DEF zero, clear
  <2>1. \A x : ~(Has(jobs, x) /\ Has(zero, x)) /\ ~(Has(jobs, x) /\ Has(clear, x)) /\ ~(Has(zero, x) /\ Has(clear, x))
    BY <1>q, <1>y, <1>z
  <2> QED BY <1>1, <1>s, <1>q, <1>y, <1>z, <2>1, ResumesTwo
<1> HIDE DEF zero, clear
<1>a. \A d \in Calls : at'[d] = "running" <=> d # c /\ at[d] = "running" BY <1>2
<1>d. /\ \A r \in Servers : active'[r] = Cardinality(Running(r)')
      /\ active[s] \in Nat /\ active[s] > 0 /\ active' \in [Servers -> Nat]
  BY <1>1, <1>a, CountsDown
<1>n. pending[s] = 0 => \A d \in closes : home[d] = s => at[d] \in {"idle", "over", "refused"}
  BY <1>s, PendingOf
<1>3. LifecycleTypeOK'
  <2>1. at' \in [Calls -> Places] 
    <3>1. \A d \in Calls : at[d] \in Places BY DEF LifecycleTypeOK
    <3> QED BY <1>1, <3>1 DEF Places, Waiting
  <2>2. waiters' \in [Servers -> Seq(Calls)] BY <1>1, <1>e DEF LifecycleTypeOK
  <2> QED BY <1>1, <1>j, <1>d, <2>1, <2>2 DEF LifecycleTypeOK
<1>4. JobsExact'
  <2>1. \A d \in Calls : at'[d] \in {"turning", "zeroing", "clearing"} <=> Has(jobs', d)
    BY <1>j, <1>q, <1>y, <1>z, <1>2, <1>1
  <2> QED BY <1>j, <2>1 DEF JobsExact
<1>5. TurnsExact'
  <2>1. \A r \in Servers : \A k \in DOMAIN turns[r] : turns[r][k] \in Calls /\ turns[r][k] \in closes /\ turns[r][k] # c
    BY <1>1 DEF TurnsExact, LifecycleTypeOK
  <2>2. \A d \in closes : d \in Calls /\ d # c /\ at[d] # "clear" BY <1>1 DEF WaitersExact, LifecycleTypeOK
  <2>3. \A d \in closes : at'[d] = at[d] \/ (at[d] = "zero" /\ at'[d] = "zeroing") BY <2>2, <1>2
  <2>4. \A r \in Servers : \A k \in DOMAIN turns[r] :
          /\ k = 1 => at'[turns[r][k]] \in {"turning", "zero", "zeroing", "running"}
          /\ k # 1 => at'[turns[r][k]] = "turn"
    BY <2>1, <2>3 DEF TurnsExact
  <2>5. \A d \in closes : at'[d] \notin {"idle", "over", "refused"} => at[d] \notin {"idle", "over", "refused"}
    BY <2>3
  <2>6. \A r \in Servers : \A d \in On(r) \cap closes :
          at'[d] \notin {"idle", "over", "refused"} => Has(turns[r], d)
    BY <2>5 DEF TurnsExact
  <2>7. \A r \in Servers : Injective(turns[r]) /\ \A k \in DOMAIN turns[r] : turns[r][k] \in closes /\ home[turns[r][k]] = r
    BY DEF TurnsExact
  <2>8. turns' = turns /\ home' = home /\ closes' = closes BY <1>1
  <2> QED BY ONLY <2>4, <2>6, <2>7, <2>8 DEF TurnsExact, On
<1>6. WaitersExact'
  <2>1. \A r \in Servers : Injective(waiters'[r]) /\ \A d \in Calls : Has(waiters'[r], d) <=> home[d] = r /\ at'[d] = "clear"
    <3> SUFFICES ASSUME NEW r \in Servers
                 PROVE  Injective(waiters'[r]) /\ \A d \in Calls : Has(waiters'[r], d) <=> home[d] = r /\ at'[d] = "clear"
      OBVIOUS
    <3>1. CASE r # s 
      <4>1. waiters'[r] = waiters[r] BY <3>1, <1>1 DEF LifecycleTypeOK
      <4>2. \A d \in Calls : home[d] = r => (at'[d] = "clear" <=> at[d] = "clear") BY <3>1, <1>1, <1>2
      <4> QED BY <4>1, <4>2 DEF WaitersExact
    <3>2. CASE r = s /\ pending[s] = 0
      <4>1. waiters'[r] = << >> BY <3>2, <1>1, <1>s DEF LifecycleTypeOK
      <4>2. \A d \in Calls : home[d] = r => at'[d] # "clear" BY <3>2, <1>2
      <4> QED BY <4>1, <4>2, <1>e
    <3>3. CASE r = s /\ pending[s] # 0
      <4>1. waiters'[r] = waiters[r] BY <3>3, <1>1, <1>s DEF LifecycleTypeOK
      <4>2. \A d \in Calls : at'[d] = "clear" <=> at[d] = "clear" BY <3>3, <1>1, <1>2
      <4> QED BY <4>1, <4>2 DEF WaitersExact
    <3> QED BY <3>1, <3>2, <3>3
  <2>2. \A d \in closes : at'[d] \notin {"clear", "clearing"} BY <1>2 DEF WaitersExact, LifecycleTypeOK
  <2>3. \A d \in Calls : at'[d] \in {"turn", "turning", "zero", "zeroing"} => d \in closes
    BY <1>2 DEF WaitersExact
  <2> QED BY <1>1, <2>1, <2>2, <2>3 DEF WaitersExact
<1>7. CountersExact' BY <1>1, <1>d DEF CountersExact
<1>8. OrderKept'
  <2>1. \A d, e \in Calls : at'[d] = "zero" /\ home[e] = home[d] => at'[e] # "clearing"
    <3> SUFFICES ASSUME NEW d \in Calls, NEW e \in Calls, at'[d] = "zero", home[e] = home[d], at'[e] = "clearing"
                 PROVE  FALSE
      OBVIOUS
    <3>1. at[d] = "zero" BY <1>2
    <3>2. at[e] # "clearing" BY <3>1 DEF OrderKept
    <3>3. home[e] = s /\ pending[s] = 0 BY <3>2, <1>2
    <3>4. home[d] = s BY <3>3
    <3>5. pending[s] > 0 BY <3>1, <3>4, <1>y
    <3> QED BY <3>3, <3>5, <1>s
  <2>2. \A d \in Calls : at'[d] = "zeroing" => active'[home[d]] = 0
    <3> SUFFICES ASSUME NEW d \in Calls, at'[d] = "zeroing" PROVE active'[home[d]] = 0 OBVIOUS
    <3>1. CASE at[d] = "zeroing"
      <4>1. active[home[d]] = 0 BY <3>1 DEF OrderKept
      <4>2. home[d] # s BY <4>1, <1>d
      <4> QED BY <4>1, <4>2, <1>1 DEF LifecycleTypeOK
    <3>2. CASE at[d] # "zeroing"
      <4>1. home[d] = s /\ active[s] = 1 BY <3>2, <1>2
      <4> QED BY <4>1, <1>1, <1>s DEF LifecycleTypeOK
    <3> QED BY <3>1, <3>2
  <2>3. \A d \in closes, e \in Calls : at'[d] = "running" /\ home[e] = home[d] =>
         at'[e] # "clearing" /\ (at'[e] = "running" => e = d)
    <3> SUFFICES ASSUME NEW d \in closes, NEW e \in Calls, at'[d] = "running", home[e] = home[d]
                 PROVE  at'[e] # "clearing" /\ (at'[e] = "running" => e = d)
      OBVIOUS
    <3>1. d \in Calls /\ at[d] = "running" /\ d # c BY <1>a DEF LifecycleTypeOK
    <3>2. at[e] # "clearing" /\ (at[e] = "running" => e = d) /\ home[d] # s BY <3>1, <1>1 DEF OrderKept
    <3> QED BY <3>2, <1>2
  <2>4. \A i, j \in DOMAIN jobs' :
         /\ home[jobs'[i]] = home[jobs'[j]]
         /\ jobs'[i] \in closes /\ at'[jobs'[j]] = "clearing"
         => j < i /\ at'[jobs'[i]] = "turning"
    <3> SUFFICES ASSUME NEW i \in DOMAIN jobs', NEW j \in DOMAIN jobs', home[jobs'[i]] = home[jobs'[j]],
                        jobs'[i] \in closes, at'[jobs'[j]] = "clearing"
                 PROVE  j < i /\ at'[jobs'[i]] = "turning"
      OBVIOUS
    <3>1. Has(jobs', jobs'[i]) /\ Has(jobs', jobs'[j]) BY DEF Has
    <3>2. jobs'[i] \in Calls /\ jobs'[j] \in Calls /\ jobs'[i] # c /\ jobs'[j] # c
      BY <3>1, <1>j, <1>q, <1>y, <1>z, <1>1
    <3>3. ~Has(clear, jobs'[i]) BY <1>z DEF WaitersExact
    <3>4. CASE home[jobs'[i]] # s
      <4>1. i \in DOMAIN jobs /\ jobs'[i] = jobs[i] /\ j \in DOMAIN jobs /\ jobs'[j] = jobs[j]
        BY <3>4, <1>j, <1>y, <1>z
      <4>2. at'[jobs[j]] = at[jobs[j]] /\ at'[jobs[i]] = at[jobs[i]] BY <3>2, <3>4, <4>1, <1>2
      <4> QED BY <4>1, <4>2 DEF OrderKept
    <3>5. CASE home[jobs'[i]] = s
      <4>1. pending[s] # 0 BY <3>1, <3>3, <3>5, <1>j, <1>n, <1>q, <1>y, <1>s
      <4>2. at[jobs'[j]] = "clearing" BY <4>1, <3>2, <1>2
      <4>3. at[jobs'[i]] # "zero" BY <4>2, <3>2 DEF OrderKept
      <4>4. i \in DOMAIN jobs /\ jobs'[i] = jobs[i] BY <3>3, <4>3, <1>j, <1>y
      <4>5. j \in DOMAIN jobs /\ jobs'[j] = jobs[j] BY <4>1, <4>2, <1>j, <1>y, <1>z
      <4>6. j < i /\ at[jobs[i]] = "turning" BY <4>2, <4>4, <4>5 DEF OrderKept
      <4> QED BY <4>4, <4>6, <3>2, <1>2
    <3> QED BY <3>4, <3>5
  <2> QED BY ZenonT(60), <1>1, <2>1, <2>2, <2>3, <2>4 DEF OrderKept
<1>9. DisposedIsDrained' BY <1>1, <1>s, <1>d DEF DisposedIsDrained, IsDrained, LifecycleTypeOK
<1> QED BY <1>3, <1>4, <1>5, <1>6, <1>7, <1>8, <1>9

\* The end of an exclusive call: the next turn comes, or the shared calls go on.
LEMMA FinishExclusiveKeeps ==
    ASSUME LifecycleOK, NEW c \in Calls, FinishExclusive(c)
    PROVE  LifecycleOK'
<1> USE DEF LifecycleOK, LifecycleInv
<1> DEFINE s == home[c]
<1> DEFINE next  == NextTurn(s)
<1> DEFINE clear == IF pending[s] = 1 THEN waiters[s] ELSE << >>
<1>1. /\ at[c] = "running" /\ c \in closes
      /\ active' = [active EXCEPT ![s] = @ - 1] /\ pending' = [pending EXCEPT ![s] = @ - 1]
      /\ turns' = [turns EXCEPT ![s] = Tail(@)]
      /\ jobs' = jobs \o next \o clear
      /\ waiters' = [waiters EXCEPT ![s] = IF pending[s] = 1 THEN << >> ELSE @]
      /\ at' = [d \in Calls |->
                CASE d = c -> "over"
                  [] d # c /\ Len(turns[s]) > 1 /\ d = turns[s][2] -> "turning"
                  [] d # c /\ pending[s] = 1 /\ home[d] = s /\ at[d] = "clear" -> "clearing"
                  [] OTHER -> at[d]]
      /\ UNCHANGED <<home, closes, state>>
  BY DEF FinishExclusive, callFacts
<1>s. s \in Servers /\ jobs \in Seq(Calls) /\ waiters[s] \in Seq(Calls) /\ turns[s] \in Seq(Calls) 
  BY DEF LifecycleTypeOK
<1>p. /\ pending[s] = Len(turns[s]) /\ Len(turns[s]) \in Nat /\ DOMAIN turns[s] = 1..Len(turns[s])
      /\ pending[s] > 0 /\ turns[s][1] = c /\ turns[s] # << >>
  BY SMTT(30), <1>1, <1>s, PendingOf
<1>e. << >> \in Seq(Calls) /\ Injective(<< >>) /\ \A x : ~Has(<< >>, x) BY EmptySeq DEF Injective, Has
<1>f. \A d \in closes : d \in Calls /\ (home[d] = s /\ at[d] \notin {"idle", "over", "refused", "turn"} => d = c)
  BY <1>s, <1>p, PendingOf DEF LifecycleTypeOK
<1>g. \A d \in Calls : home[d] = s => at[d] # "clearing" /\ (at[d] = "running" => d = c) 
  BY <1>1 DEF OrderKept
<1>t. Len(turns[s]) > 1 => turns[s][2] \in closes /\ turns[s][2] \in Calls /\ home[turns[s][2]] = s /\ at[turns[s][2]] = "turn"
  <2>1. Len(turns[s]) > 1 => 2 \in DOMAIN turns[s] BY <1>p
  <2> QED BY <2>1, <1>s DEF TurnsExact, LifecycleTypeOK
<1>y. /\ next \in Seq(Calls) /\ Injective(next)
      /\ \A x : Has(next, x) <=> Len(turns[s]) > 1 /\ x = turns[s][2]
  <2>1. CASE Len(turns[s]) > 1
    <3>1. next = <<turns[s][2]>> BY <2>1 DEF NextTurn
    <3>2. next \in Seq(Calls) /\ DOMAIN next = {1} /\ next[1] = turns[s][2] BY <3>1, <2>1, <1>t
    <3> HIDE DEF next
    <3> QED BY <3>2, <2>1 DEF Has, Injective
  <2>2. CASE ~(Len(turns[s]) > 1) BY <2>2, <1>e DEF NextTurn
  <2> QED BY <2>1, <2>2
<1>w. \A x : Has(waiters[s], x) <=> x \in Calls /\ home[x] = s /\ at[x] = "clear"
  BY <1>s DEF WaitersExact, Has
<1>z. /\ clear \in Seq(Calls) /\ Injective(clear)
      /\ \A x : Has(clear, x) <=> pending[s] = 1 /\ x \in Calls /\ home[x] = s /\ at[x] = "clear"
  BY <1>s, <1>e, <1>w DEF WaitersExact
<1>q. Injective(jobs) /\ \A x : Has(jobs, x) <=> x \in Calls /\ at[x] \in {"turning", "zeroing", "clearing"}
  BY <1>s DEF JobsExact, Has
<1> HIDE DEF next, clear
<1>u. UNCHANGED <<home, closes, state>> BY <1>1
<1>2. \A d \in Calls : at'[d] =
        IF d = c THEN "over"
        ELSE IF Len(turns[s]) > 1 /\ d = turns[s][2] THEN "turning"
        ELSE IF pending[s] = 1 /\ home[d] = s /\ at[d] = "clear" THEN "clearing"
        ELSE at[d]
  <2>1. at' = [d \in Calls |->
                CASE d = c -> "over"
                  [] d # c /\ Len(turns[s]) > 1 /\ d = turns[s][2] -> "turning"
                  [] d # c /\ pending[s] = 1 /\ home[d] = s /\ at[d] = "clear" -> "clearing"
                  [] OTHER -> at[d]]
    BY <1>1
  <2> DEFINE turn(d) == Len(turns[s]) > 1 /\ d = turns[s][2]
  <2>2. \A d \in Calls : at'[d] =
        CASE d = c -> "over"
          [] d # c /\ turn(d) -> "turning"
          [] d # c /\ pending[s] = 1 /\ home[d] = s /\ at[d] = "clear" -> "clearing"
          [] OTHER -> at[d]
    BY <2>1
  <2>3. \A d \in Calls : turn(d) => at[d] = "turn" BY <1>t
  <2> HIDE DEF turn
  <2>4. \A d \in Calls : at'[d] =
        IF d = c THEN "over"
        ELSE IF turn(d) THEN "turning"
        ELSE IF pending[s] = 1 /\ home[d] = s /\ at[d] = "clear" THEN "clearing"
        ELSE at[d]
    BY <2>2, <2>3
  <2> QED BY <2>4 DEF turn
<1>j. /\ jobs' \in Seq(Calls) /\ Injective(jobs')
      /\ \A x : Has(jobs', x) <=> Has(jobs, x) \/ Has(next, x) \/ Has(clear, x)
      /\ \A k \in DOMAIN jobs' : (k \in DOMAIN jobs /\ jobs'[k] = jobs[k]) \/ Has(next, jobs'[k]) \/ Has(clear, jobs'[k])
  <2>1. \A x : ~(Has(jobs, x) /\ Has(next, x)) /\ ~(Has(jobs, x) /\ Has(clear, x)) /\ ~(Has(next, x) /\ Has(clear, x))
    BY <1>q, <1>y, <1>z, <1>t
  <2> QED BY <1>1, <1>s, <1>q, <1>y, <1>z, <2>1, ResumesTwo
<1>a. \A d \in Calls : at'[d] = "running" <=> d # c /\ at[d] = "running" BY <1>2, <1>t
<1>d. /\ \A r \in Servers : active'[r] = Cardinality(Running(r)')
      /\ active[s] \in Nat /\ active[s] > 0 /\ active' \in [Servers -> Nat]
  BY <1>1, <1>a, CountsDown
<1>b. /\ turns'[s] \in Seq(Calls) /\ Injective(turns'[s]) /\ Len(turns'[s]) = Len(turns[s]) - 1
      /\ \A k \in DOMAIN turns'[s] : k \in Nat /\ k >= 1 /\ k + 1 \in DOMAIN turns[s] /\ turns'[s][k] = turns[s][k + 1]
      /\ \A x : Has(turns[s], x) => Has(turns'[s], x) \/ x = c
      /\ ~Has(turns'[s], c)
      /\ \A r \in Servers : r # s => turns'[r] = turns[r] /\ pending'[r] = pending[r]
      /\ pending'[s] = pending[s] - 1
  <2>1. /\ turns'[s] = Tail(turns[s]) /\ \A r \in Servers : r # s => turns'[r] = turns[r] /\ pending'[r] = pending[r]
        /\ pending'[s] = pending[s] - 1
    BY <1>1, <1>s DEF LifecycleTypeOK
  <2>2. Injective(turns[s]) /\ Head(turns[s]) = c BY <1>s, <1>p, Taken DEF TurnsExact
  <2>3. /\ Tail(turns[s]) \in Seq(Calls) /\ Injective(Tail(turns[s])) /\ Len(Tail(turns[s])) = Len(turns[s]) - 1
        /\ \A k \in DOMAIN Tail(turns[s]) : k \in Nat /\ k >= 1 /\ k + 1 \in DOMAIN turns[s] /\ Tail(turns[s])[k] = turns[s][k + 1]
        /\ \A x : Has(turns[s], x) => Has(Tail(turns[s]), x) \/ x = c
        /\ ~Has(Tail(turns[s]), c)
    BY <1>s, <1>p, <2>2, Taken
  <2> QED BY <2>1, <2>3
<1>3. LifecycleTypeOK'
  <2>1. at' \in [Calls -> Places] 
    <3>1. \A d \in Calls : at[d] \in Places BY DEF LifecycleTypeOK
    <3> QED BY <1>1, <3>1 DEF Places, Waiting
  <2>2. waiters' \in [Servers -> Seq(Calls)] BY <1>1, <1>e DEF LifecycleTypeOK
  <2>3. turns' \in [Servers -> Seq(Calls)] BY <1>1, <1>s, <1>p, Taken DEF LifecycleTypeOK
  <2>4. pending' \in [Servers -> Nat]
    <3>1. pending[s] - 1 \in Nat BY <1>p
    <3> QED BY <1>1, <3>1 DEF LifecycleTypeOK
  <2> QED BY <1>1, <1>j, <1>d, <2>1, <2>2, <2>3, <2>4 DEF LifecycleTypeOK
<1>4. JobsExact'
  <2>1. \A d \in Calls : at'[d] \in {"turning", "zeroing", "clearing"} <=> Has(jobs', d)
    BY <1>j, <1>q, <1>y, <1>z, <1>t, <1>2, <1>1
  <2> QED BY <1>j, <2>1 DEF JobsExact
<1>5. TurnsExact'
  <2> SUFFICES ASSUME NEW r \in Servers
               PROVE  /\ Injective(turns'[r])
                      /\ \A k \in DOMAIN turns'[r] :
                           /\ turns'[r][k] \in closes /\ home[turns'[r][k]] = r
                           /\ k = 1 => at'[turns'[r][k]] \in {"turning", "zero", "zeroing", "running"}
                           /\ k # 1 => at'[turns'[r][k]] = "turn"
                      /\ \A d \in closes : home[d] = r /\ at'[d] \notin {"idle", "over", "refused"} => Has(turns'[r], d)
    BY <1>u DEF TurnsExact, On
  <2>1. CASE r # s
    <3>1. \A d \in closes : home[d] = r => at'[d] = at[d] BY <2>1, <1>2, <1>f, <1>t
    <3>2. Injective(turns[r]) /\ \A k \in DOMAIN turns[r] : turns[r][k] \in closes /\ home[turns[r][k]] = r
      BY DEF TurnsExact
    <3>3. \A k \in DOMAIN turns[r] : at'[turns[r][k]] = at[turns[r][k]] BY <3>1, <3>2
    <3>4. \A d \in closes : home[d] = r /\ at'[d] \notin {"idle", "over", "refused"} => Has(turns[r], d)
      BY <3>1, <1>f DEF TurnsExact, On
    <3> QED BY SMTT(30), <2>1, <1>b, <3>2, <3>3, <3>4 DEF TurnsExact
  <2>2. CASE r = s
    <3>1. ASSUME NEW k \in DOMAIN turns'[s]
          PROVE  /\ turns'[s][k] \in closes /\ home[turns'[s][k]] = s
                 /\ k = 1 => at'[turns'[s][k]] \in {"turning", "zero", "zeroing", "running"}
                 /\ k # 1 => at'[turns'[s][k]] = "turn"
      <4>1. k \in Nat /\ k >= 1 /\ k + 1 \in DOMAIN turns[s] /\ turns'[s][k] = turns[s][k + 1] BY <1>b, <3>1
      <4>2. turns[s][k + 1] \in closes /\ home[turns[s][k + 1]] = s /\ at[turns[s][k + 1]] = "turn"
        BY <4>1, <1>s DEF TurnsExact
      <4>3. turns[s][k + 1] \in Calls /\ turns[s][k + 1] # c BY <4>2, <1>f, <1>1
      <4>4. CASE k = 1
        <5>1. Len(turns[s]) > 1 /\ turns'[s][k] = turns[s][2] BY <4>1, <4>4, <1>p
        <5> QED BY <5>1, <4>1, <4>2, <4>3, <4>4, <1>2
      <4>5. CASE k # 1 
        <5>1. Injective(turns[s]) /\ 2 \in DOMAIN turns[s] BY <1>s, <1>p, <4>1, <4>5 DEF TurnsExact
        <5>2. turns[s][k + 1] # turns[s][2] BY <5>1, <4>1, <4>5 DEF Injective
        <5> QED BY <5>2, <4>1, <4>2, <4>3, <4>5, <1>2
      <4> QED BY <4>4, <4>5
    <3>2. ASSUME NEW d \in closes, home[d] = s, at'[d] \notin {"idle", "over", "refused"} PROVE Has(turns'[s], d)
      <4>1. d \in Calls /\ d # c BY <3>2, <1>2, <1>f
      <4>2. at[d] \notin {"idle", "over", "refused"} BY <3>2, <4>1, <1>2, <1>t
      <4>3. Has(turns[s], d) BY <4>1, <4>2, <3>2, <1>s DEF TurnsExact, On
      <4> QED BY <4>1, <4>3, <1>b
    <3> QED BY <2>2, <1>b, <3>1, <3>2
  <2> QED BY <2>1, <2>2
<1>6. WaitersExact'
  <2>1. \A r \in Servers : Injective(waiters'[r]) /\ \A d \in Calls : Has(waiters'[r], d) <=> home[d] = r /\ at'[d] = "clear"
    <3> SUFFICES ASSUME NEW r \in Servers
                 PROVE  Injective(waiters'[r]) /\ \A d \in Calls : Has(waiters'[r], d) <=> home[d] = r /\ at'[d] = "clear"
      OBVIOUS
    <3>1. CASE r # s 
      <4>1. waiters'[r] = waiters[r] BY <3>1, <1>1 DEF LifecycleTypeOK
      <4>2. \A d \in Calls : home[d] = r => (at'[d] = "clear" <=> at[d] = "clear") BY <3>1, <1>1, <1>2, <1>t
      <4> QED BY <4>1, <4>2 DEF WaitersExact
    <3>2. CASE r = s /\ pending[s] = 1
      <4>1. waiters'[r] = << >> BY <3>2, <1>1, <1>s DEF LifecycleTypeOK
      <4>2. \A d \in Calls : home[d] = r => at'[d] # "clear" BY <3>2, <1>2
      <4> QED BY <4>1, <4>2, <1>e
    <3>3. CASE r = s /\ pending[s] # 1
      <4>1. waiters'[r] = waiters[r] BY <3>3, <1>1, <1>s DEF LifecycleTypeOK
      <4>2. \A d \in Calls : at'[d] = "clear" <=> at[d] = "clear" BY <3>3, <1>1, <1>2, <1>t
      <4> QED BY <4>1, <4>2 DEF WaitersExact
    <3> QED BY <3>1, <3>2, <3>3
  <2>2. \A d \in closes : at'[d] \notin {"clear", "clearing"} BY <1>2 DEF WaitersExact, LifecycleTypeOK
  <2>3. \A d \in Calls : at'[d] \in {"turn", "turning", "zero", "zeroing"} => d \in closes
    BY <1>2, <1>t DEF WaitersExact
  <2> QED BY <1>1, <2>1, <2>2, <2>3 DEF WaitersExact
<1>7. CountersExact'
  <2>1. \A r \in Servers : pending'[r] = Len(turns'[r]) BY <1>b, <1>p DEF CountersExact
  <2> QED BY <2>1, <1>d DEF CountersExact
<1>8. OrderKept'
  <2>1. \A d \in Calls : home[d] # s => at'[d] = at[d] BY <1>2, <1>t
  <2>2. \A d \in Calls : home[d] = s => at'[d] \notin {"zero", "zeroing", "running"}
    BY <1>2, <1>f, <1>g DEF WaitersExact
  <2>3. \A d, e \in Calls : at'[d] = "zero" /\ home[e] = home[d] => at'[e] # "clearing"
    BY <2>1, <2>2 DEF OrderKept
  <2>4. \A d \in Calls : at'[d] = "zeroing" => active'[home[d]] = 0
    <3>1. \A d \in Calls : home[d] # s => active'[home[d]] = active[home[d]] BY <1>1 DEF LifecycleTypeOK
    <3> QED BY <2>1, <2>2, <3>1 DEF OrderKept
  <2>5. \A d \in closes, e \in Calls : at'[d] = "running" /\ home[e] = home[d] =>
         at'[e] # "clearing" /\ (at'[e] = "running" => e = d)
    BY <2>1, <2>2, <1>f DEF OrderKept
  <2>6. \A i, j \in DOMAIN jobs' :
         /\ home[jobs'[i]] = home[jobs'[j]]
         /\ jobs'[i] \in closes /\ at'[jobs'[j]] = "clearing"
         => j < i /\ at'[jobs'[i]] = "turning"
    <3> SUFFICES ASSUME NEW i \in DOMAIN jobs', NEW j \in DOMAIN jobs', home[jobs'[i]] = home[jobs'[j]],
                        jobs'[i] \in closes, at'[jobs'[j]] = "clearing"
                 PROVE  j < i /\ at'[jobs'[i]] = "turning"
      OBVIOUS
    <3>1. Has(jobs', jobs'[i]) /\ Has(jobs', jobs'[j]) BY DEF Has
    <3>2. jobs'[i] \in Calls /\ jobs'[j] \in Calls /\ jobs'[i] # c /\ jobs'[j] # c
      <4>1. \A x : Has(jobs', x) => x \in Calls /\ at[x] # "running" BY <1>j, <1>q, <1>y, <1>z, <1>t
      <4> QED BY <4>1, <3>1, <1>1
    <3>3. CASE home[jobs'[i]] # s
      <4>1. i \in DOMAIN jobs /\ jobs'[i] = jobs[i] /\ j \in DOMAIN jobs /\ jobs'[j] = jobs[j]
        BY <3>3, <1>j, <1>y, <1>z, <1>t
      <4>2. at'[jobs[j]] = at[jobs[j]] /\ at'[jobs[i]] = at[jobs[i]] BY <3>2, <3>3, <4>1, <2>1
      <4> QED BY <4>1, <4>2 DEF OrderKept
    <3>4. CASE home[jobs'[i]] = s
      <4>1. pending[s] = 1 BY <3>2, <3>4, <1>2, <1>g
      <4>2. ~Has(next, jobs'[i]) /\ ~Has(clear, jobs'[i]) BY <4>1, <1>p, <1>y, <1>z DEF WaitersExact
      <4>3. at[jobs'[i]] \in {"turning", "zeroing", "clearing"} BY <4>2, <3>1, <1>j, <1>q
      <4> QED BY <4>3, <3>2, <3>4, <1>f
    <3> QED BY <3>3, <3>4
  <2> QED BY <1>u, <2>3, <2>4, <2>5, <2>6 DEF OrderKept
<1>9. DisposedIsDrained' BY <1>1, <1>s, <1>d DEF DisposedIsDrained, IsDrained, LifecycleTypeOK
<1> QED BY <1>3, <1>4, <1>5, <1>6, <1>7, <1>8, <1>9

\* A server begins to close, and is disposed of once it has drained.
LEMMA ClosingKeeps ==
    ASSUME LifecycleOK, NEW s \in Servers, Quiesce(s) \/ MarkDisposed(s)
    PROVE  LifecycleOK'
<1> USE DEF LifecycleOK, LifecycleInv
<1>1. /\ UNCHANGED <<home, closes, active, pending, turns, waiters, jobs, at>>
      /\ state' = [state EXCEPT ![s] = "quiescing"] \/ (state' = [state EXCEPT ![s] = "disposed"] /\ IsDrained(s))
  BY DEF Quiesce, MarkDisposed, callFacts
<1>2. LifecycleTypeOK' BY <1>1 DEF LifecycleTypeOK
<1>3. JobsExact' /\ TurnsExact' /\ WaitersExact' /\ OrderKept'
  BY <1>1 DEF JobsExact, TurnsExact, WaitersExact, OrderKept, On
<1>4. CountersExact' BY <1>1 DEF CountersExact, Running, On
<1>5. DisposedIsDrained' BY <1>1 DEF DisposedIsDrained, IsDrained, LifecycleTypeOK
<1> QED BY <1>2, <1>3, <1>4, <1>5

\* The lifecycle alone keeps its invariant.
LEMMA LifecycleStep ==
    ASSUME LifecycleOK, LifecycleNext
    PROVE  LifecycleOK'
<1>1. ASSUME NEW c \in Calls, Arrive(c) \/ Resume(c) \/ Finish(c) PROVE LifecycleOK'
  BY <1>1, RefuseKeeps, ShareKeeps, WaitKeeps, RunExclusiveKeeps, TakeTurnKeeps, EnterAloneKeeps,
     EnterSharedKeeps, FinishSharedKeeps, FinishExclusiveKeeps
  DEF Arrive, Resume, Finish
<1>2. ASSUME NEW s \in Servers, Quiesce(s) \/ MarkDisposed(s) PROVE LifecycleOK' BY <1>2, ClosingKeeps
<1> QED BY <1>1, <1>2 DEF LifecycleNext

\* Nor does a step elsewhere disturb it.
LEMMA LifecycleStutter ==
    ASSUME LifecycleOK, UNCHANGED lifecycleVars
    PROVE  LifecycleOK'
<1>1. UNCHANGED <<home, closes, state, active, pending, turns, waiters, jobs, at>> BY DEF lifecycleVars, callFacts
<1>2. \A s \in Servers : Running(s)' = Running(s) BY <1>1 DEF Running, On
<1> QED BY <1>1, <1>2 DEF LifecycleOK, LifecycleInv, LifecycleTypeOK, JobsExact, TurnsExact, WaitersExact,
      CountersExact, OrderKept, DisposedIsDrained, IsDrained, On

-----------------------------------------------------------------------------
(* The promise chain of the approval store                                  *)

\* An answer takes the head off the chain and moves the one who waits for it.
LEMMA AnswerIs ==
    ASSUME ApprovalTypeOK, queue # << >>, NEW ok \in BOOLEAN, Answer(ok)
    PROVE  LET o == queue[1] IN
           /\ o \in Ops /\ Head(queue) = o /\ 1 \in DOMAIN queue
           /\ queue' \in Seq(Ops) /\ owner' \in OwnerStates
           /\ step' \in [Calls -> Steps] /\ runtime' \in {"open", "closing", "swept", "closed"}
           /\ \A k \in DOMAIN queue' :
                k \in Nat /\ k >= 1 /\ k + 1 \in DOMAIN queue /\ queue'[k] = queue[k + 1]
           /\ \A c \in Calls : step'[c] = IF o.who = c THEN CallGoesOn(step[c], ok) ELSE step[c]
           /\ owner' = IF o.who = "owner" THEN OwnerGoesOn(owner, ok) ELSE owner
           /\ runtime' = IF o.who = "runtime" THEN "swept" ELSE runtime
           /\ UNCHANGED <<home, want, limits, clock, issued, live, held, took, reuses>>
<1> DEFINE o == queue[1]
<1>1. queue \in Seq(Ops) BY DEF ApprovalTypeOK
<1>2. /\ o \in Ops /\ Head(queue) = o /\ 1 \in DOMAIN queue /\ Tail(queue) \in Seq(Ops)
      /\ \A k \in DOMAIN Tail(queue) : k \in Nat /\ k >= 1 /\ k + 1 \in DOMAIN queue /\ Tail(queue)[k] = queue[k + 1]
  BY <1>1, Taken
<1>3. queue' = Tail(queue) BY DEF Answer
<1>4. \A x \in Steps : CallGoesOn(x, ok) \in Steps BY DEF CallGoesOn, Steps, Holding
<1>5. /\ step \in [Calls -> Steps]
      /\ step' = IF o.who \in Calls THEN [step EXCEPT ![o.who] = CallGoesOn(@, ok)] ELSE step
  BY <1>2 DEF Answer, ApprovalTypeOK
<1>6. /\ step' \in [Calls -> Steps]
      /\ \A c \in Calls : step'[c] = IF o.who = c THEN CallGoesOn(step[c], ok) ELSE step[c]
  <2> HIDE DEF o
  <2>1. CASE o.who \in Calls
    <3>1. step' = [step EXCEPT ![o.who] = CallGoesOn(step[o.who], ok)] BY <2>1, <1>5
    <3>2. CallGoesOn(step[o.who], ok) \in Steps BY <2>1, <1>4, <1>5
    <3> QED BY <2>1, <3>1, <3>2, <1>5
  <2>2. CASE o.who \notin Calls BY <2>2, <1>5
  <2> QED BY <2>1, <2>2
<1>7. /\ owner' = IF o.who = "owner" THEN OwnerGoesOn(owner, ok) ELSE owner
      /\ runtime' = IF o.who = "runtime" THEN "swept" ELSE runtime
      /\ UNCHANGED <<home, want, limits, clock, issued, live, held, took, reuses>>
  BY <1>2 DEF Answer, grantVars, callFacts
<1>8. owner' \in OwnerStates
  <2>1. owner \in OwnerStates BY DEF ApprovalTypeOK
  <2>2. Idle \in OwnerStates BY DEF Idle, OwnerStates
  <2>3. OwnerGoesOn(owner, ok) \in OwnerStates BY <2>1, <2>2 DEF OwnerGoesOn, OwnerStates, Deciding
  <2> QED BY <1>7, <2>1, <2>3
<1>9. runtime' \in {"open", "closing", "swept", "closed"} BY <1>7 DEF ApprovalTypeOK
<1> QED BY <1>2, <1>3, <1>6, <1>7, <1>8, <1>9

\* What each kind of operation is.
LEMMA OpIs ==
    ASSUME NEW o \in Ops
    PROVE  /\ o.kind = "request" => o.who \in Calls /\ o.ref \in Bindings /\ Risk[o.ref] \in {"R1", "R2", "R3"} /\ o.at \in Nat
           /\ o.kind \in {"reserve", "consume", "burn"} => o.who \in Calls /\ o.ref \in Grants
           /\ o.kind \in {"prepare", "approve", "deny"} => o.who = "owner" /\ o.ref \in Ids
           /\ o.kind = "expire" => o.who \in {"owner", "reader"}
           /\ o.kind = "close" <=> o.who = "runtime"
           /\ o.who \in Calls => o.kind \in {"request", "reserve", "consume", "burn"}
           /\ o.who = "owner" => o.kind \in {"prepare", "approve", "deny", "expire"}
           /\ o.kind \in {"request", "reserve", "consume", "burn", "prepare", "approve", "deny", "expire", "close"}
           /\ o.at \in Nat
BY OthersAssumption, ApprovalAssumption DEF Ops

\* The calls that still wait are the ones that waited, but for the one answered.
LEMMA AnswerAwaits ==
    ASSUME ApprovalTypeOK, AwaitsExact, queue # << >>, NEW ok \in BOOLEAN, Answer(ok)
    PROVE  AwaitsExact'
<1> DEFINE o == queue[1]
<1>1. /\ 1 \in DOMAIN queue 
      /\ \A k \in DOMAIN queue' : k \in Nat /\ k >= 1 /\ k + 1 \in DOMAIN queue /\ queue'[k] = queue[k + 1]
      /\ \A c \in Calls : step'[c] = IF o.who = c THEN CallGoesOn(step[c], ok) ELSE step[c]
      /\ took' = took /\ want' = want
  BY AnswerIs
<1>2. ASSUME NEW j \in DOMAIN queue', NEW k \in DOMAIN queue', queue'[j].who = queue'[k].who, queue'[j].who \in Calls
      PROVE  j = k
  <2>1. j + 1 = k + 1 BY <1>1, <1>2 DEF AwaitsExact
  <2> QED BY <2>1, <1>1
<1>3. ASSUME NEW k \in DOMAIN queue', NEW c \in Calls, queue'[k].who = c
      PROVE  step'[c] \in Awaiting /\ [kind |-> queue'[k].kind, ref |-> queue'[k].ref] = CallOp(c)'
  <2>1. queue'[k] = queue[k + 1] /\ k + 1 \in DOMAIN queue /\ k + 1 # 1 BY <1>1
  <2>2. o.who # c BY <2>1, <1>1, <1>3 DEF AwaitsExact
  <2>3. step'[c] = step[c] BY <2>2, <1>1, <1>3
  <2>4. step[c] \in Awaiting /\ [kind |-> queue[k + 1].kind, ref |-> queue[k + 1].ref] = CallOp(c)
    BY <2>1, <1>3 DEF AwaitsExact
  <2>5. CallOp(c)' = CallOp(c) BY <2>3, <1>1 DEF CallOp
  <2> QED BY <2>1, <2>3, <2>4, <2>5
<1>4. \A k \in DOMAIN queue' : queue'[k].who \in Calls =>
        LET c == queue'[k].who IN
        step'[c] \in Awaiting
        /\ [kind |-> queue'[k].kind, ref |-> queue'[k].ref] =
             CASE step'[c] = "asking"    -> [kind |-> "request", ref |-> want'[c]]
               [] step'[c] = "marking"   -> [kind |-> "reserve", ref |-> took'[c]]
               [] step'[c] = "consuming" -> [kind |-> "consume", ref |-> took'[c]]
               [] OTHER                  -> [kind |-> "burn", ref |-> took'[c]]
  BY <1>3 DEF CallOp
<1> QED BY <1>2, <1>4 DEF AwaitsExact, CallOp

\* The owner's operation is answered, or another one.
LEMMA AnswerOwner ==
    ASSUME ApprovalTypeOK, OwnerExact, queue # << >>, NEW ok \in BOOLEAN, Answer(ok),
           \A i \in Ids : astate[i] # "none" => astate'[i] # "none"
    PROVE  OwnerExact'
<1> DEFINE o == queue[1]
<1>1. /\ 1 \in DOMAIN queue 
      /\ \A k \in DOMAIN queue' : k \in Nat /\ k >= 1 /\ k + 1 \in DOMAIN queue /\ queue'[k] = queue[k + 1]
      /\ owner' = IF o.who = "owner" THEN OwnerGoesOn(owner, ok) ELSE owner
      /\ issued' = issued
  BY AnswerIs
<1>t. owner \in OwnerStates BY DEF ApprovalTypeOK
<1>2. \A j, k \in DOMAIN queue' : queue'[j].who = "owner" /\ queue'[k].who = "owner" => j = k
  <2> SUFFICES ASSUME NEW j \in DOMAIN queue', NEW k \in DOMAIN queue', queue'[j].who = "owner", queue'[k].who = "owner"
               PROVE  j = k
    OBVIOUS
  <2>1. j + 1 = k + 1 BY <1>1 DEF OwnerExact
  <2> QED BY <2>1, <1>1
<1>3. CASE o.who = "owner"
  <2>1. \A k \in DOMAIN queue' : queue'[k].who # "owner"
    <3> SUFFICES ASSUME NEW k \in DOMAIN queue', queue'[k].who = "owner" PROVE FALSE OBVIOUS
    <3>1. k + 1 = 1 BY <1>1, <1>3 DEF OwnerExact
    <3> QED BY <3>1, <1>1
  <2>2. owner.pc \in {"expiring", "denying", "preparing", "approving"} BY <1>1, <1>3 DEF OwnerExact
  <2>3. owner.id # 0 /\ astate[owner.id] # "none" /\ owner.id \in Ids BY <2>2, <1>t DEF OwnerExact, OwnerStates
  <2>4. /\ owner'.pc # "idle" => owner'.id = owner.id /\ owner'.grant = owner.grant
        /\ owner'.pc \in {"idle", "looking", "issuing", "withdrawing"}
        /\ owner'.pc = "withdrawing" => owner.pc = "approving"
    BY <2>2, <1>1, <1>3, <1>t DEF OwnerGoesOn, Idle, OwnerStates
  <2>5. owner'.pc \in {"approving", "withdrawing"} => owner'.grant # 0 /\ issued'[owner'.grant] = owner'.id
    BY <2>4, <1>1 DEF OwnerExact
  <2> QED BY <2>1, <2>3, <2>4, <2>5 DEF OwnerExact
<1>4. CASE o.who # "owner"
  <2>1. owner' = owner BY <1>1, <1>4
  <2>2. owner.id \in {0} \cup Ids BY <1>t DEF OwnerStates
  <2> QED BY <2>1, <2>2, <1>1, <1>2 DEF OwnerExact
<1> QED BY <1>3, <1>4

\* What was decided stays decided.
StoreGrows ==
    /\ \A g \in Grants : issued[g] # 0 => issued'[g] = issued[g]
    /\ \A i \in Ids : astate[i] # "none" => astate'[i] # "none" /\ abind'[i] = abind[i]
    /\ \A i \in Ids : astate[i] = "consumed" => astate'[i] = "consumed" /\ aholder'[i] = aholder[i]

\* One call, in TookExact and in ExecutionBacked.
TookOK(c) ==
    /\ step[c] \in Holding => took[c] # 0
    /\ step[c] \in {"admitted", "handler", "done"} /\ ~Free(c) => took[c] # 0
    /\ step[c] \in {"none", "lane", "start", "asking"} => took[c] = 0 /\ c \notin reuses
    /\ took[c] # 0 => issued[took[c]] # 0 /\ abind[issued[took[c]]] = want[c]
    /\ c \in reuses => took[c] # 0 /\ astate[issued[took[c]]] = "consumed" /\ Risk[want[c]] # "R3"
    /\ step[c] = "consumed" => astate[issued[took[c]]] = "consumed" /\ aholder[issued[took[c]]] = {c}

BackedOK(c) ==
    step[c] \in {"admitted", "handler", "done"} /\ ~Free(c) =>
        LET i == issued[took[c]] IN
        /\ i # 0 /\ abind[i] = want[c] /\ astate[i] = "consumed"
        /\ c \notin reuses => aholder[i] = {c}
        /\ Risk[want[c]] = "R3" => c \notin reuses

LEMMA TookEach == TookExact <=> \A c \in Calls : TookOK(c)
BY DEF TookExact, TookOK

LEMMA BackedEach == ExecutionBacked <=> \A c \in Calls : BackedOK(c)
BY DEF ExecutionBacked, BackedOK

\* The approval behind a grant that was taken stays what it is.
LEMMA TookStays ==
    ASSUME ApprovalTypeOK, GrantsExact, StoreGrows, NEW c \in Calls, TookOK(c), took[c] # 0
    PROVE  LET i == issued[took[c]] IN
           /\ i \in Ids /\ issued'[took[c]] = i /\ abind'[i] = abind[i] /\ abind[i] = want[c]
           /\ astate[i] = "consumed" => astate'[i] = "consumed" /\ aholder'[i] = aholder[i]
<1>1. took[c] \in Grants BY DEF ApprovalTypeOK
<1>2. issued[took[c]] # 0 /\ issued[took[c]] \in Ids BY <1>1 DEF ApprovalTypeOK, TookOK
<1> QED BY <1>1, <1>2 DEF StoreGrows, GrantsExact, TookOK

\* A call that does not move keeps what it has.
LEMMA CallStays ==
    ASSUME ApprovalTypeOK, GrantsExact, StoreGrows, NEW c \in Calls, TookOK(c), BackedOK(c),
           step'[c] = step[c], took'[c] = took[c], c \in reuses' <=> c \in reuses, want' = want
    PROVE  TookOK(c)' /\ BackedOK(c)'
<1>0. 0 \notin Ids BY DEF Ids
<1>1. CASE took[c] = 0
  <2>1. TookOK(c)' BY <1>1 DEF TookOK, Holding, Free
  <2>2. BackedOK(c)' BY <1>1 DEF BackedOK, TookOK, Free
  <2> QED BY <2>1, <2>2
<1>2. CASE took[c] # 0
  <2> DEFINE i == issued[took[c]]
  <2>1. /\ i \in Ids /\ issued'[took[c]] = i /\ abind'[i] = abind[i] /\ abind[i] = want[c]
        /\ astate[i] = "consumed" => astate'[i] = "consumed" /\ aholder'[i] = aholder[i]
    BY <1>2, TookStays
  <2>2. TookOK(c)' BY <1>2, <2>1, <1>0 DEF TookOK, Free
  <2>3. BackedOK(c)' BY <2>1, <1>0 DEF BackedOK, Free
  <2> QED BY <2>2, <2>3
<1> QED BY <1>1, <1>2

\* The call that is answered, and those that are not.
LEMMA AnswerCalls ==
    ASSUME ApprovalTypeOK, AwaitsExact, GrantsExact, TookExact, ExecutionBacked,
           queue # << >>, NEW ok \in BOOLEAN, Answer(ok), StoreGrows,
           queue[1].kind = "consume" /\ ok =>
             \E i \in Ids : issued[queue[1].ref] = i /\ astate'[i] = "consumed" /\ aholder'[i] = {queue[1].who}
    PROVE  TookExact' /\ ExecutionBacked'
<1> DEFINE o == queue[1]
<1>1. /\ o \in Ops /\ 1 \in DOMAIN queue
      /\ \A c \in Calls : step'[c] = IF o.who = c THEN CallGoesOn(step[c], ok) ELSE step[c]
      /\ took' = took /\ want' = want /\ reuses' = reuses /\ issued' = issued
  BY AnswerIs
<1>2. \A c \in Calls : TookOK(c) /\ BackedOK(c) BY TookEach, BackedEach
<1>3. ASSUME NEW c \in Calls, o.who # c PROVE TookOK(c)' /\ BackedOK(c)'
  <2>1. step'[c] = step[c] BY <1>1, <1>3
  <2> QED BY <2>1, <1>1, <1>2, CallStays
<1>4. ASSUME NEW c \in Calls, o.who = c PROVE TookOK(c)' /\ BackedOK(c)'
  <2>1. step[c] \in Awaiting /\ [kind |-> o.kind, ref |-> o.ref] = CallOp(c) BY <1>1, <1>4 DEF AwaitsExact
  <2>2. step'[c] = CallGoesOn(step[c], ok) BY <1>1, <1>4
  <2>3. step'[c] \in {"reserved", "unmarked", "consumed", "unconsumed", "authorized", "refused"}
        /\ (step'[c] = "consumed" => step[c] = "consuming" /\ ok)
        /\ (step'[c] # "refused" => step[c] \in Holding)
    BY <2>1, <2>2 DEF CallGoesOn, Awaiting, Holding
  <2>4. BackedOK(c)' BY <2>3 DEF BackedOK
  <2>5. CASE took[c] = 0
    <3>1. step'[c] = "refused" /\ c \notin reuses BY <2>3, <2>5, <1>2 DEF TookOK
    <3> QED BY <3>1, <2>4, <2>5, <1>1 DEF TookOK, Holding
  <2>6. CASE took[c] # 0
    <3> DEFINE i == issued[took[c]]
    <3>1. /\ i \in Ids /\ issued'[took[c]] = i /\ abind'[i] = abind[i] /\ abind[i] = want[c]
          /\ astate[i] = "consumed" => astate'[i] = "consumed" /\ aholder'[i] = aholder[i]
      BY <2>6, <1>2, TookStays
    <3>2. i # 0 BY <3>1 DEF Ids
    <3>3. step'[c] = "consumed" => astate'[i] = "consumed" /\ aholder'[i] = {c}
      <4> SUFFICES ASSUME step'[c] = "consumed" PROVE astate'[i] = "consumed" /\ aholder'[i] = {c} OBVIOUS
      <4>1. step[c] = "consuming" /\ ok BY <2>3
      <4>2. o.kind = "consume" /\ o.ref = took[c] BY <4>1, <2>1 DEF CallOp
      <4> QED BY <4>1, <4>2, <1>4
    <3>4. TookOK(c)' BY <2>3, <2>6, <3>1, <3>2, <3>3, <1>1, <1>2 DEF TookOK
    <3> QED BY <3>4, <2>4
  <2> QED BY <2>5, <2>6
<1>5. \A c \in Calls : TookOK(c)' /\ BackedOK(c)' BY <1>3, <1>4
<1> QED BY <1>5 DEF TookExact, ExecutionBacked, TookOK, BackedOK

\* The order on the chain.
LEMMA AnswerChain ==
    ASSUME ApprovalTypeOK, ChainExact, queue # << >>, NEW ok \in BOOLEAN, Answer(ok)
    PROVE  ChainExact'
<1> DEFINE o == queue[1]
<1>1. /\ o \in Ops /\ 1 \in DOMAIN queue 
      /\ \A k \in DOMAIN queue' : k \in Nat /\ k >= 1 /\ k + 1 \in DOMAIN queue /\ queue'[k] = queue[k + 1]
      /\ runtime' = IF o.who = "runtime" THEN "swept" ELSE runtime
  BY AnswerIs
<1>2. ASSUME NEW j \in DOMAIN queue', NEW k \in DOMAIN queue', queue'[j].kind = "close"
      PROVE  (queue'[k].kind = "request" => k < j) /\ (queue'[k].kind = "close" => k = j)
  <2>1. (queue'[k].kind = "request" => k + 1 < j + 1) /\ (queue'[k].kind = "close" => k + 1 = j + 1)
    BY <1>1, <1>2 DEF ChainExact
  <2> QED BY <2>1, <1>1
<1>3. CASE o.kind = "close"
  <2>1. o.who = "runtime" BY <1>1, <1>3, OpIs
  <2>2. \A k \in DOMAIN queue' : queue'[k].kind # "request" /\ queue'[k].kind # "close"
    <3> SUFFICES ASSUME NEW k \in DOMAIN queue' PROVE queue'[k].kind # "request" /\ queue'[k].kind # "close" OBVIOUS
    <3>1. k + 1 \in DOMAIN queue /\ ~(k + 1 < 1) /\ k + 1 # 1 /\ queue'[k] = queue[k + 1] BY <1>1
    <3> QED BY <3>1, <1>1, <1>3 DEF ChainExact
  <2> QED BY <2>2 DEF ChainExact
<1>4. CASE o.kind # "close"
  <2>1. runtime' = runtime BY <1>1, <1>4, OpIs
  <2>2. \A k \in DOMAIN queue' : queue'[k].kind = "close" => runtime = "closing" BY <1>1 DEF ChainExact
  <2>3. runtime \in {"swept", "closed"} => \A k \in DOMAIN queue' : queue'[k].kind # "request" BY <1>1 DEF ChainExact
  <2> QED BY <1>2, <2>1, <2>2, <2>3 DEF ChainExact
<1> QED BY <1>3, <1>4

\* Sets of approvals, of grants and of calls can be counted.
LEMMA Finite ==
    /\ Cardinality(Calls) \in Nat
    /\ \A T \in SUBSET Calls : Cardinality(T) \in Nat /\ Cardinality(T) <= Cardinality(Calls) /\ IsFiniteSet(T)
    /\ \A T \in SUBSET Ids : Cardinality(T) \in Nat /\ IsFiniteSet(T)
    /\ Cardinality(Ids) = Cardinality(Calls) /\ Ids \subseteq Nat /\ 0 \notin Ids
    /\ \A T \in SUBSET Grants : Cardinality(T) \in Nat /\ IsFiniteSet(T)
    /\ Cardinality(Grants) = Cardinality(Calls) + MaxFaults /\ Grants \subseteq Nat /\ 0 \notin Grants
<1>1. Cardinality(Calls) \in Nat BY CallAssumption, FS_CardinalityType
<1>2. \A T \in SUBSET Calls : IsFiniteSet(T) /\ Cardinality(T) \in Nat /\ Cardinality(T) <= Cardinality(Calls)
  BY CallAssumption, FS_Subset, FS_CardinalityType
<1>3. MaxFaults \in Nat BY ApprovalAssumption
<1>4. IsFiniteSet(Ids) /\ Cardinality(Ids) = Cardinality(Calls) BY <1>1, FS_Interval DEF Ids
<1>n. \A n \in Nat : IsFiniteSet(1..n) /\ Cardinality(1..n) = n BY FS_Interval
<1>5. IsFiniteSet(Grants) /\ Cardinality(Grants) = Cardinality(Calls) + MaxFaults
  <2>1. Cardinality(Calls) + MaxFaults \in Nat BY <1>1, <1>3
  <2> QED BY <2>1, <1>n DEF Grants
<1>6. \A T \in SUBSET Ids : IsFiniteSet(T) /\ Cardinality(T) \in Nat BY <1>4, FS_Subset, FS_CardinalityType
<1>7. \A T \in SUBSET Grants : IsFiniteSet(T) /\ Cardinality(T) \in Nat BY <1>5, FS_Subset, FS_CardinalityType
<1>8. Ids \subseteq Nat /\ 0 \notin Ids BY <1>1 DEF Ids
<1>9. Grants \subseteq Nat /\ 0 \notin Grants BY <1>1, <1>3 DEF Grants
<1> QED BY <1>1, <1>2, <1>4, <1>5, <1>6, <1>7, <1>8, <1>9

\* Who asked has asked, and what is settled stays so: there are numbers left.
LEMMA NumbersKept ==
    ASSUME NumbersLeft, faults \in Nat, faults' \in Nat, faults' >= faults, issued' = issued,
           \A i \in Ids : astate'[i] = "none" <=> astate[i] = "none",
           \A c \in Calls : step'[c] \in {"none", "lane", "start", "asking"} => step[c] \in {"none", "lane", "start", "asking"},
           Settled \subseteq Settled' \/ (faults' = faults + 1 /\ \E x \in Ids : Settled \ {x} \subseteq Settled')
    PROVE  NumbersLeft'
<1>1. Requested' = Requested BY DEF Requested
<1>2. Asked \subseteq Asked' /\ Asked \in SUBSET Calls /\ Asked' \in SUBSET Calls BY DEF Asked
<1>3. Cardinality(Asked) <= Cardinality(Asked') /\ Cardinality(Asked) \in Nat /\ Cardinality(Asked') \in Nat
  BY <1>2, Finite, FS_Subset
<1>4. Requested \in SUBSET Ids BY DEF Requested
<1>5. Cardinality(Requested) \in Nat BY <1>4, Finite
<1>6. Settled \in SUBSET Ids /\ Settled' \in SUBSET Ids BY DEF Settled
<1>7. Cardinality(Settled) + faults <= Cardinality(Settled') + faults'
      /\ Cardinality(Settled) \in Nat /\ Cardinality(Settled') \in Nat
  <2>1. Cardinality(Settled) \in Nat /\ Cardinality(Settled') \in Nat /\ IsFiniteSet(Settled) /\ IsFiniteSet(Settled')
    BY <1>6, Finite
  <2>2. CASE Settled \subseteq Settled' 
    <3>1. Cardinality(Settled) <= Cardinality(Settled') BY <2>1, <2>2, FS_Subset
    <3> QED BY <2>1, <3>1
  <2>3. CASE faults' = faults + 1 /\ \E x \in Ids : Settled \ {x} \subseteq Settled'
    <3>1. PICK x \in Ids : Settled \ {x} \subseteq Settled' BY <2>3
    <3>2. Cardinality(Settled \ {x}) >= Cardinality(Settled) - 1 /\ Cardinality(Settled \ {x}) \in Nat
      <4>1. Settled \ {x} \in SUBSET Ids BY <1>6
      <4>2. Cardinality(Settled \ {x}) \in Nat BY <4>1, Finite
      <4>3. Cardinality(Settled \ {x}) = IF x \in Settled THEN Cardinality(Settled) - 1 ELSE Cardinality(Settled)
        BY <2>1, FS_RemoveElement
      <4> QED BY <4>2, <4>3, <2>1
    <3>3. Cardinality(Settled \ {x}) <= Cardinality(Settled') BY <2>1, <3>1, FS_Subset
    <3> QED BY <2>1, <2>3, <3>2, <3>3
  <2> QED BY <2>2, <2>3
<1>8. {g \in Grants : issued[g] # 0} \in SUBSET Grants OBVIOUS
<1>9. Cardinality({g \in Grants : issued[g] # 0}) \in Nat BY <1>8, Finite
<1>10. Cardinality(Requested') <= Cardinality(Asked') BY <1>1, <1>3, <1>5 DEF NumbersLeft
<1>11. Cardinality({g \in Grants : issued'[g] # 0}) <= Cardinality(Settled') + faults' 
  <2>1. {g \in Grants : issued'[g] # 0} = {g \in Grants : issued[g] # 0} OBVIOUS
  <2>2. Cardinality({g \in Grants : issued[g] # 0}) <= Cardinality(Settled) + faults BY DEF NumbersLeft
  <2> QED BY <2>1, <2>2, <1>7, <1>9
<1> QED BY <1>10, <1>11 DEF NumbersLeft

\* The owner's attempt is over when its approval has a grant or has ended.
LEMMA AnswerSettled ==
    ASSUME ApprovalTypeOK, OwnerExact, queue # << >>, NEW ok \in BOOLEAN, Answer(ok),
           \A i \in Ids : agrant[i] # 0 => agrant'[i] # 0,
           \A i \in Ids : astate[i] \in Terminal => astate'[i] \in Terminal
    PROVE  /\ Settled \ {owner.id} \subseteq Settled'
           /\ (queue[1].kind = "approve" => agrant'[queue[1].ref] # 0 \/ astate'[queue[1].ref] \in Terminal)
              => Settled \subseteq Settled'
<1> DEFINE o == queue[1]
<1>1. /\ o \in Ops /\ 1 \in DOMAIN queue 
      /\ owner' = IF o.who = "owner" THEN OwnerGoesOn(owner, ok) ELSE owner
      /\ owner \in OwnerStates
  BY AnswerIs DEF ApprovalTypeOK
<1>2. CASE o.who # "owner" BY <1>1, <1>2 DEF Settled
<1>3. CASE o.who = "owner"
  <2>1. /\ owner.pc = CASE o.kind = "expire"  -> "expiring"
                        [] o.kind = "deny"    -> "denying"
                        [] o.kind = "prepare" -> "preparing"
                        [] OTHER              -> "approving"
        /\ o.kind # "expire" => o.ref = owner.id
        /\ o.kind \in {"prepare", "approve", "deny", "expire"}
    BY <1>1, <1>3, OpIs DEF OwnerExact
  <2>2. /\ owner'.pc \in {"idle", "looking", "issuing", "withdrawing"}
        /\ owner'.pc = "issuing" => owner.pc = "preparing" /\ owner'.id = owner.id
    BY <2>1, <1>1, <1>3 DEF OwnerGoesOn, Idle, OwnerStates
  <2>3. ASSUME NEW i \in Settled, i # owner.id PROVE i \in Settled'
    <3>1. i \in Ids /\ (agrant[i] # 0 \/ astate[i] \in Terminal) BY <2>3 DEF Settled
    <3> QED BY <3>1, <2>2, <2>3 DEF Settled
  <2>4. ASSUME owner.id \in Settled,
               o.kind = "approve" => agrant'[o.ref] # 0 \/ astate'[o.ref] \in Terminal
        PROVE  owner.id \in Settled'
    <3>1. owner.id \in Ids /\ owner.pc # "preparing" BY <2>4 DEF Settled
    <3>2. CASE o.kind = "approve" BY <3>1, <3>2, <2>1, <2>2, <2>4 DEF Settled
    <3>3. CASE o.kind # "approve"
      <4>1. owner.pc \in {"expiring", "denying"} BY <3>1, <3>3, <2>1
      <4>2. agrant[owner.id] # 0 \/ astate[owner.id] \in Terminal BY <4>1, <2>4 DEF Settled
      <4> QED BY <4>2, <3>1, <2>2 DEF Settled
    <3> QED BY <3>2, <3>3
  <2> QED BY <2>3, <2>4
<1> QED BY <1>2, <1>3

StoreTypeOK ==
    /\ astate \in [Ids -> {"none"} \cup Active \cup Terminal]
    /\ abind \in [Ids -> Bindings] /\ aexp \in [Ids -> Nat]
    /\ agrant \in [Ids -> {0} \cup Grants] /\ aholder \in [Ids -> SUBSET Calls]
    /\ dedupe \in [Bindings -> {0} \cup Ids] /\ recent \in [Sessions -> Nat]

ApprovalOK == ApprovalTypeOK /\ ApprovalInv

\* What is left to show of a step that answers: what it does to the stores.
LEMMA AnswerKeeps ==
    ASSUME ApprovalOK, queue # << >>, NEW ok \in BOOLEAN, Answer(ok),
           StoreTypeOK', faults' \in 0..limits.faults, StoreGrows,
           queue[1].kind = "consume" /\ ok =>
             \E i \in Ids : issued[queue[1].ref] = i /\ astate'[i] = "consumed" /\ aholder'[i] = {queue[1].who},
           GrantsExact', DedupeExact', ReservationsKept', NumbersLeft'
    PROVE  ApprovalOK'
<1> USE DEF ApprovalOK, ApprovalInv
<1>1. /\ queue' \in Seq(Ops) /\ owner' \in OwnerStates
      /\ step' \in [Calls -> Steps] /\ runtime' \in {"open", "closing", "swept", "closed"}
      /\ UNCHANGED <<home, want, limits, clock, issued, live, held, took, reuses>>
  BY AnswerIs
<1>2. ApprovalTypeOK' BY <1>1 DEF ApprovalTypeOK, StoreTypeOK
<1>3. AwaitsExact' BY AnswerAwaits
<1>4. OwnerExact' BY AnswerOwner DEF StoreGrows
<1>5. TookExact' /\ ExecutionBacked' BY AnswerCalls
<1>6. ChainExact' BY AnswerChain
<1> QED BY <1>2, <1>3, <1>4, <1>5, <1>6

\* The operation whose store does not change.
LEMMA SameStore ==
    ASSUME ApprovalOK, UNCHANGED storeVars, issued' = issued, live' = live
    PROVE  /\ StoreTypeOK' /\ StoreGrows /\ GrantsExact' /\ DedupeExact'
           /\ UNCHANGED <<astate, abind, aexp, agrant, aholder, dedupe, recent>>
BY DEF ApprovalOK, ApprovalInv, ApprovalTypeOK, StoreTypeOK, StoreGrows, GrantsExact, DedupeExact, storeVars, IsActive

\* No call asks twice.
LEMMA AnswerAsked ==
    ASSUME ApprovalTypeOK, AwaitsExact, queue # << >>, NEW ok \in BOOLEAN, Answer(ok)
    PROVE  \A c \in Calls : /\ step'[c] \in {"none", "lane", "start", "asking"} => step[c] \in {"none", "lane", "start", "asking"}
                            /\ queue[1].who = c => step'[c] \notin {"none", "lane", "start", "asking"}
<1>1. /\ 1 \in DOMAIN queue 
      /\ \A c \in Calls : step'[c] = IF queue[1].who = c THEN CallGoesOn(step[c], ok) ELSE step[c]
  BY AnswerIs
<1>2. \A c \in Calls : queue[1].who = c => step[c] \in Awaiting BY <1>1 DEF AwaitsExact
<1> QED BY <1>1, <1>2 DEF CallGoesOn, Awaiting

\* An answer without a step of its own: what was done before, or cannot be done.
LEMMA ReplyKeeps ==
    ASSUME ApprovalOK, queue # << >>, NEW ok \in BOOLEAN, Reply(ok),
           queue[1].kind = "consume" /\ ok =>
             \E i \in Ids : issued[queue[1].ref] = i /\ astate[i] = "consumed" /\ aholder[i] = {queue[1].who},
           queue[1].kind = "approve" => agrant[queue[1].ref] # 0 \/ astate[queue[1].ref] \in Terminal,
           queue[1].kind = "close" => \A i \in Ids : ~IsActive(i),
           queue[1].kind \in {"consume", "burn"} =>
             \A i \in Ids : ~ (astate[i] = "reserved" /\ aholder[i] = {queue[1].who} /\ agrant[i] = queue[1].ref)
    PROVE  ApprovalOK'
<1> USE DEF ApprovalOK, ApprovalInv
<1> DEFINE o == queue[1]
<1>1. Answer(ok) /\ UNCHANGED <<faults, storeVars>> BY DEF Reply
<1>2. /\ o \in Ops /\ 1 \in DOMAIN queue
      /\ \A c \in Calls : step'[c] = IF o.who = c THEN CallGoesOn(step[c], ok) ELSE step[c]
      /\ runtime' = IF o.who = "runtime" THEN "swept" ELSE runtime
      /\ UNCHANGED <<issued, live, took>>
  BY <1>1, AnswerIs
<1>3. /\ StoreTypeOK' /\ StoreGrows /\ GrantsExact' /\ DedupeExact'
      /\ UNCHANGED <<astate, abind, aexp, agrant, aholder, dedupe, recent>>
  BY <1>1, <1>2, SameStore
<1>4. faults \in 0..limits.faults /\ limits.faults \in Nat BY DEF ApprovalTypeOK
<1>5. ReservationsKept'
  <2> SUFFICES ASSUME faults = 0
               PROVE  /\ runtime' = "open" => \A i \in Ids : astate[i] = "reserved" => Used(i)'
                      /\ runtime' \in {"swept", "closed"} => \A i \in Ids : ~IsActive(i)
    BY <1>1, <1>3 DEF ReservationsKept, IsActive
  <2>1. ASSUME runtime' = "open", NEW i \in Ids, astate[i] = "reserved" PROVE Used(i)'
    <3>1. runtime = "open" BY <2>1, <1>2
    <3>2. PICK c \in Calls : aholder[i] = {c} /\ took[c] = agrant[i] 
                             /\ step[c] \in {"reserved", "consuming", "burning", "burningOn"}
      BY <3>1, <2>1 DEF ReservationsKept, Used
    <3>3. o.who # c
      <4> SUFFICES ASSUME o.who = c PROVE FALSE OBVIOUS
      <4>1. step[c] \in Awaiting /\ [kind |-> o.kind, ref |-> o.ref] = CallOp(c) BY <1>2 DEF AwaitsExact
      <4>2. o.kind \in {"consume", "burn"} /\ o.ref = took[c] BY <4>1, <3>2 DEF CallOp, Awaiting
      <4> QED BY <4>2, <3>2, <2>1
    <3>4. step'[c] = step[c] BY <3>3, <1>2
    <3> QED BY <3>2, <3>4, <1>2, <1>3 DEF Used
  <2>2. ASSUME runtime' \in {"swept", "closed"} PROVE \A i \in Ids : ~IsActive(i)
    <3>1. CASE o.who = "runtime" BY <3>1, <1>2, OpIs
    <3>2. CASE o.who # "runtime" BY <3>2, <2>2, <1>2 DEF ReservationsKept
    <3> QED BY <3>1, <3>2
  <2> QED BY <2>1, <2>2
<1>6. Settled \subseteq Settled' BY <1>1, <1>3, AnswerSettled
<1>7. NumbersLeft'
  <2>1. faults \in Nat /\ faults' = faults BY <1>1, <1>4
  <2>2. \A c \in Calls : step'[c] \in {"none", "lane", "start", "asking"} => step[c] \in {"none", "lane", "start", "asking"}
    BY <1>1, AnswerAsked
  <2>3. \A i \in Ids : astate'[i] = "none" <=> astate[i] = "none" BY <1>3
  <2> QED BY <2>1, <2>2, <2>3, <1>2, <1>6, NumbersKept
<1> QED BY <1>1, <1>3, <1>4, <1>5, <1>7, AnswerKeeps

\* A write of the log fails: nothing has changed, and the one who waits is told.
LEMMA WriteFailsKeeps ==
    ASSUME ApprovalOK, queue # << >>, WriteFails
    PROVE  ApprovalOK'
<1> USE DEF ApprovalOK, ApprovalInv
<1>1. Answer(FALSE) /\ UNCHANGED storeVars /\ faults < limits.faults /\ faults' = faults + 1 BY DEF WriteFails
<1>2. UNCHANGED <<issued, live>> BY <1>1, AnswerIs
<1>3. /\ StoreTypeOK' /\ StoreGrows /\ GrantsExact' /\ DedupeExact'
      /\ UNCHANGED <<astate, abind, aexp, agrant, aholder, dedupe, recent>>
  BY <1>1, <1>2, SameStore
<1>4. faults \in Nat /\ faults' \in Nat /\ faults' >= faults /\ faults' \in 0..limits.faults /\ faults' # 0
  BY <1>1 DEF ApprovalTypeOK
<1>5. ReservationsKept' BY <1>4 DEF ReservationsKept
<1>6. Settled \ {owner.id} \subseteq Settled' BY <1>1, <1>3, AnswerSettled
<1>7. Settled \subseteq Settled' \/ (faults' = faults + 1 /\ \E x \in Ids : Settled \ {x} \subseteq Settled')
  <2>1. CASE owner.id \in Ids BY <2>1, <1>1, <1>6
  <2>2. CASE owner.id \notin Ids
    <3>1. Settled \subseteq Ids BY DEF Settled
    <3> QED BY <3>1, <2>2, <1>6
  <2> QED BY <2>1, <2>2
<1>8. NumbersLeft'
  <2>2. \A c \in Calls : step'[c] \in {"none", "lane", "start", "asking"} => step[c] \in {"none", "lane", "start", "asking"}
    BY <1>1, AnswerAsked
  <2>3. \A i \in Ids : astate'[i] = "none" <=> astate[i] = "none" BY <1>3
  <2> QED BY <2>2, <2>3, <1>2, <1>4, <1>7, NumbersKept
<1> QED BY <1>1, <1>3, <1>4, <1>5, <1>8, AnswerKeeps

\* A transition changes one open approval, and the index with it.
LEMMA TransitionIs ==
    ASSUME ApprovalOK, NEW i \in Ids, IsActive(i), NEW target \in Active \cup Terminal, Transition(i, target)
    PROVE  /\ astate' \in [Ids -> {"none"} \cup Active \cup Terminal]
           /\ dedupe' \in [Bindings -> {0} \cup Ids]
           /\ \A j \in Ids : astate'[j] = IF j = i THEN target ELSE astate[j]
           /\ \A j \in Ids : astate'[j] = "none" <=> astate[j] = "none"
           /\ \A j \in Ids : astate[j] \in Terminal => astate'[j] \in Terminal /\ astate'[j] = astate[j] /\ j # i
           /\ DedupeExact'
           /\ UNCHANGED <<abind, aexp, recent, faults>>
<1> USE DEF ApprovalOK, ApprovalInv
<1>1. /\ astate' = [astate EXCEPT ![i] = target]
      /\ dedupe' = IF target \in Terminal THEN [dedupe EXCEPT ![abind[i]] = 0] ELSE dedupe
      /\ UNCHANGED <<abind, aexp, recent, faults>>
  BY DEF Transition
<1>t. /\ astate \in [Ids -> {"none"} \cup Active \cup Terminal]
      /\ dedupe \in [Bindings -> {0} \cup Ids] /\ abind \in [Ids -> Bindings]
  BY DEF ApprovalTypeOK
<1>2. \A j \in Ids : astate'[j] = IF j = i THEN target ELSE astate[j] BY <1>1, <1>t
<1>3. astate[i] \in Active /\ Active \cap Terminal = {} /\ "none" \notin Active \cup Terminal
  BY DEF IsActive, Active, Terminal
<1>4. astate' \in [Ids -> {"none"} \cup Active \cup Terminal] /\ dedupe' \in [Bindings -> {0} \cup Ids]
  BY <1>1, <1>t
<1>5. \A j \in Ids : astate'[j] = "none" <=> astate[j] = "none" BY <1>2, <1>3
<1>6. \A j \in Ids : astate[j] \in Terminal => astate'[j] \in Terminal /\ astate'[j] = astate[j] /\ j # i BY <1>2, <1>3
<1>7. DedupeExact'
  <2> DEFINE open(b) == {j \in Ids : astate[j] \in Active /\ abind[j] = b}
  <2> DEFINE open2(b) == {j \in Ids : astate'[j] \in Active /\ abind[j] = b}
  <2>1. \A b \in Bindings : open(b) = IF dedupe[b] = 0 THEN {} ELSE {dedupe[b]} BY DEF DedupeExact, IsActive
  <2>2. ASSUME NEW b \in Bindings PROVE open2(b) = IF dedupe'[b] = 0 THEN {} ELSE {dedupe'[b]}
    <3>1. CASE target \in Active
      <4>1. dedupe' = dedupe /\ open2(b) = open(b) BY <3>1, <1>1, <1>2, <1>3
      <4> QED BY <4>1, <2>1
    <3>2. CASE target \in Terminal /\ b # abind[i]
      <4>1. dedupe'[b] = dedupe[b] BY <3>2, <1>1, <1>t
      <4>2. open2(b) = open(b) BY <3>2, <1>2, <1>3
      <4> QED BY <4>1, <4>2, <2>1
    <3>3. CASE target \in Terminal /\ b = abind[i]
      <4>1. dedupe'[b] = 0 BY <3>3, <1>1, <1>t
      <4>2. i \in open(b) BY <3>3, <1>3
      <4>3. open(b) \subseteq {i} BY <4>2, <2>1
      <4>4. open2(b) = {} BY <3>3, <4>3, <1>2, <1>3
      <4> QED BY <4>1, <4>4
    <3> QED BY <3>1, <3>2, <3>3
  <2>3. \A b \in Bindings : {j \in Ids : IsActive(j)' /\ abind'[j] = b} = open2(b) BY <1>1 DEF IsActive
  <2> QED BY <2>2, <2>3 DEF DedupeExact
<1> QED BY <1>1, <1>2, <1>4, <1>5, <1>6, <1>7

\* What a step that changes nothing but the state of one approval, and its
\* answer, does to the stores.
LEMMA TransitionGrows ==
    ASSUME ApprovalOK, NEW i \in Ids, IsActive(i), NEW target \in Active \cup Terminal, Transition(i, target),
           issued' = issued, \A j \in Ids \ {i} : aholder'[j] = aholder[j]
    PROVE  StoreGrows
<1>1. /\ \A j \in Ids : astate'[j] = "none" <=> astate[j] = "none"
      /\ \A j \in Ids : astate[j] \in Terminal => astate'[j] = astate[j] /\ j # i
      /\ abind' = abind
  BY TransitionIs
<1>2. "consumed" \in Terminal BY DEF Terminal
<1> QED BY <1>1, <1>2 DEF StoreGrows

\* prepare, approve, deny: the transition.
LEMMA DecidesStep ==
    ASSUME ApprovalOK, queue # << >>, NEW i \in Ids, NEW target \in {"prepared", "granted", "denied"},
           astate[i] \in Open, queue[1].kind \in {"prepare", "approve", "deny"}, queue[1].ref = i,
           queue[1].kind = "approve" <=> target = "granted",
           Transition(i, target), Answer(TRUE), aholder' = aholder,
           agrant' = IF queue[1].kind = "approve" THEN [agrant EXCEPT ![i] = owner.grant] ELSE agrant
    PROVE  ApprovalOK'
<1> USE DEF ApprovalOK, ApprovalInv
<1> DEFINE o == queue[1]
<1>1. /\ o \in Ops /\ 1 \in DOMAIN queue
      /\ \A c \in Calls : step'[c] = IF o.who = c THEN CallGoesOn(step[c], TRUE) ELSE step[c]
      /\ runtime' = IF o.who = "runtime" THEN "swept" ELSE runtime
      /\ UNCHANGED <<issued, live, took, limits>>
  BY AnswerIs
<1>2. o.who = "owner" BY <1>1, OpIs
<1>3. o.who \notin Calls /\ o.who # "runtime" BY <1>2, OthersAssumption
<1>4. IsActive(i) /\ target \in Active \cup Terminal BY DEF IsActive, Active, Open, Terminal
<1>5. /\ astate' \in [Ids -> {"none"} \cup Active \cup Terminal]
      /\ dedupe' \in [Bindings -> {0} \cup Ids]
      /\ \A j \in Ids : astate'[j] = IF j = i THEN target ELSE astate[j]
      /\ \A j \in Ids : astate'[j] = "none" <=> astate[j] = "none"
      /\ \A j \in Ids : astate[j] \in Terminal => astate'[j] \in Terminal
      /\ DedupeExact'
      /\ UNCHANGED <<abind, aexp, recent, faults>>
  BY <1>4, TransitionIs
<1>6. o.kind = "approve" => owner.grant \in Grants /\ owner.grant # 0 /\ issued[owner.grant] = i
  <2> SUFFICES ASSUME o.kind = "approve" PROVE owner.grant \in Grants /\ owner.grant # 0 /\ issued[owner.grant] = i
    OBVIOUS
  <2>1. owner.pc = "approving" /\ owner.id = i BY <1>1, <1>2 DEF OwnerExact
  <2>2. owner \in OwnerStates BY DEF ApprovalTypeOK
  <2> QED BY <2>1, <2>2 DEF OwnerExact, OwnerStates
<1>7. /\ agrant' \in [Ids -> {0} \cup Grants]
      /\ \A j \in Ids : agrant'[j] = IF o.kind = "approve" /\ j = i THEN owner.grant ELSE agrant[j]
  <2>1. agrant \in [Ids -> {0} \cup Grants] BY DEF ApprovalTypeOK
  <2>2. CASE o.kind = "approve"
    <3>1. agrant' = [agrant EXCEPT ![i] = owner.grant] BY <2>2
    <3> QED BY <2>1, <2>2, <3>1, <1>6
  <2>3. CASE o.kind # "approve"
    <3>1. agrant' = agrant BY <2>3
    <3> QED BY <2>1, <2>3, <3>1
  <2> QED BY <2>2, <2>3
<1>8. StoreTypeOK' BY <1>5, <1>7 DEF StoreTypeOK, ApprovalTypeOK
<1>9. StoreGrows BY <1>1, <1>4, TransitionGrows
<1>10. GrantsExact'
  <2>1. \A j \in Ids : agrant'[j] # 0 => issued'[agrant'[j]] = j BY <1>1, <1>6, <1>7 DEF GrantsExact
  <2>2. \A j \in Ids : astate'[j] \in {"granted", "reserved", "consumed", "burned"} => agrant'[j] # 0
    BY <1>5, <1>6, <1>7 DEF GrantsExact
  <2>3. \A g \in Grants : issued'[g] # 0 => astate'[issued'[g]] # "none"
    <3>1. \A g \in Grants : issued[g] # 0 => issued[g] \in Ids BY DEF ApprovalTypeOK
    <3> QED BY <3>1, <1>1, <1>5 DEF GrantsExact
  <2>4. \A g \in live' : issued'[g] # 0 BY <1>1 DEF GrantsExact
  <2> QED BY <2>1, <2>2, <2>3, <2>4 DEF GrantsExact
<1>11. ReservationsKept'
  <2>1. runtime' = runtime /\ faults' = faults /\ \A c \in Calls : step'[c] = step[c] BY <1>1, <1>3, <1>5
  <2>2. ASSUME faults = 0, runtime = "open", NEW j \in Ids, astate'[j] = "reserved" PROVE Used(j)'
    <3>1. j # i /\ astate[j] = "reserved" BY <2>2, <1>5
    <3>2. Used(j) BY <2>2, <3>1 DEF ReservationsKept
    <3>3. agrant'[j] = agrant[j] /\ aholder'[j] = aholder[j] BY <3>1, <1>7
    <3> QED BY <3>2, <3>3, <2>1, <1>1 DEF Used
  <2>3. faults = 0 => runtime \notin {"swept", "closed"} BY <1>4 DEF ReservationsKept
  <2> QED BY <2>1, <2>2, <2>3 DEF ReservationsKept
<1>12. Settled \subseteq Settled'
  <2>1. o.kind = "approve" => agrant'[o.ref] # 0 BY <1>6, <1>7
  <2>2. \A j \in Ids : agrant[j] # 0 => agrant'[j] # 0 BY <1>6, <1>7
  <2> QED BY <2>1, <2>2, <1>5, AnswerSettled
<1>13. faults \in 0..limits.faults /\ faults \in Nat /\ faults' = faults BY <1>5 DEF ApprovalTypeOK
<1>14. NumbersLeft'
  <2>1. \A c \in Calls : step'[c] \in {"none", "lane", "start", "asking"} => step[c] \in {"none", "lane", "start", "asking"}
    BY AnswerAsked
  <2> QED BY <2>1, <1>1, <1>5, <1>12, <1>13, NumbersKept
<1>15. o.kind # "consume" OBVIOUS
<1>16. faults' \in 0..limits.faults BY <1>13
<1>17. DedupeExact' BY <1>5
<1>18. ApprovalOK /\ queue # << >> /\ Answer(TRUE) /\ TRUE \in BOOLEAN OBVIOUS
<1> HIDE DEF ApprovalOK, ApprovalInv, o
<1> QED BY <1>8, <1>9, <1>10, <1>11, <1>14, <1>15, <1>16, <1>17, <1>18, AnswerKeeps DEF o

\* prepare, approve and deny, with their early answers.
LEMMA DecidesKeeps ==
    ASSUME ApprovalOK, Prepare \/ Approve \/ Deny
    PROVE  ApprovalOK'
<1> USE DEF ApprovalOK, ApprovalInv
<1> DEFINE o == queue[1]
<1> DEFINE i == o.ref
<1>1. queue \in Seq(Ops) BY DEF ApprovalTypeOK
<1>2. ASSUME NEW kind \in {"prepare", "approve", "deny"}, AtTurn(kind)
      PROVE  /\ queue # << >> /\ o.kind = kind /\ Head(queue) = o /\ i \in Ids /\ o \in Ops
             /\ astate[i] # "none"
  <2>1. queue # << >> /\ o.kind = kind /\ Head(queue) = o /\ o \in Ops /\ 1 \in DOMAIN queue
    BY <1>2, <1>1, Taken DEF AtTurn
  <2>2. o.who = "owner" /\ i \in Ids BY <2>1, OpIs
  <2>3. i = owner.id /\ owner.pc # "idle" BY <2>1, <2>2 DEF OwnerExact
  <2> QED BY <2>1, <2>2, <2>3 DEF OwnerExact
<1>3. CASE Prepare
  <2>1. Decides(Head(queue).ref, "prepare", "prepared", {"prepared"}, {"pending"}) BY <1>3 DEF Prepare
  <2>2. AtTurn("prepare") BY <2>1 DEF Decides
  <2>3. queue # << >> /\ o.kind = "prepare" /\ Head(queue) = o /\ i \in Ids BY <2>2, <1>2
  <2> HIDE DEF o
  <2>4. \/ Reply(TRUE) \/ Reply(FALSE) \/ WriteFails
        \/ astate[i] \in {"pending"} /\ Transition(i, "prepared") /\ agrant' = agrant /\ Answer(TRUE) /\ aholder' = aholder
    BY <2>1, <2>3 DEF Decides
  <2> USE DEF o
  <2>5. CASE Reply(TRUE) BY <2>3, <2>5, ReplyKeeps
  <2>6. CASE Reply(FALSE) BY <2>3, <2>6, ReplyKeeps
  <2>7. CASE astate[i] \in {"pending"} /\ Transition(i, "prepared") /\ agrant' = agrant /\ Answer(TRUE) /\ aholder' = aholder
    BY <2>3, <2>7, DecidesStep DEF Open
  <2> QED BY <2>3, <2>4, <2>5, <2>6, <2>7, WriteFailsKeeps
<1>4. CASE Deny
  <2>1. Decides(Head(queue).ref, "deny", "denied", {"denied", "expired"}, Open) BY <1>4 DEF Deny
  <2>2. AtTurn("deny") BY <2>1 DEF Decides
  <2>3. queue # << >> /\ o.kind = "deny" /\ Head(queue) = o /\ i \in Ids BY <2>2, <1>2
  <2> HIDE DEF o
  <2>4. \/ Reply(TRUE) \/ Reply(FALSE) \/ WriteFails
        \/ astate[i] \in Open /\ Transition(i, "denied") /\ agrant' = agrant /\ Answer(TRUE) /\ aholder' = aholder
    BY <2>1, <2>3 DEF Decides
  <2> USE DEF o
  <2>5. CASE Reply(TRUE) BY <2>3, <2>5, ReplyKeeps
  <2>6. CASE Reply(FALSE) BY <2>3, <2>6, ReplyKeeps
  <2>7. CASE astate[i] \in Open /\ Transition(i, "denied") /\ agrant' = agrant /\ Answer(TRUE) /\ aholder' = aholder
    BY <2>3, <2>7, DecidesStep
  <2> QED BY <2>3, <2>4, <2>5, <2>6, <2>7, WriteFailsKeeps
<1>5. CASE Approve
  <2> DEFINE done == {"granted", "reserved", "consumed", "burned"}
  <2>1. Decides(Head(queue).ref, "approve", "granted", done, Open) BY <1>5 DEF Approve
  <2>2. AtTurn("approve") BY <2>1 DEF Decides
  <2>3. queue # << >> /\ o.kind = "approve" /\ Head(queue) = o /\ i \in Ids /\ astate[i] # "none" BY <2>2, <1>2
  <2> HIDE DEF o
  <2>4. \/ astate[i] \in done /\ Reply(TRUE) 
        \/ astate[i] \notin done \cup Open /\ Reply(FALSE) 
        \/ WriteFails
        \/ /\ astate[i] \in Open /\ Transition(i, "granted") /\ Answer(TRUE) /\ aholder' = aholder
           /\ agrant' = [agrant EXCEPT ![i] = owner.grant] 
    BY <2>1, <2>3 DEF Decides
  <2> USE DEF o
  <2>5. CASE astate[i] \in done /\ Reply(TRUE)
    <3>1. agrant[i] # 0 BY <2>3, <2>5 DEF GrantsExact
    <3> QED BY <3>1, <2>3, <2>5, ReplyKeeps
  <2>6. CASE astate[i] \notin done \cup Open /\ Reply(FALSE)
    <3>1. astate[i] \in Terminal BY <2>3, <2>6 DEF ApprovalTypeOK, Active, Terminal, Open
    <3> QED BY <3>1, <2>3, <2>6, ReplyKeeps
  <2>7. CASE /\ astate[i] \in Open /\ Transition(i, "granted") /\ Answer(TRUE) /\ aholder' = aholder
             /\ agrant' = [agrant EXCEPT ![i] = owner.grant] 
    BY <2>3, <2>7, DecidesStep
  <2> QED BY <2>3, <2>4, <2>5, <2>6, <2>7, WriteFailsKeeps
<1> QED BY <1>3, <1>4, <1>5

\* reserve, consume, burn: the transition.
LEMMA MarkStep ==
    ASSUME ApprovalOK, queue # << >>, NEW i \in Ids, NEW target \in {"reserved", "consumed", "burned"},
           target = "reserved" => queue[1].kind = "reserve" /\ astate[i] = "granted",
           target = "consumed" => queue[1].kind = "consume" /\ astate[i] = "reserved",
           target = "burned" => queue[1].kind = "burn" /\ astate[i] = "reserved",
           agrant[i] = queue[1].ref,
           Transition(i, target), aholder' = [aholder EXCEPT ![i] = {queue[1].who}], Answer(TRUE), agrant' = agrant
    PROVE  ApprovalOK'
<1> USE DEF ApprovalOK, ApprovalInv
<1> DEFINE o == queue[1]
           c == o.who
<1>1. /\ o \in Ops /\ 1 \in DOMAIN queue
      /\ \A d \in Calls : step'[d] = IF o.who = d THEN CallGoesOn(step[d], TRUE) ELSE step[d]
      /\ runtime' = IF o.who = "runtime" THEN "swept" ELSE runtime
      /\ UNCHANGED <<issued, live, took, limits>>
  BY AnswerIs
<1>2. o.kind \in {"reserve", "consume", "burn"} OBVIOUS
<1>3. c \in Calls /\ o.ref \in Grants /\ o.kind # "close" BY <1>1, <1>2, OpIs
<1>4. c # "runtime" /\ c # "owner" BY <1>3, OthersAssumption
<1>5. step[c] \in Awaiting /\ [kind |-> o.kind, ref |-> o.ref] = CallOp(c) BY <1>1, <1>3 DEF AwaitsExact
<1>6. took[c] = o.ref /\ (o.kind = "reserve" => step[c] = "marking") BY <1>2, <1>5 DEF CallOp
<1>7. o.ref # 0 /\ issued[o.ref] = i /\ \A j \in Ids : agrant[j] = o.ref => j = i BY <1>3, Finite DEF GrantsExact
<1>8. IsActive(i) /\ target \in Active \cup Terminal BY DEF IsActive, Active, Terminal
<1>9. /\ astate' \in [Ids -> {"none"} \cup Active \cup Terminal]
      /\ dedupe' \in [Bindings -> {0} \cup Ids]
      /\ \A j \in Ids : astate'[j] = IF j = i THEN target ELSE astate[j]
      /\ \A j \in Ids : astate'[j] = "none" <=> astate[j] = "none"
      /\ \A j \in Ids : astate[j] \in Terminal => astate'[j] \in Terminal
      /\ DedupeExact'
      /\ UNCHANGED <<abind, aexp, recent, faults>>
  BY <1>8, TransitionIs
<1>10. /\ aholder' \in [Ids -> SUBSET Calls]
       /\ \A j \in Ids : aholder'[j] = IF j = i THEN {c} ELSE aholder[j]
  <2>1. aholder \in [Ids -> SUBSET Calls] BY DEF ApprovalTypeOK
  <2>2. {c} \in SUBSET Calls BY <1>3
  <2> HIDE DEF c
  <2>3. aholder' = [aholder EXCEPT ![i] = {c}] BY DEF c
  <2> QED BY <2>1, <2>2, <2>3
<1>11. StoreTypeOK' BY <1>9, <1>10 DEF StoreTypeOK, ApprovalTypeOK
<1>12. StoreGrows BY <1>1, <1>8, <1>10, TransitionGrows
<1>13. GrantsExact'
  <2>1. \A j \in Ids : agrant'[j] # 0 => issued'[agrant'[j]] = j BY <1>1 DEF GrantsExact
  <2>2. \A j \in Ids : astate'[j] \in {"granted", "reserved", "consumed", "burned"} => agrant'[j] # 0
    BY <1>9, <1>7 DEF GrantsExact
  <2>3. \A g \in Grants : issued'[g] # 0 => astate'[issued'[g]] # "none"
    <3>1. \A g \in Grants : issued[g] # 0 => issued[g] \in Ids BY DEF ApprovalTypeOK
    <3> QED BY <3>1, <1>1, <1>9 DEF GrantsExact
  <2>4. \A g \in live' : issued'[g] # 0 BY <1>1 DEF GrantsExact
  <2> QED BY <2>1, <2>2, <2>3, <2>4 DEF GrantsExact
<1>14. ReservationsKept'
  <2>1. runtime' = runtime /\ faults' = faults BY <1>1, <1>4, <1>9
  <2>2. ASSUME faults = 0, runtime = "open", NEW j \in Ids, astate'[j] = "reserved" PROVE Used(j)'
    <3>1. CASE j = i
      <4>1. target = "reserved" BY <3>1, <2>2, <1>9
      <4>2. step'[c] = "reserved" BY <4>1, <1>1, <1>3, <1>6 DEF CallGoesOn
      <4>3. took'[c] = agrant'[i] /\ aholder'[i] = {c} BY <1>1, <1>6, <1>10
      <4> QED BY <3>1, <4>2, <4>3, <1>3 DEF Used
    <3>2. CASE j # i
      <4>1. astate[j] = "reserved" BY <3>2, <2>2, <1>9
      <4>2. PICK d \in Calls : aholder[j] = {d} /\ took[d] = agrant[j]
                               /\ step[d] \in {"reserved", "consuming", "burning", "burningOn"}
        BY <4>1, <2>2 DEF ReservationsKept, Used
      <4>3. d # c BY <4>2, <3>2, <1>6, <1>7
      <4>4. step'[d] = step[d] BY <4>3, <1>1
      <4>5. took'[d] = agrant'[j] /\ aholder'[j] = {d} BY <4>2, <3>2, <1>1, <1>10
      <4> QED BY <4>2, <4>4, <4>5 DEF Used
    <3> QED BY <3>1, <3>2
  <2>3. faults = 0 => runtime \notin {"swept", "closed"} BY <1>8 DEF ReservationsKept
  <2> QED BY <2>1, <2>2, <2>3 DEF ReservationsKept
<1>15. Settled \subseteq Settled' BY <1>2, <1>9, AnswerSettled
<1>16. faults \in 0..limits.faults /\ faults \in Nat /\ faults' = faults BY <1>9 DEF ApprovalTypeOK
<1>17. NumbersLeft'
  <2>1. \A d \in Calls : step'[d] \in {"none", "lane", "start", "asking"} => step[d] \in {"none", "lane", "start", "asking"}
    BY AnswerAsked
  <2> QED BY <2>1, <1>1, <1>9, <1>15, <1>16, NumbersKept
<1>18. o.kind = "consume" => \E j \in Ids : issued[o.ref] = j /\ astate'[j] = "consumed" /\ aholder'[j] = {o.who}
  BY <1>7, <1>9, <1>10
<1>19. faults' \in 0..limits.faults BY <1>16
<1>20. DedupeExact' BY <1>9
<1>21. ApprovalOK /\ queue # << >> /\ Answer(TRUE) /\ TRUE \in BOOLEAN OBVIOUS
<1> HIDE DEF ApprovalOK, ApprovalInv, o
<1> QED BY <1>11, <1>12, <1>13, <1>14, <1>17, <1>18, <1>19, <1>20, <1>21, AnswerKeeps DEF o

\* markReserved, markConsumed and markBurned, with their early answers.
LEMMA MarkKeeps ==
    ASSUME ApprovalOK, MarkReserved \/ MarkConsumed \/ MarkBurned
    PROVE  ApprovalOK'
<1> USE DEF ApprovalOK, ApprovalInv
<1> DEFINE o == queue[1]
           c == o.who
           its == {i \in Ids : agrant[i] = o.ref}
<1>1. queue \in Seq(Ops) BY DEF ApprovalTypeOK
<1>2. ASSUME NEW kind \in {"reserve", "consume", "burn"}, NEW target \in {"reserved", "consumed", "burned"},
             target = "reserved" <=> kind = "reserve", target = "consumed" <=> kind = "consume",
             Mark(kind, target)
      PROVE  ApprovalOK'
  <2> DEFINE done == \E i \in its : astate[i] = target /\ aholder[i] = {c}
             may == {i \in its : IF target = "reserved" THEN astate[i] = "granted"
                                 ELSE astate[i] = "reserved" /\ aholder[i] = {c}}
  <2>1. queue # << >> /\ o.kind = kind /\ Head(queue) = o /\ o \in Ops
    BY <1>1, <1>2, Taken DEF Mark, AtTurn
  <2>2. o.ref \in Grants /\ o.ref # 0 BY <2>1, OpIs, Finite
  <2>3. \A i \in its : issued[o.ref] = i BY <2>2 DEF GrantsExact
  <2>4. \/ done /\ Reply(TRUE)
        \/ ~done /\ may = {} /\ Reply(FALSE)
        \/ /\ \E i \in may : Transition(i, target) /\ aholder' = [aholder EXCEPT ![i] = {c}]
           /\ Answer(TRUE)
           /\ agrant' = agrant
        \/ WriteFails
    <3> HIDE DEF o
    <3> QED BY <1>2, <2>1 DEF Mark
  <2>5. CASE done /\ Reply(TRUE)
    <3>1. PICK i \in its : astate[i] = target /\ aholder[i] = {c} BY <2>5
    <3>2. o.kind = "consume" => \E j \in Ids : issued[o.ref] = j /\ astate[j] = "consumed" /\ aholder[j] = {o.who}
      BY <3>1, <2>1, <2>3, <1>2
    <3>3. o.kind \in {"consume", "burn"} =>
             \A j \in Ids : ~ (astate[j] = "reserved" /\ aholder[j] = {o.who} /\ agrant[j] = o.ref)
      BY <3>1, <2>1, <2>3, <1>2
    <3>4. o.kind # "approve" /\ o.kind # "close" BY <2>1
    <3>5. ApprovalOK /\ TRUE \in BOOLEAN OBVIOUS
    <3> HIDE DEF ApprovalOK, ApprovalInv
    <3> QED BY <2>1, <2>5, <3>2, <3>3, <3>4, <3>5, ReplyKeeps
  <2>6. CASE ~done /\ may = {} /\ Reply(FALSE)
    <3>3. o.kind \in {"consume", "burn"} =>
             \A j \in Ids : ~ (astate[j] = "reserved" /\ aholder[j] = {o.who} /\ agrant[j] = o.ref)
      <4> SUFFICES ASSUME o.kind \in {"consume", "burn"}, NEW j \in Ids,
                          astate[j] = "reserved", aholder[j] = {o.who}, agrant[j] = o.ref
                   PROVE  FALSE
        OBVIOUS
      <4>1. j \in may BY <2>1, <1>2
      <4> QED BY <4>1, <2>6
    <3>4. o.kind # "approve" /\ o.kind # "close" BY <2>1
    <3>5. ApprovalOK /\ FALSE \in BOOLEAN OBVIOUS
    <3> HIDE DEF ApprovalOK, ApprovalInv
    <3> QED BY <2>1, <2>6, <3>3, <3>4, <3>5, ReplyKeeps
  <2>7. CASE /\ \E i \in may : Transition(i, target) /\ aholder' = [aholder EXCEPT ![i] = {c}]
             /\ Answer(TRUE)
             /\ agrant' = agrant
    <3>1. PICK i \in may : Transition(i, target) /\ aholder' = [aholder EXCEPT ![i] = {c}] BY <2>7
    <3>2. i \in Ids /\ agrant[i] = o.ref /\ (target = "reserved" => astate[i] = "granted")
          /\ (target # "reserved" => astate[i] = "reserved")
      OBVIOUS
    <3>3. target = "burned" => kind = "burn" BY <1>2
    <3>5. ApprovalOK OBVIOUS
    <3> HIDE DEF ApprovalOK, ApprovalInv, may
    <3> QED BY <1>2, <2>1, <2>7, <3>1, <3>2, <3>3, <3>5, MarkStep
  <2>8. CASE WriteFails BY <2>1, <2>8, WriteFailsKeeps
  <2> QED BY <2>4, <2>5, <2>6, <2>7, <2>8
<1>3. CASE MarkReserved BY <1>3, <1>2 DEF MarkReserved
<1>4. CASE MarkConsumed BY <1>4, <1>2 DEF MarkConsumed
<1>5. CASE MarkBurned BY <1>5, <1>2 DEF MarkBurned
<1> QED BY <1>3, <1>4, <1>5

\* Among the numbers of approvals, or of grants, there is a least one.
LEMMA LeastIs ==
    ASSUME NEW T \in SUBSET Nat, T # {}
    PROVE  Least(T) \in T
<1>1. PICK x \in T : \A y \in T : ~ (<<y, x>> \in OpToRel(<, Nat))
  BY NatLessThanWellFounded, WFMin
<1>2. \A y \in T : ~ (y < x) BY <1>1 DEF OpToRel
<1>3. \A y \in T : x <= y BY <1>2
<1> QED BY <1>3 DEF Least

\* All calls but one are as they were.
LEMMA OthersStay ==
    ASSUME ApprovalTypeOK, GrantsExact, StoreGrows, TookExact, ExecutionBacked, want' = want, NEW c,
           \A d \in Calls \ {c} : step'[d] = step[d] /\ took'[d] = took[d] /\ (d \in reuses' <=> d \in reuses),
           c \in Calls => TookOK(c)' /\ BackedOK(c)'
    PROVE  TookExact' /\ ExecutionBacked'
<1>1. ASSUME NEW d \in Calls PROVE TookOK(d)' /\ BackedOK(d)'
  <2>1. CASE d = c BY <2>1
  <2>2. CASE d # c
    <3>1. TookOK(d) /\ BackedOK(d) BY TookEach, BackedEach
    <3> QED BY <3>1, <2>2, CallStays
  <2> QED BY <2>1, <2>2
<1> QED BY <1>1 DEF TookExact, ExecutionBacked, TookOK, BackedOK

\* An approval expires, or is burned with its reservation.
LEMMA SweepStep ==
    ASSUME ApprovalOK, NEW i \in Ids, IsActive(i),
           Transition(i, IF astate[i] = "reserved" THEN "burned" ELSE "expired"),
           UNCHANGED <<callFacts, agrant, aholder, clock, runtime, grantVars, queue, owner, callVars>>
    PROVE  ApprovalOK'
<1> USE DEF ApprovalOK, ApprovalInv
<1> DEFINE target == IF astate[i] = "reserved" THEN "burned" ELSE "expired"
<1>1. target \in Active \cup Terminal /\ target \in Terminal BY DEF Terminal
<1>2. UNCHANGED <<home, want, limits, agrant, aholder, clock, runtime, issued, live, held, queue, owner, step, took, reuses>>
  BY DEF callFacts, grantVars, callVars
<1>3. /\ astate' \in [Ids -> {"none"} \cup Active \cup Terminal]
      /\ dedupe' \in [Bindings -> {0} \cup Ids]
      /\ \A j \in Ids : astate'[j] = IF j = i THEN target ELSE astate[j]
      /\ \A j \in Ids : astate'[j] = "none" <=> astate[j] = "none"
      /\ \A j \in Ids : astate[j] \in Terminal => astate'[j] \in Terminal
      /\ DedupeExact'
      /\ UNCHANGED <<abind, aexp, recent, faults>>
  BY <1>1, TransitionIs
<1>4. StoreGrows BY <1>1, <1>2, TransitionGrows
<1>5. ApprovalTypeOK' BY <1>2, <1>3 DEF ApprovalTypeOK
<1>6. AwaitsExact'
  <2>1. \A c \in Calls : CallOp(c)' = CallOp(c) BY <1>2 DEF CallOp
  <2> QED BY <2>1, <1>2 DEF AwaitsExact, CallOp
<1>7. OwnerExact'
  <2>1. owner.id \in {0} \cup Ids BY DEF ApprovalTypeOK, OwnerStates
  <2> QED BY <2>1, <1>2, <1>3 DEF OwnerExact
<1>8. GrantsExact'
  <2>1. \A g \in Grants : issued[g] # 0 => issued[g] \in Ids BY DEF ApprovalTypeOK
  <2>2. \A j \in Ids : astate'[j] \in {"granted", "reserved", "consumed", "burned"} => agrant[j] # 0
    BY <1>3 DEF GrantsExact
  <2> QED BY <2>1, <2>2, <1>2, <1>3 DEF GrantsExact
<1>9. TookExact' /\ ExecutionBacked'
  <2>1. \A c \in Calls : TookOK(c) /\ BackedOK(c) BY TookEach, BackedEach
  <2>2. \A c \in Calls : TookOK(c)' /\ BackedOK(c)' BY <2>1, <1>2, <1>4, CallStays
  <2> QED BY <2>2 DEF TookExact, ExecutionBacked, TookOK, BackedOK
<1>10. ChainExact' BY <1>2 DEF ChainExact
<1>11. ReservationsKept'
  <2>1. \A j \in Ids : Used(j)' <=> Used(j) BY <1>2 DEF Used
  <2>2. \A j \in Ids : astate'[j] = "reserved" => astate[j] = "reserved" BY <1>3
  <2>3. \A j \in Ids : astate'[j] \in Active => astate[j] \in Active BY <1>1, <1>3 DEF Active, Terminal
  <2> QED BY <2>1, <2>2, <2>3, <1>2, <1>3 DEF ReservationsKept, IsActive
<1>12. Settled \subseteq Settled' BY <1>2, <1>3 DEF Settled
<1>13. NumbersLeft'
  <2>1. faults \in Nat /\ faults' = faults BY <1>3 DEF ApprovalTypeOK
  <2> QED BY <2>1, <1>2, <1>3, <1>12, NumbersKept
<1>14. DedupeExact' BY <1>3
<1> QED BY <1>5, <1>6, <1>7, <1>8, <1>9, <1>10, <1>11, <1>13, <1>14

\* #expire and #revokeWhere, one approval after the other.
LEMMA SweepKeeps ==
    ASSUME ApprovalOK, Sweep
    PROVE  ApprovalOK'
<1> DEFINE T == ToSweep(Head(queue))
<1>1. T \in SUBSET Ids /\ \A i \in T : IsActive(i) BY DEF ToSweep
<1>2. Ids \subseteq Nat BY Finite
<1>3. queue # << >> /\ T # {} BY DEF Sweep
<1>4. Least(T) \in T BY <1>1, <1>2, <1>3, LeastIs
<1> HIDE DEF T
<1>5. CASE WriteFails BY <1>3, <1>5, WriteFailsKeeps
<1>6. CASE ~WriteFails
  <2> DEFINE i == Least(T)
  <2>1. /\ Transition(i, IF astate[i] = "reserved" THEN "burned" ELSE "expired")
        /\ UNCHANGED <<callFacts, agrant, aholder, clock, runtime, grantVars, queue, owner, callVars>>
    BY <1>6 DEF Sweep, T
  <2>2. i \in Ids /\ IsActive(i) BY <1>1, <1>4
  <2> HIDE DEF i
  <2> QED BY <2>1, <2>2, SweepStep
<1> QED BY <1>5, <1>6

\* expire, and closeServer, at their end.
LEMMA SweptKeeps ==
    ASSUME ApprovalOK, Swept
    PROVE  ApprovalOK'
<1> DEFINE o == queue[1]
<1>1. queue \in Seq(Ops) BY DEF ApprovalOK, ApprovalTypeOK
<1>2. queue # << >> /\ Head(queue) = o /\ o.kind \in {"expire", "close"} /\ ToSweep(o) = {} /\ Reply(TRUE)
  <2>1. queue # << >> BY DEF Swept, AtTurn
  <2>2. Head(queue) = o BY <2>1, <1>1, Taken
  <2> HIDE DEF o
  <2> QED BY <2>1, <2>2 DEF Swept, AtTurn
<1>3. o.kind = "close" => \A i \in Ids : ~IsActive(i) BY <1>2 DEF ToSweep
<1>4. TRUE \in BOOLEAN OBVIOUS
<1> QED BY <1>2, <1>3, <1>4, ReplyKeeps

\* request opens an approval where there is none: it has a number left, and it is
\* the only open one of its binding.
LEMMA RequestStep ==
    ASSUME ApprovalOK, queue # << >>, queue[1].kind = "request", ToSweep(queue[1]) = {},
           NEW b, b = queue[1].ref, NEW now, now = queue[1].at, NEW i, i = Least({j \in Ids : astate[j] = "none"}),
           dedupe[b] \notin {j \in Ids : IsActive(j) /\ aexp[j] > now},
           astate' = [astate EXCEPT ![i] = "pending"],
           abind' = [abind EXCEPT ![i] = b],
           aexp' = [aexp EXCEPT ![i] = now + Ttl[Risk[b]]],
           dedupe' = [dedupe EXCEPT ![b] = i],
           recent' = [recent EXCEPT ![SessionOf[b]] = @ + 1],
           Answer(TRUE), UNCHANGED <<faults, agrant, aholder>>
    PROVE  ApprovalOK'
<1> USE DEF ApprovalOK, ApprovalInv
<1> DEFINE o == queue[1]
           c == o.who
<1>1. /\ o \in Ops /\ 1 \in DOMAIN queue
      /\ \A d \in Calls : step'[d] = IF o.who = d THEN CallGoesOn(step[d], TRUE) ELSE step[d]
      /\ runtime' = IF o.who = "runtime" THEN "swept" ELSE runtime
      /\ UNCHANGED <<issued, live, took, limits>>
  BY AnswerIs
<1>2. c \in Calls /\ b \in Bindings /\ Risk[b] \in {"R1", "R2", "R3"} /\ now \in Nat BY <1>1, OpIs
<1>3. c # "runtime" /\ runtime' = runtime BY <1>1, <1>2, OthersAssumption
<1>4. step[c] = "asking"
  <2>1. step[c] \in Awaiting /\ [kind |-> o.kind, ref |-> o.ref] = CallOp(c) BY <1>1, <1>2 DEF AwaitsExact
  <2>2. o.kind = CallOp(c).kind BY <2>1
  <2> QED BY <2>2, <2>1 DEF CallOp
<1>5. runtime \notin {"swept", "closed"} BY <1>1 DEF ChainExact
<1>t. /\ astate \in [Ids -> {"none"} \cup Active \cup Terminal] /\ abind \in [Ids -> Bindings]
      /\ aexp \in [Ids -> Nat] /\ dedupe \in [Bindings -> {0} \cup Ids] /\ recent \in [Sessions -> Nat]
  BY DEF ApprovalTypeOK
<1>6. Requested \in SUBSET Ids /\ Asked \in SUBSET Calls /\ c \notin Asked BY <1>4 DEF Requested, Asked
<1>7. i \in Ids /\ astate[i] = "none"
  <2> DEFINE T == {j \in Ids : astate[j] = "none"}
  <2>1. Cardinality(Asked \cup {c}) = Cardinality(Asked) + 1 /\ Cardinality(Asked) \in Nat BY <1>2, <1>6, Counted
  <2>2. Asked \cup {c} \in SUBSET Calls BY <1>2, <1>6
  <2>3. Cardinality(Asked \cup {c}) <= Cardinality(Calls) BY <2>2, Finite
  <2>4. Cardinality(Requested) <= Cardinality(Asked) BY DEF NumbersLeft
  <2>5. Cardinality(Requested) \in Nat /\ Cardinality(Calls) \in Nat /\ Cardinality(Ids) = Cardinality(Calls) BY <1>6, Finite
  <2>6. Requested # Ids BY <2>1, <2>3, <2>4, <2>5
  <2>7. T # {} BY <2>6, <1>6 DEF Requested
  <2>8. T \in SUBSET Nat BY Finite
  <2> HIDE DEF T
  <2>9. Least(T) \in T BY <2>7, <2>8, LeastIs
  <2> QED BY <2>9 DEF T
<1>8. \A j \in Ids : ~(IsActive(j) /\ abind[j] = b)
  <2> DEFINE open(x) == {j \in Ids : IsActive(j) /\ abind[j] = x}
  <2>1. \A j \in Ids : IsActive(j) => aexp[j] > now
    <3>1. \A j \in Ids : ~(IsActive(j) /\ aexp[j] <= o.at) BY DEF ToSweep
    <3> QED BY <3>1, <1>2, <1>t
  <2>2. open(b) = IF dedupe[b] = 0 THEN {} ELSE {dedupe[b]} BY <1>2 DEF DedupeExact
  <2>3. dedupe[b] \notin open(b) BY <2>1
  <2>4. open(b) = {} BY <2>2, <2>3
  <2> QED BY <2>4
<1>9. /\ astate' \in [Ids -> {"none"} \cup Active \cup Terminal]
      /\ \A j \in Ids : astate'[j] = IF j = i THEN "pending" ELSE astate[j]
  BY <1>7, <1>t DEF Active
<1>10. /\ abind' \in [Ids -> Bindings] /\ \A j \in Ids : abind'[j] = IF j = i THEN b ELSE abind[j]
       /\ dedupe' \in [Bindings -> {0} \cup Ids] /\ \A x \in Bindings : dedupe'[x] = IF x = b THEN i ELSE dedupe[x]
  BY <1>2, <1>7, <1>t
<1>11. aexp' \in [Ids -> Nat]
  <2>1. Ttl[Risk[b]] \in Nat BY <1>2, ApprovalAssumption
  <2>2. now + Ttl[Risk[b]] \in Nat BY <2>1, <1>2
  <2> QED BY <2>2, <1>7, <1>t
<1>12. recent' \in [Sessions -> Nat]
  <2>1. SessionOf[b] \in Sessions BY <1>2 DEF Sessions
  <2>2. recent[SessionOf[b]] + 1 \in Nat BY <2>1, <1>t
  <2> QED BY <2>2, <1>t
<1>13. StoreTypeOK' BY <1>9, <1>10, <1>11, <1>12 DEF StoreTypeOK, ApprovalTypeOK
<1>14. StoreGrows BY <1>1, <1>7, <1>9, <1>10 DEF StoreGrows
<1>15. GrantsExact'
  <2>1. \A g \in Grants : issued[g] # 0 => issued[g] \in Ids BY DEF ApprovalTypeOK
  <2>2. \A g \in Grants : issued'[g] # 0 => astate'[issued'[g]] # "none" BY <2>1, <1>1, <1>9 DEF GrantsExact
  <2>3. \A j \in Ids : astate'[j] \in {"granted", "reserved", "consumed", "burned"} => agrant'[j] # 0
    BY <1>9 DEF GrantsExact
  <2>4. \A g \in live' : issued'[g] # 0 BY <1>1 DEF GrantsExact
  <2>5. \A j \in Ids : agrant'[j] # 0 => issued'[agrant'[j]] = j BY <1>1 DEF GrantsExact
  <2> QED BY <2>2, <2>3, <2>4, <2>5 DEF GrantsExact
<1>16. DedupeExact'
  <2> DEFINE open(x) == {j \in Ids : astate[j] \in Active /\ abind[j] = x}
             open2(x) == {j \in Ids : astate'[j] \in Active /\ abind'[j] = x}
  <2>1. \A x \in Bindings : open(x) = IF dedupe[x] = 0 THEN {} ELSE {dedupe[x]} BY DEF DedupeExact, IsActive
  <2>2. ASSUME NEW x \in Bindings PROVE open2(x) = IF dedupe'[x] = 0 THEN {} ELSE {dedupe'[x]}
    <3>1. CASE x = b
      <4>1. dedupe'[x] = i /\ i # 0 BY <3>1, <1>7, <1>10, Finite
      <4>2. i \in open2(x) BY <3>1, <1>7, <1>9, <1>10 DEF Active
      <4>3. \A j \in Ids : j # i => j \notin open2(x) BY <3>1, <1>8, <1>9, <1>10 DEF IsActive
      <4> QED BY <4>1, <4>2, <4>3
    <3>2. CASE x # b
      <4>1. dedupe'[x] = dedupe[x] BY <3>2, <1>10
      <4>2. "none" \notin Active BY DEF Active
      <4>3. open2(x) = open(x) BY <3>2, <4>2, <1>7, <1>9, <1>10
      <4> QED BY <4>1, <4>3, <2>1
    <3> QED BY <3>1, <3>2
  <2> QED BY <2>2 DEF DedupeExact, IsActive
<1>17. ReservationsKept'
  <2>1. ASSUME faults = 0, runtime = "open", NEW j \in Ids, astate'[j] = "reserved" PROVE Used(j)'
    <3>1. j # i /\ astate[j] = "reserved" BY <2>1, <1>9
    <3>2. PICK d \in Calls : aholder[j] = {d} /\ took[d] = agrant[j]
                             /\ step[d] \in {"reserved", "consuming", "burning", "burningOn"}
      BY <3>1, <2>1 DEF ReservationsKept, Used
    <3>3. step'[d] = step[d] BY <3>2, <1>1, <1>4
    <3> QED BY <3>2, <3>3, <1>1 DEF Used
  <2> QED BY <2>1, <1>3, <1>5 DEF ReservationsKept
<1>18. Settled \subseteq Settled'
  <2>1. \A j \in Ids : astate[j] \in Terminal => astate'[j] \in Terminal BY <1>7, <1>9 DEF Terminal
  <2> QED BY <2>1, AnswerSettled
<1>19. faults \in 0..limits.faults /\ faults' = faults /\ faults \in Nat BY DEF ApprovalTypeOK
<1>20. NumbersLeft'
  <2>1. Asked \cup {c} \subseteq Asked' /\ Asked' \in SUBSET Calls
    <3>1. \A d \in Calls : /\ step'[d] \in {"none", "lane", "start", "asking"} => step[d] \in {"none", "lane", "start", "asking"}
                           /\ o.who = d => step'[d] \notin {"none", "lane", "start", "asking"}
      BY AnswerAsked
    <3> QED BY <3>1, <1>2 DEF Asked
  <2>2. Cardinality(Asked \cup {c}) = Cardinality(Asked) + 1 /\ Cardinality(Asked) \in Nat BY <1>2, <1>6, Counted
  <2>3. Cardinality(Asked \cup {c}) <= Cardinality(Asked') /\ Cardinality(Asked') \in Nat BY <2>1, Finite, FS_Subset
  <2>4. Requested' = Requested \cup {i} /\ i \notin Requested BY <1>7, <1>9 DEF Requested
  <2>5. Cardinality(Requested \cup {i}) = Cardinality(Requested) + 1 /\ Cardinality(Requested) \in Nat
    BY <1>6, <2>4, Finite, FS_AddElement
  <2>6. Cardinality(Requested') <= Cardinality(Asked') BY <2>2, <2>3, <2>4, <2>5 DEF NumbersLeft
  <2>7. Settled \in SUBSET Ids /\ Settled' \in SUBSET Ids BY DEF Settled
  <2>8. Cardinality(Settled) <= Cardinality(Settled') /\ Cardinality(Settled) \in Nat /\ Cardinality(Settled') \in Nat
    BY <1>18, <2>7, Finite, FS_Subset
  <2> DEFINE n == Cardinality({g \in Grants : issued[g] # 0})
  <2>9. Cardinality({g \in Grants : issued'[g] # 0}) = n BY <1>1
  <2>10. {g \in Grants : issued[g] # 0} \in SUBSET Grants OBVIOUS
  <2>11. n \in Nat BY <2>10, Finite
  <2>12. n <= Cardinality(Settled) + faults BY DEF NumbersLeft
  <2> HIDE DEF n
  <2>14. n <= Cardinality(Settled') + faults' BY <2>8, <2>11, <2>12, <1>19
  <2>13. Cardinality({g \in Grants : issued'[g] # 0}) <= Cardinality(Settled') + faults'
    BY <2>9, <2>14
  <2> QED BY <2>6, <2>13 DEF NumbersLeft
<1>21. faults' \in 0..limits.faults BY <1>19
<1>22. ApprovalOK /\ queue # << >> /\ Answer(TRUE) /\ TRUE \in BOOLEAN /\ o.kind # "consume" OBVIOUS
<1> HIDE DEF ApprovalOK, ApprovalInv, o
<1> QED BY <1>13, <1>14, <1>15, <1>16, <1>17, <1>20, <1>21, <1>22, AnswerKeeps DEF o

\* request, with its early answers.
LEMMA RequestKeeps ==
    ASSUME ApprovalOK, Request
    PROVE  ApprovalOK'
<1> DEFINE o == queue[1]
           b == o.ref
           open == {i \in Ids : IsActive(i) /\ aexp[i] > o.at}
           i == Least({j \in Ids : astate[j] = "none"})
<1>1. queue \in Seq(Ops) BY DEF ApprovalOK, ApprovalTypeOK
<1>2. queue # << >> /\ Head(queue) = o /\ o.kind = "request" /\ ToSweep(o) = {}
  <2>1. queue # << >> BY DEF Request, AtTurn
  <2>2. Head(queue) = o BY <2>1, <1>1, Taken
  <2> HIDE DEF o
  <2> QED BY <2>1, <2>2 DEF Request, AtTurn
<1>3. \/ Reply(TRUE) \/ Reply(FALSE) \/ WriteFails
      \/ /\ dedupe[b] \notin open
         /\ astate' = [astate EXCEPT ![i] = "pending"]
         /\ abind' = [abind EXCEPT ![i] = b]
         /\ aexp' = [aexp EXCEPT ![i] = o.at + Ttl[Risk[b]]]
         /\ dedupe' = [dedupe EXCEPT ![b] = i]
         /\ recent' = [recent EXCEPT ![SessionOf[b]] = @ + 1]
         /\ Answer(TRUE) /\ UNCHANGED <<faults, agrant, aholder>>
  <2> HIDE DEF o
  <2> QED BY <1>2 DEF Request
<1>4. TRUE \in BOOLEAN /\ FALSE \in BOOLEAN OBVIOUS
<1>5. CASE Reply(TRUE) BY <1>2, <1>4, <1>5, ReplyKeeps
<1>6. CASE Reply(FALSE) BY <1>2, <1>4, <1>6, ReplyKeeps
<1>7. CASE WriteFails BY <1>2, <1>7, WriteFailsKeeps
<1>8. CASE /\ dedupe[b] \notin open
           /\ astate' = [astate EXCEPT ![i] = "pending"]
           /\ abind' = [abind EXCEPT ![i] = b]
           /\ aexp' = [aexp EXCEPT ![i] = o.at + Ttl[Risk[b]]]
           /\ dedupe' = [dedupe EXCEPT ![b] = i]
           /\ recent' = [recent EXCEPT ![SessionOf[b]] = @ + 1]
           /\ Answer(TRUE) /\ UNCHANGED <<faults, agrant, aholder>>
  BY <1>2, <1>8, RequestStep
<1> QED BY <1>3, <1>5, <1>6, <1>7, <1>8

\* The promise chain keeps the invariant.
LEMMA OperateKeeps ==
    ASSUME ApprovalOK, Operate
    PROVE  ApprovalOK'
BY SweepKeeps, SweptKeeps, RequestKeeps, DecidesKeeps, MarkKeeps DEF Operate

-----------------------------------------------------------------------------
(* The Policy Kernel                                                        *)

\* A call that goes on without an operation on the chain leaves it as it is.
LEMMA CallGoes ==
    ASSUME ApprovalOK, NEW c \in Calls, step[c] \notin Awaiting, queue' = queue,
           \A d \in Calls \ {c} : step'[d] = step[d] /\ took'[d] = took[d],
           UNCHANGED <<want, owner, astate, issued, runtime>>
    PROVE  queue' \in Seq(Ops) /\ AwaitsExact' /\ OwnerExact' /\ ChainExact'
<1> USE DEF ApprovalOK, ApprovalInv
<1>1. queue' \in Seq(Ops) BY DEF ApprovalTypeOK
<1>2. \A k \in DOMAIN queue : queue[k].who # c BY DEF AwaitsExact
<1>3. ASSUME NEW k \in DOMAIN queue, NEW d \in Calls, queue[k].who = d
      PROVE  step'[d] \in Awaiting /\ [kind |-> queue[k].kind, ref |-> queue[k].ref] = CallOp(d)'
  <2>1. step'[d] = step[d] /\ took'[d] = took[d] BY <1>2, <1>3
  <2>2. step[d] \in Awaiting /\ [kind |-> queue[k].kind, ref |-> queue[k].ref] = CallOp(d) BY <1>3 DEF AwaitsExact
  <2>3. CallOp(d)' = CallOp(d) BY <2>1 DEF CallOp
  <2> QED BY <2>1, <2>2, <2>3
<1>4. AwaitsExact'
  <2>1. \A j, k \in DOMAIN queue : queue[j].who = queue[k].who /\ queue[j].who \in Calls => j = k BY DEF AwaitsExact
  <2> QED BY <2>1, <1>3 DEF AwaitsExact, CallOp
<1>5. OwnerExact' BY DEF OwnerExact
<1>6. ChainExact' BY DEF ChainExact
<1> QED BY <1>1, <1>4, <1>5, <1>6

\* A call that puts an operation on the chain awaits it.
LEMMA CallAsks ==
    ASSUME ApprovalOK, NEW c \in Calls, NEW op \in Ops, op.who = c, step[c] \notin Awaiting, queue' = Append(queue, op),
           step'[c] \in Awaiting, [kind |-> op.kind, ref |-> op.ref] = CallOp(c)',
           op.kind = "request" => runtime = "open",
           \A d \in Calls \ {c} : step'[d] = step[d] /\ took'[d] = took[d],
           UNCHANGED <<want, owner, astate, issued, runtime>>
    PROVE  queue' \in Seq(Ops) /\ AwaitsExact' /\ OwnerExact' /\ ChainExact'
<1> USE DEF ApprovalOK, ApprovalInv
<1>1. queue \in Seq(Ops) BY DEF ApprovalTypeOK
<1> DEFINE n == Len(queue) + 1
<1>2. /\ queue' \in Seq(Ops)
      /\ DOMAIN queue' = 1..n /\ DOMAIN queue = 1..Len(queue) /\ Len(queue) \in Nat
      /\ queue'[n] = op
      /\ \A k \in DOMAIN queue : k \in DOMAIN queue' /\ queue'[k] = queue[k]
  BY <1>1, Appended
<1>3. \A k \in DOMAIN queue' : k = n \/ (k \in DOMAIN queue /\ queue'[k] = queue[k]) BY <1>2
<1>4. \A k \in DOMAIN queue : queue[k].who # c BY DEF AwaitsExact
<1>5. op.who # "owner" /\ op.who # "runtime" /\ op.kind # "close" BY OthersAssumption, OpIs
<1> HIDE DEF n
<1>6. ASSUME NEW k \in DOMAIN queue', NEW d \in Calls, queue'[k].who = d
      PROVE  step'[d] \in Awaiting /\ [kind |-> queue'[k].kind, ref |-> queue'[k].ref] = CallOp(d)'
  <2>1. CASE k = n BY <2>1, <1>2, <1>6
  <2>2. CASE k # n
    <3>0. k \in DOMAIN queue /\ queue'[k] = queue[k] BY <2>2, <1>3
    <3>1. step'[d] = step[d] /\ took'[d] = took[d] BY <3>0, <1>4, <1>6
    <3>2. step[d] \in Awaiting /\ [kind |-> queue[k].kind, ref |-> queue[k].ref] = CallOp(d) BY <3>0, <1>6 DEF AwaitsExact
    <3>3. CallOp(d)' = CallOp(d) BY <3>1 DEF CallOp
    <3> QED BY <3>0, <3>1, <3>2, <3>3
  <2> QED BY <2>1, <2>2
<1>7. AwaitsExact'
  <2>1. ASSUME NEW j \in DOMAIN queue', NEW k \in DOMAIN queue', queue'[j].who = queue'[k].who, queue'[j].who \in Calls
        PROVE  j = k
    <3>1. CASE j = n /\ k # n BY <3>1, <2>1, <1>2, <1>3, <1>4
    <3>2. CASE j # n /\ k = n BY <3>2, <2>1, <1>2, <1>3, <1>4
    <3>3. CASE j # n /\ k # n BY <3>3, <2>1, <1>3 DEF AwaitsExact
    <3> QED BY <3>1, <3>2, <3>3
  <2>2. \A k \in DOMAIN queue' : queue'[k].who \in Calls =>
          LET d == queue'[k].who IN
          step'[d] \in Awaiting
          /\ [kind |-> queue'[k].kind, ref |-> queue'[k].ref] =
               CASE step'[d] = "asking"    -> [kind |-> "request", ref |-> want'[d]]
                 [] step'[d] = "marking"   -> [kind |-> "reserve", ref |-> took'[d]]
                 [] step'[d] = "consuming" -> [kind |-> "consume", ref |-> took'[d]]
                 [] OTHER                  -> [kind |-> "burn", ref |-> took'[d]]
    BY ZenonT(60), <1>6 DEF CallOp
  <2> QED BY <2>1, <2>2 DEF AwaitsExact, CallOp
<1>8. OwnerExact'
  <2>1. \A k \in DOMAIN queue' : queue'[k].who = "owner" => k \in DOMAIN queue /\ queue'[k] = queue[k]
    BY <1>2, <1>3, <1>5
  <2> QED BY <2>1 DEF OwnerExact
<1>9. ChainExact'
  <2>1. \A k \in DOMAIN queue' : queue'[k].kind = "close" => k \in DOMAIN queue /\ queue'[k] = queue[k]
    BY <1>2, <1>3, <1>5
  <2>2. \A j, k \in DOMAIN queue' : queue'[j].kind = "close" =>
          (queue'[k].kind = "request" => k < j) /\ (queue'[k].kind = "close" => k = j)
    <3> SUFFICES ASSUME NEW j \in DOMAIN queue', NEW k \in DOMAIN queue', queue'[j].kind = "close"
                 PROVE  (queue'[k].kind = "request" => k < j) /\ (queue'[k].kind = "close" => k = j)
      OBVIOUS
    <3>1. j \in DOMAIN queue /\ queue[j].kind = "close" BY <2>1
    <3>2. runtime = "closing" BY <3>1 DEF ChainExact
    <3>3. CASE k = n BY <3>2, <3>3, <1>2, <1>5
    <3>4. CASE k # n
      <4>1. k \in DOMAIN queue /\ queue'[k] = queue[k] BY <3>4, <1>3
      <4> QED BY <4>1, <3>1 DEF ChainExact
    <3> QED BY <3>3, <3>4
  <2>3. \A k \in DOMAIN queue' : queue'[k].kind = "close" => runtime = "closing" BY <2>1 DEF ChainExact
  <2>4. runtime \in {"swept", "closed"} => \A k \in DOMAIN queue' : queue'[k].kind # "request"
    BY <1>2, <1>3 DEF ChainExact
  <2> QED BY <2>2, <2>3, <2>4 DEF ChainExact
<1> QED BY <1>2, <1>7, <1>8, <1>9

\* What is left to show of a step of one call.
LEMMA CallKeeps ==
    ASSUME ApprovalOK, NEW c \in Calls,
           UNCHANGED <<home, want, limits, clock, faults, runtime, storeVars, issued, owner>>,
           \A d \in Calls \ {c} : step'[d] = step[d] /\ took'[d] = took[d] /\ (d \in reuses' <=> d \in reuses),
           step' \in [Calls -> Steps], took' \in [Calls -> {0} \cup Grants], reuses' \in SUBSET Calls,
           live' \in SUBSET live, held' \in [Grants -> SUBSET Calls],
           queue' \in Seq(Ops) /\ AwaitsExact' /\ OwnerExact' /\ ChainExact',
           TookOK(c)', BackedOK(c)',
           step'[c] \in {"none", "lane", "start", "asking"} => step[c] \in {"none", "lane", "start", "asking"},
           step[c] \in {"reserved", "consuming", "burning", "burningOn"} /\ runtime = "open" =>
             c \in reuses \/ (took'[c] = took[c] /\ step'[c] \in {"consuming", "burning", "burningOn"})
    PROVE  ApprovalOK'
<1> USE DEF ApprovalOK, ApprovalInv
<1>1. UNCHANGED <<astate, abind, aexp, agrant, aholder, dedupe, recent>> BY DEF storeVars
<1>2. ApprovalTypeOK' BY <1>1 DEF ApprovalTypeOK
<1>3. StoreGrows BY <1>1 DEF StoreGrows
<1>4. TookExact' /\ ExecutionBacked' BY <1>3, OthersStay
<1>5. GrantsExact' BY <1>1 DEF GrantsExact
<1>6. DedupeExact' BY <1>1 DEF DedupeExact, IsActive
<1>7. ReservationsKept'
  <2>1. ASSUME faults = 0, runtime = "open", NEW i \in Ids, astate[i] = "reserved" PROVE Used(i)'
    <3>1. PICK d \in Calls : aholder[i] = {d} /\ took[d] = agrant[i]
                             /\ step[d] \in {"reserved", "consuming", "burning", "burningOn"}
      BY <2>1 DEF ReservationsKept, Used
    <3>2. CASE d # c
      <4>1. step'[d] = step[d] /\ took'[d] = took[d] BY <3>2
      <4> QED BY <4>1, <3>1, <1>1 DEF Used
    <3>3. CASE d = c
      <4>1. agrant[i] # 0 /\ issued[agrant[i]] = i BY <2>1 DEF GrantsExact
      <4>2. c \notin reuses BY <4>1, <3>1, <3>3, <2>1 DEF TookExact
      <4>3. took'[c] = took[c] /\ step'[c] \in {"consuming", "burning", "burningOn"} BY <4>2, <3>1, <3>3, <2>1
      <4> QED BY <4>3, <3>1, <3>3, <1>1 DEF Used
    <3> QED BY <3>2, <3>3
  <2> QED BY <2>1, <1>1 DEF ReservationsKept, IsActive
<1>8. Settled' = Settled BY <1>1 DEF Settled
<1>9. NumbersLeft'
  <2>1. faults \in Nat BY DEF ApprovalTypeOK
  <2>2. \A d \in Calls : step'[d] \in {"none", "lane", "start", "asking"} => step[d] \in {"none", "lane", "start", "asking"}
    OBVIOUS
  <2> QED BY <2>1, <2>2, <1>1, <1>8, NumbersKept
<1> QED BY <1>2, <1>4, <1>5, <1>6, <1>7, <1>9

LEMMA GotoIs ==
    ASSUME ApprovalTypeOK, NEW c \in Calls, NEW place \in Steps, Goto(c, place)
    PROVE  step' \in [Calls -> Steps] /\ step'[c] = place /\ \A d \in Calls \ {c} : step'[d] = step[d]
BY DEF ApprovalTypeOK, Goto

LEMMA FinalizeIs ==
    ASSUME ApprovalTypeOK, NEW c \in Calls, took[c] \in Grants, Finalize(c)
    PROVE  live' \in SUBSET live /\ held' \in [Grants -> SUBSET Calls]
BY DEF ApprovalTypeOK, Finalize

LEMMA DeleteIs ==
    ASSUME ApprovalTypeOK, NEW S, Delete(S)
    PROVE  live' \in SUBSET live /\ held' \in [Grants -> SUBSET Calls]
BY DEF ApprovalTypeOK, Delete

\* The stores of an approval do not change while a call goes from step to step.
LEMMA RestIs ==
    ASSUME ApprovalsRest
    PROVE  /\ UNCHANGED <<home, want, limits, clock, faults, runtime, storeVars, issued, owner, took>>
           /\ UNCHANGED <<astate, abind, aexp, agrant, aholder, dedupe, recent>>
BY DEF ApprovalsRest, callFacts, storeVars

\* A call that goes on with what it took, without the chain.
LEMMA GoesOn ==
    ASSUME ApprovalOK, NEW c \in Calls, NEW place \in Steps, Goto(c, place), ApprovalsRest,
           step[c] \notin Awaiting, queue' = queue, reuses' = reuses,
           live' \in SUBSET live, held' \in [Grants -> SUBSET Calls],
           place \notin {"none", "consumed", "asking"},
           place = "start" => step[c] \in {"none", "lane"},
           place = "lane" => step[c] = "none",
           place \in Holding => step[c] \in Holding,
           place = "admitted" =>
             \/ Free(c)
             \/ c \in reuses /\ step[c] \in Holding
             \/ step[c] = "consumed",
           place = "handler" => step[c] = "admitted",
           place = "done" => step[c] = "handler",
           step[c] = "reserved" => c \in reuses \/ runtime # "open"
    PROVE  ApprovalOK'
<1>1. step' \in [Calls -> Steps] /\ step'[c] = place /\ \A d \in Calls \ {c} : step'[d] = step[d]
  BY GotoIs DEF ApprovalOK
<1>2. /\ UNCHANGED <<home, want, limits, clock, faults, runtime, storeVars, issued, owner, took>>
      /\ UNCHANGED <<astate, abind, aexp, agrant, aholder, dedupe, recent>>
  BY RestIs
<1>3. TookOK(c) /\ BackedOK(c) BY TookEach, BackedEach DEF ApprovalOK, ApprovalInv
<1>4. Free(c)' <=> Free(c) BY <1>2 DEF Free
<1>5. took[c] \in {0} \cup Grants /\ took' \in [Calls -> {0} \cup Grants] BY <1>2 DEF ApprovalOK, ApprovalTypeOK
<1>6. issued[took[c]] # 0 \/ took[c] = 0 BY <1>3 DEF TookOK
<1>7. TookOK(c)' BY <1>1, <1>2, <1>3, <1>4 DEF TookOK, Holding
<1>8. BackedOK(c)'
  <2>1. CASE place = "admitted" /\ Free(c) BY <2>1, <1>4 DEF BackedOK
  <2>2. CASE place = "admitted" /\ c \in reuses /\ step[c] \in Holding
    BY <2>2, <1>1, <1>2, <1>3 DEF TookOK, BackedOK
  <2>3. CASE place = "admitted" /\ step[c] = "consumed"
    BY <2>3, <1>1, <1>2, <1>3 DEF TookOK, BackedOK, Holding
  <2>4. CASE place \in {"handler", "done"} BY <2>4, <1>1, <1>2, <1>3, <1>4 DEF BackedOK
  <2>5. CASE place \notin {"admitted", "handler", "done"} BY <2>5, <1>1 DEF BackedOK
  <2> QED BY <2>1, <2>2, <2>3, <2>4, <2>5
<1>9. queue' \in Seq(Ops) /\ AwaitsExact' /\ OwnerExact' /\ ChainExact' BY <1>1, <1>2, CallGoes
<1>10. reuses' \in SUBSET Calls BY DEF ApprovalOK, ApprovalTypeOK
<1>11. step[c] \in {"reserved", "consuming", "burning", "burningOn"} /\ runtime = "open" => c \in reuses
  BY DEF Awaiting
<1>12. step'[c] \in {"none", "lane", "start", "asking"} => step[c] \in {"none", "lane", "start", "asking"} BY <1>1
<1> QED BY <1>1, <1>2, <1>5, <1>7, <1>8, <1>9, <1>10, <1>11, <1>12, CallKeeps

\* A call that asks the chain for something about the grant it took.
LEMMA Asks ==
    ASSUME ApprovalOK, NEW c \in Calls, NEW place \in {"consuming", "burning", "burningOn", "unwinding"},
           Goto(c, place), ApprovalsRest, step[c] \in Holding \ Awaiting, reuses' = reuses,
           Later(Op(IF place = "consuming" THEN "consume" ELSE "burn", c, took[c], clock)),
           live' \in SUBSET live, held' \in [Grants -> SUBSET Calls],
           place = "unwinding" => step[c] # "reserved"
    PROVE  ApprovalOK'
<1> DEFINE kind == IF place = "consuming" THEN "consume" ELSE "burn"
           op == Op(kind, c, took[c], clock)
<1>1. step' \in [Calls -> Steps] /\ step'[c] = place /\ \A d \in Calls \ {c} : step'[d] = step[d]
  BY GotoIs DEF ApprovalOK, Steps, Holding
<1>2. /\ UNCHANGED <<home, want, limits, clock, faults, runtime, storeVars, issued, owner, took>>
      /\ UNCHANGED <<astate, abind, aexp, agrant, aholder, dedupe, recent>>
  BY RestIs
<1>3. TookOK(c) /\ BackedOK(c) BY TookEach, BackedEach DEF ApprovalOK, ApprovalInv
<1>5. took[c] \in Grants /\ took' \in [Calls -> {0} \cup Grants] /\ clock \in Nat
  BY <1>2, <1>3 DEF ApprovalOK, ApprovalTypeOK, TookOK
<1>7. TookOK(c)'
  <2>1. took[c] # 0 /\ place \notin {"none", "lane", "start", "asking", "admitted", "handler", "done", "consumed"}
    BY <1>3 DEF TookOK
  <2> QED BY <2>1, <1>1, <1>2, <1>3 DEF TookOK
<1>8. BackedOK(c)' BY <1>1 DEF BackedOK
<1>6. op \in Ops /\ op.who = c /\ op.kind = kind /\ op.ref = took[c] BY <1>5 DEF Op, Ops
<1>9. queue' \in Seq(Ops) /\ AwaitsExact' /\ OwnerExact' /\ ChainExact'
  <2>1. [kind |-> op.kind, ref |-> op.ref] = CallOp(c)' BY <1>1, <1>2, <1>6 DEF CallOp
  <2>2. queue' = Append(queue, op) BY DEF Later
  <2>3. step'[c] \in Awaiting /\ step[c] \notin Awaiting /\ op.kind # "request" BY <1>1, <1>6 DEF Awaiting
  <2> HIDE DEF op
  <2> QED BY <2>1, <2>2, <2>3, <1>1, <1>2, <1>6, CallAsks
<1>10. reuses' \in SUBSET Calls BY DEF ApprovalOK, ApprovalTypeOK
<1>11. step[c] \in {"reserved", "consuming", "burning", "burningOn"} /\ runtime = "open" =>
          took'[c] = took[c] /\ step'[c] \in {"consuming", "burning", "burningOn"}
  BY <1>1, <1>2 DEF Awaiting
<1>12. step'[c] \notin {"none", "lane", "start", "asking"} BY <1>1
<1> QED BY <1>1, <1>2, <1>5, <1>7, <1>8, <1>9, <1>10, <1>11, <1>12, CallKeeps

\* reserveMatching: a grant of the binding of the call, and none that is spent.
LEMMA ReserveKeeps ==
    ASSUME ApprovalOK, NEW c \in Calls, Reserve(c)
    PROVE  ApprovalOK'
<1> USE DEF ApprovalOK, ApprovalInv
<1> DEFINE T == Matching(c)
           g == Least(T)
           again == \E i \in Ids : agrant[i] = g /\ astate[i] = "consumed" /\ ~OneUse(g)
           op == Op("reserve", c, g, clock)
<1>1. live \in SUBSET Grants BY DEF ApprovalTypeOK
<1>2. T # {} /\ T \in SUBSET Nat /\ \A h \in T : h \in live /\ abind[issued[h]] = want[c]
  BY <1>1, Finite DEF Reserve, Matching
<1>3. g \in T
  <2> HIDE DEF T
  <2> QED BY <1>2, LeastIs
<1>4. g \in live /\ g \in Grants /\ g # 0 /\ abind[issued[g]] = want[c] BY <1>1, <1>2, <1>3, Finite
<1>5. issued[g] # 0 /\ \A i \in Ids : agrant[i] = g => issued[g] = i BY <1>4 DEF GrantsExact
<1>6. /\ UNCHANGED <<home, want, limits, clock, faults, runtime, storeVars, issued, owner>>
      /\ UNCHANGED <<astate, abind, aexp, agrant, aholder, dedupe, recent>>
      /\ step[c] = "start" /\ runtime = "open"
      /\ live' \in SUBSET live
      /\ held' = [h \in Grants |-> IF h = g THEN {c} ELSE IF h \in Stale THEN {} ELSE held[h]]
      /\ took' = [took EXCEPT ![c] = g]
  BY DEF Reserve, callFacts, storeVars
<1>7. \/ again /\ Goto(c, "reserved") /\ reuses' = reuses \cup {c} /\ queue' = queue
      \/ Goto(c, "marking") /\ Later(op) /\ reuses' = reuses
  BY DEF Reserve
<1> HIDE DEF T, g
<1>8. held' \in [Grants -> SUBSET Calls]
  <2>1. held \in [Grants -> SUBSET Calls] BY DEF ApprovalTypeOK
  <2> QED BY <2>1, <1>6
<1>9. took' \in [Calls -> {0} \cup Grants] /\ took'[c] = g /\ \A d \in Calls \ {c} : took'[d] = took[d]
  BY <1>4, <1>6 DEF ApprovalTypeOK
<1>10. reuses \in SUBSET Calls BY DEF ApprovalTypeOK
<1>11. TookOK(c) BY TookEach
<1>12. step[c] \notin Awaiting /\ c \notin reuses BY <1>6, <1>11 DEF Awaiting, TookOK
<1>13. CASE again /\ Goto(c, "reserved") /\ reuses' = reuses \cup {c} /\ queue' = queue
  <2>1. step' \in [Calls -> Steps] /\ step'[c] = "reserved" /\ \A d \in Calls \ {c} : step'[d] = step[d]
    BY <1>13, GotoIs DEF Steps, Holding
  <2>2. astate[issued[g]] = "consumed" /\ Risk[want[c]] # "R3" BY <1>4, <1>5, <1>13 DEF OneUse
  <2>3. TookOK(c)'
    BY <2>1, <2>2, <1>4, <1>5, <1>6, <1>9 DEF TookOK
  <2>4. BackedOK(c)' BY <2>1 DEF BackedOK
  <2>5. queue' \in Seq(Ops) /\ AwaitsExact' /\ OwnerExact' /\ ChainExact' BY <2>1, <1>6, <1>9, <1>12, <1>13, CallGoes
  <2>6. reuses' \in SUBSET Calls /\ \A d \in Calls \ {c} : d \in reuses' <=> d \in reuses BY <1>10, <1>13
  <2>7. ApprovalOK OBVIOUS
  <2> HIDE DEF ApprovalOK, ApprovalInv
  <2> QED BY <2>1, <2>3, <2>4, <2>5, <2>6, <2>7, <1>6, <1>8, <1>9, CallKeeps
<1>14. CASE Goto(c, "marking") /\ Later(op) /\ reuses' = reuses
  <2>1. step' \in [Calls -> Steps] /\ step'[c] = "marking" /\ \A d \in Calls \ {c} : step'[d] = step[d]
    BY <1>14, GotoIs DEF Steps, Holding
  <2>3. TookOK(c)' BY <2>1, <1>4, <1>5, <1>6, <1>9, <1>12, <1>14 DEF TookOK
  <2>4. BackedOK(c)' BY <2>1 DEF BackedOK
  <2>5. op \in Ops /\ op.who = c /\ op.kind = "reserve" /\ op.ref = g
    <3>1. clock \in Nat BY DEF ApprovalTypeOK
    <3> QED BY <3>1, <1>4 DEF Op, Ops
  <2>6. queue' \in Seq(Ops) /\ AwaitsExact' /\ OwnerExact' /\ ChainExact'
    <3>1. [kind |-> op.kind, ref |-> op.ref] = CallOp(c)' BY <2>1, <2>5, <1>9 DEF CallOp
    <3>2. queue' = Append(queue, op) BY <1>14 DEF Later
    <3>3. step'[c] \in Awaiting /\ op.kind # "request" BY <2>1, <2>5 DEF Awaiting
    <3>4. ApprovalOK OBVIOUS
    <3> HIDE DEF op, ApprovalOK, ApprovalInv
    <3> QED BY <3>1, <3>2, <3>3, <3>4, <2>1, <2>5, <1>6, <1>9, <1>12, CallAsks
  <2>7. ApprovalOK /\ reuses' \in SUBSET Calls /\ \A d \in Calls \ {c} : d \in reuses' <=> d \in reuses BY <1>10, <1>14
  <2> HIDE DEF ApprovalOK, ApprovalInv
  <2> QED BY <2>1, <2>3, <2>4, <2>6, <2>7, <1>6, <1>8, <1>9, CallKeeps
<1> QED BY <1>7, <1>13, <1>14

\* No grant fits: the call asks.
LEMMA AskKeeps ==
    ASSUME ApprovalOK, NEW c \in Calls, Ask(c)
    PROVE  ApprovalOK'
<1> DEFINE op == Op("request", c, want[c], clock)
<1>1. step' \in [Calls -> Steps] /\ step'[c] = "asking" /\ \A d \in Calls \ {c} : step'[d] = step[d]
  BY GotoIs DEF ApprovalOK, Steps, Ask
<1>2. /\ UNCHANGED <<home, want, limits, clock, faults, runtime, storeVars, issued, owner, took>>
      /\ UNCHANGED <<astate, abind, aexp, agrant, aholder, dedupe, recent>>
  BY RestIs DEF Ask
<1>3. /\ step[c] = "start" /\ runtime = "open" /\ ~Free(c) /\ reuses' = reuses
      /\ Later(op) /\ Delete(Stale)
  BY DEF Ask
<1>4. TookOK(c) BY TookEach DEF ApprovalOK, ApprovalInv
<1>5. took' \in [Calls -> {0} \cup Grants] /\ clock \in Nat /\ want[c] \in Bindings
  BY <1>2 DEF ApprovalOK, ApprovalTypeOK
<1>6. live' \in SUBSET live /\ held' \in [Grants -> SUBSET Calls] BY <1>3, DeleteIs DEF ApprovalOK
<1>7. TookOK(c)' BY <1>1, <1>2, <1>3, <1>4 DEF TookOK, Holding
<1>8. BackedOK(c)' BY <1>1 DEF BackedOK
<1>9. op \in Ops /\ op.who = c /\ op.kind = "request" /\ op.ref = want[c] BY <1>3, <1>5 DEF Op, Ops, Free
<1>10. queue' \in Seq(Ops) /\ AwaitsExact' /\ OwnerExact' /\ ChainExact'
  <2>1. [kind |-> op.kind, ref |-> op.ref] = CallOp(c)' BY <1>1, <1>2, <1>9 DEF CallOp
  <2>2. queue' = Append(queue, op) BY <1>3 DEF Later
  <2>3. step'[c] \in Awaiting /\ step[c] \notin Awaiting BY <1>1, <1>3 DEF Awaiting
  <2> HIDE DEF op
  <2> QED BY <2>1, <2>2, <2>3, <1>1, <1>2, <1>3, <1>9, CallAsks
<1>11. reuses' \in SUBSET Calls BY <1>3 DEF ApprovalOK, ApprovalTypeOK
<1> HIDE DEF op
<1> QED BY <1>1, <1>2, <1>3, <1>5, <1>6, <1>7, <1>8, <1>10, <1>11, CallKeeps

\* The Policy Kernel keeps the invariant.
LEMMA KernelKeeps ==
    ASSUME ApprovalOK, NEW c \in Calls, Kernel(c)
    PROVE  ApprovalOK'
<1>1. ApprovalTypeOK /\ TookOK(c) BY TookEach DEF ApprovalOK, ApprovalInv
<1>2. took[c] \in {0} \cup Grants /\ (step[c] \in Holding => took[c] \in Grants)
  BY <1>1 DEF ApprovalTypeOK, TookOK
<1>3. live' = live /\ held' = held => live' \in SUBSET live /\ held' \in [Grants -> SUBSET Calls]
  BY <1>1 DEF ApprovalTypeOK
<1>4. CASE Decide(c)
  <2>1. CASE Free(c) /\ Goto(c, "admitted") BY <1>3, <1>4, <2>1, GoesOn DEF Decide, Steps, Holding, Awaiting
  <2>2. CASE Goto(c, "refused") BY <1>3, <1>4, <2>2, GoesOn DEF Decide, Steps, Holding, Awaiting
  <2> QED BY <1>4, <2>1, <2>2 DEF Decide
<1>5. CASE Reserve(c) BY <1>5, ReserveKeeps
<1>6. CASE Ask(c) BY <1>6, AskKeeps
<1>7. CASE Unreserve(c)
  <2>1. step[c] \in Holding BY <1>7 DEF Unreserve, Holding
  <2>2. live' \in SUBSET live /\ held' \in [Grants -> SUBSET Calls] BY <1>1, <1>2, <1>7, <2>1, FinalizeIs DEF Unreserve
  <2> QED BY <1>7, <2>2, GoesOn DEF Unreserve, Steps, Holding, Awaiting
<1>8. CASE Burn(c)
  <2>1. step[c] = "reserved" /\ step[c] \in Holding \ Awaiting /\ reuses' = reuses /\ ApprovalsRest
    BY <1>8 DEF Burn, Holding, Awaiting
  <2>2. PICK bestEffort \in BOOLEAN :
          \/ /\ runtime # "open" \/ c \in reuses
             /\ IF runtime = "open" THEN Finalize(c) ELSE UNCHANGED <<live, held>>
             /\ Goto(c, IF bestEffort THEN "authorized" ELSE "refused")
             /\ UNCHANGED queue
          \/ /\ runtime = "open" /\ c \notin reuses
             /\ Delete({took[c]})
             /\ Later(Op("burn", c, took[c], clock))
             /\ Goto(c, IF bestEffort THEN "burningOn" ELSE "burning")
    BY <1>8 DEF Burn
  <2>3. CASE /\ runtime # "open" \/ c \in reuses
             /\ IF runtime = "open" THEN Finalize(c) ELSE UNCHANGED <<live, held>>
             /\ Goto(c, IF bestEffort THEN "authorized" ELSE "refused")
             /\ UNCHANGED queue
    <3>1. live' \in SUBSET live /\ held' \in [Grants -> SUBSET Calls] BY <2>1, <2>3, <1>1, <1>2, <1>3, FinalizeIs
    <3> DEFINE place == IF bestEffort THEN "authorized" ELSE "refused"
    <3>2. place \in Steps /\ place \in {"authorized", "refused"} /\ Goto(c, place) BY <2>3 DEF Steps, Holding
    <3> HIDE DEF place
    <3> QED BY <2>1, <2>3, <3>1, <3>2, GoesOn DEF Holding
  <2>4. CASE /\ runtime = "open" /\ c \notin reuses
             /\ Delete({took[c]})
             /\ Later(Op("burn", c, took[c], clock))
             /\ Goto(c, IF bestEffort THEN "burningOn" ELSE "burning")
    <3>1. live' \in SUBSET live /\ held' \in [Grants -> SUBSET Calls] BY <2>4, <1>1, DeleteIs
    <3> DEFINE place == IF bestEffort THEN "burningOn" ELSE "burning"
    <3>2. place \in {"burning", "burningOn"} /\ Goto(c, place) BY <2>4
    <3> HIDE DEF place
    <3>3. Later(Op(IF place = "consuming" THEN "consume" ELSE "burn", c, took[c], clock)) BY <2>4, <3>2
    <3> QED BY <2>1, <3>1, <3>2, <3>3, Asks
  <2> QED BY <2>2, <2>3, <2>4
<1>9. CASE Consume(c)
  <2>1. step[c] \in {"reserved", "authorized"} /\ step[c] \in Holding \ Awaiting /\ reuses' = reuses /\ ApprovalsRest
    BY <1>9 DEF Consume, Holding, Awaiting
  <2>2. CASE runtime # "open" /\ Goto(c, "refused") /\ UNCHANGED <<live, held, queue>>
    BY <2>1, <2>2, <1>3, GoesOn DEF Steps, Holding
  <2>3. CASE /\ runtime = "open" /\ c \in reuses
             /\ Goto(c, IF c \in held[took[c]] THEN "admitted" ELSE "refused")
             /\ Finalize(c)
             /\ UNCHANGED queue
    <3>1. live' \in SUBSET live /\ held' \in [Grants -> SUBSET Calls] BY <2>1, <2>3, <1>1, <1>2, FinalizeIs
    <3> DEFINE place == IF c \in held[took[c]] THEN "admitted" ELSE "refused"
    <3>2. place \in Steps /\ place \in {"admitted", "refused"} /\ Goto(c, place) BY <2>3 DEF Steps
    <3> HIDE DEF place
    <3> QED BY <2>1, <2>3, <3>1, <3>2, GoesOn DEF Holding
  <2>4. CASE /\ runtime = "open" /\ c \notin reuses
             /\ Goto(c, "consuming")
             /\ Later(Op("consume", c, took[c], clock))
             /\ UNCHANGED <<live, held>>
    BY <2>1, <2>4, <1>3, Asks
  <2> QED BY <1>9, <2>2, <2>3, <2>4 DEF Consume
<1>10. CASE Consumed(c)
  <2>1. step[c] = "consumed" /\ step[c] \in Holding \ Awaiting /\ reuses' = reuses /\ queue' = queue /\ ApprovalsRest
    BY <1>10 DEF Consumed, Holding, Awaiting
  <2>2. live' \in SUBSET live /\ held' \in [Grants -> SUBSET Calls] BY <2>1, <1>1, <1>2, <1>10, FinalizeIs DEF Consumed
  <2> DEFINE place == IF c \in held[took[c]] THEN "admitted" ELSE "unconsumed"
  <2>3. place \in Steps /\ place \in {"admitted", "unconsumed"} /\ Goto(c, place)
    BY <1>10 DEF Consumed, Steps, Holding
  <2> HIDE DEF place
  <2> QED BY <2>1, <2>2, <2>3, GoesOn
<1>11. CASE Unwind(c)
  <2>1. step[c] = "unconsumed" /\ step[c] \in Holding \ Awaiting /\ reuses' = reuses /\ ApprovalsRest
    BY <1>11 DEF Unwind, Holding, Awaiting
  <2>2. live' \in SUBSET live /\ held' \in [Grants -> SUBSET Calls] BY <1>1, <1>11, DeleteIs DEF Unwind
  <2>3. Goto(c, "unwinding") /\ Later(Op("burn", c, took[c], clock)) BY <1>11 DEF Unwind
  <2> QED BY <2>1, <2>2, <2>3, Asks
<1>12. CASE Handle(c)
  <2>1. CASE Goto(c, "handler") BY <1>3, <1>12, <2>1, GoesOn DEF Handle, Steps, Holding, Awaiting
  <2>2. CASE Goto(c, "refused") BY <1>3, <1>12, <2>2, GoesOn DEF Handle, Steps, Holding, Awaiting
  <2> QED BY <1>12, <2>1, <2>2 DEF Handle
<1>13. CASE HandlerEnds(c) BY <1>3, <1>13, GoesOn DEF HandlerEnds, Steps, Holding, Awaiting
<1> QED BY <1>4, <1>5, <1>6, <1>7, <1>8, <1>9, <1>10, <1>11, <1>12, <1>13 DEF Kernel

-----------------------------------------------------------------------------
(* The owner, the clock and the shutdown                                    *)

\* What is left to show of a step that moves no call and no approval.
LEMMA RestKeeps ==
    ASSUME ApprovalOK,
           UNCHANGED <<want, limits, faults, astate, abind, aexp, agrant, aholder, dedupe, step, took, reuses>>,
           clock' \in Nat, recent' \in [Sessions -> Nat], runtime' \in {"open", "closing", "swept", "closed"},
           runtime' = "open" => runtime = "open",
           runtime' \in {"swept", "closed"} => runtime \in {"swept", "closed"},
           owner' \in OwnerStates, queue' \in Seq(Ops) /\ AwaitsExact' /\ OwnerExact' /\ ChainExact',
           issued' \in [Grants -> {0} \cup Ids], \A g \in Grants : issued[g] # 0 => issued'[g] = issued[g],
           \A g \in Grants : issued'[g] # 0 => astate[issued'[g]] # "none",
           live' \in SUBSET Grants, \A g \in live' : issued'[g] # 0, held' \in [Grants -> SUBSET Calls],
           NumbersLeft'
    PROVE  ApprovalOK'
<1> USE DEF ApprovalOK, ApprovalInv
<1>1. ApprovalTypeOK' BY DEF ApprovalTypeOK
<1>2. StoreGrows BY DEF StoreGrows
<1>3. TookExact' /\ ExecutionBacked'
  <2>1. \A c \in Calls : TookOK(c) /\ BackedOK(c) BY TookEach, BackedEach
  <2>2. \A c \in Calls : TookOK(c)' /\ BackedOK(c)' BY <2>1, <1>2, CallStays
  <2> QED BY <2>2 DEF TookExact, ExecutionBacked, TookOK, BackedOK
<1>4. GrantsExact'
  <2>1. \A i \in Ids : agrant[i] # 0 => agrant[i] \in Grants /\ issued[agrant[i]] = i /\ i # 0
    BY Finite DEF ApprovalTypeOK, GrantsExact
  <2>2. \A i \in Ids : agrant[i] # 0 => issued'[agrant[i]] = i BY <2>1
  <2> QED BY <2>2 DEF GrantsExact
<1>5. DedupeExact' BY DEF DedupeExact, IsActive
<1>6. ReservationsKept'
  <2>1. \A i \in Ids : Used(i)' <=> Used(i) BY DEF Used
  <2> QED BY <2>1 DEF ReservationsKept, IsActive
<1> QED BY <1>1, <1>3, <1>4, <1>5, <1>6

\* One who is not a call puts an operation on the chain.
LEMMA OtherAsks ==
    ASSUME ApprovalOK, NEW op \in Ops, op.who \in {"owner", "reader", "runtime"}, queue' = Append(queue, op),
           UNCHANGED <<want, step, took>>,
           op.who = "owner" =>
             /\ owner.pc \notin {"expiring", "denying", "preparing", "approving"}
             /\ owner'.pc = CASE op.kind = "expire"  -> "expiring"
                              [] op.kind = "deny"    -> "denying"
                              [] op.kind = "prepare" -> "preparing"
                              [] OTHER               -> "approving"
             /\ op.kind # "expire" => op.ref = owner'.id,
           op.who # "owner" => owner' = owner,
           op.who = "runtime" => runtime = "open" /\ runtime' = "closing",
           op.who # "runtime" => runtime' = runtime,
           owner'.pc # "idle" => owner'.id # 0 /\ astate'[owner'.id] # "none",
           owner'.pc \in {"approving", "withdrawing"} => owner'.grant # 0 /\ issued'[owner'.grant] = owner'.id
    PROVE  queue' \in Seq(Ops) /\ AwaitsExact' /\ OwnerExact' /\ ChainExact'
<1> USE DEF ApprovalOK, ApprovalInv
<1>1. queue \in Seq(Ops) BY DEF ApprovalTypeOK
<1> DEFINE n == Len(queue) + 1
<1>2. /\ queue' \in Seq(Ops)
      /\ DOMAIN queue' = 1..n /\ DOMAIN queue = 1..Len(queue) /\ Len(queue) \in Nat
      /\ queue'[n] = op
      /\ \A k \in DOMAIN queue : k \in DOMAIN queue' /\ queue'[k] = queue[k]
  BY <1>1, Appended
<1>3. \A k \in DOMAIN queue' : k = n \/ (k \in DOMAIN queue /\ queue'[k] = queue[k] /\ k < n) BY <1>2
<1>4. op.who \notin Calls /\ (op.kind = "close" <=> op.who = "runtime") /\ op.kind # "request"
  BY OthersAssumption, OpIs
<1> HIDE DEF n
<1>5. AwaitsExact'
  <2>1. \A k \in DOMAIN queue' : queue'[k].who \in Calls => k \in DOMAIN queue /\ queue'[k] = queue[k]
    BY <1>2, <1>3, <1>4
  <2>2. ASSUME NEW j \in DOMAIN queue', NEW k \in DOMAIN queue', queue'[j].who = queue'[k].who, queue'[j].who \in Calls
        PROVE  j = k
    <3>1. j \in DOMAIN queue /\ k \in DOMAIN queue /\ queue[j].who = queue[k].who /\ queue[j].who \in Calls BY <2>1, <2>2
    <3> QED BY <3>1 DEF AwaitsExact
  <2>3. ASSUME NEW k \in DOMAIN queue', NEW c \in Calls, queue'[k].who = c
        PROVE  step'[c] \in Awaiting /\ [kind |-> queue'[k].kind, ref |-> queue'[k].ref] = CallOp(c)'
    <3>1. k \in DOMAIN queue /\ queue'[k] = queue[k] BY <2>1, <2>3
    <3>2. step[c] \in Awaiting /\ [kind |-> queue[k].kind, ref |-> queue[k].ref] = CallOp(c) BY <3>1, <2>3 DEF AwaitsExact
    <3>3. CallOp(c)' = CallOp(c) BY DEF CallOp
    <3> QED BY <3>1, <3>2, <3>3
  <2>4. \A k \in DOMAIN queue' : queue'[k].who \in Calls =>
          LET d == queue'[k].who IN
          step'[d] \in Awaiting
          /\ [kind |-> queue'[k].kind, ref |-> queue'[k].ref] =
               CASE step'[d] = "asking"    -> [kind |-> "request", ref |-> want'[d]]
                 [] step'[d] = "marking"   -> [kind |-> "reserve", ref |-> took'[d]]
                 [] step'[d] = "consuming" -> [kind |-> "consume", ref |-> took'[d]]
                 [] OTHER                  -> [kind |-> "burn", ref |-> took'[d]]
    BY <2>3 DEF CallOp
  <2> QED BY <2>2, <2>4 DEF AwaitsExact, CallOp
<1>6. OwnerExact'
  <2>1. CASE op.who = "owner"
    <3>1. \A k \in DOMAIN queue : queue[k].who # "owner" BY <2>1 DEF OwnerExact
    <3>2. \A k \in DOMAIN queue' : queue'[k].who = "owner" => k = n BY <3>1, <1>3
    <3>3. \A k \in DOMAIN queue' : queue'[k].who = "owner" => queue'[k] = op BY <3>2, <1>2
    <3>4. \A j, k \in DOMAIN queue' : queue'[j].who = "owner" /\ queue'[k].who = "owner" => j = k BY <3>2
    <3> QED BY <2>1, <3>3, <3>4 DEF OwnerExact
  <2>2. CASE op.who # "owner"
    <3>1. \A k \in DOMAIN queue' : queue'[k].who = "owner" => k \in DOMAIN queue /\ queue'[k] = queue[k]
      BY <2>2, <1>2, <1>3
    <3> QED BY <2>2, <3>1 DEF OwnerExact
  <2> QED BY <2>1, <2>2
<1>7. ChainExact'
  <2>1. CASE op.who = "runtime"
    <3>1. \A k \in DOMAIN queue : queue[k].kind # "close" BY <2>1 DEF ChainExact
    <3>2. \A k \in DOMAIN queue' : queue'[k].kind = "close" => k = n BY <3>1, <1>3
    <3>3. \A k \in DOMAIN queue' : queue'[k].kind = "request" => k < n BY <1>2, <1>3, <1>4
    <3> QED BY <2>1, <3>2, <3>3 DEF ChainExact
  <2>2. CASE op.who # "runtime"
    <3>1. \A k \in DOMAIN queue' : queue'[k].kind \in {"close", "request"} => k \in DOMAIN queue /\ queue'[k] = queue[k]
      BY <2>2, <1>2, <1>3, <1>4
    <3> QED BY <2>2, <3>1 DEF ChainExact
  <2> QED BY <2>1, <2>2
<1> QED BY <1>2, <1>5, <1>6, <1>7

\* The owner goes on without the chain.
LEMMA OwnerGoes ==
    ASSUME ApprovalOK, queue' = queue, UNCHANGED <<want, step, took, runtime>>,
           owner.pc \notin {"expiring", "denying", "preparing", "approving"},
           owner'.pc # "idle" => owner'.id # 0 /\ astate'[owner'.id] # "none",
           owner'.pc \in {"approving", "withdrawing"} => owner'.grant # 0 /\ issued'[owner'.grant] = owner'.id
    PROVE  queue' \in Seq(Ops) /\ AwaitsExact' /\ OwnerExact' /\ ChainExact'
<1> USE DEF ApprovalOK, ApprovalInv
<1>1. queue' \in Seq(Ops) BY DEF ApprovalTypeOK
<1>2. \A c \in Calls : CallOp(c)' = CallOp(c) BY DEF CallOp
<1>3. AwaitsExact' BY <1>2 DEF AwaitsExact, CallOp
<1>4. \A k \in DOMAIN queue : queue[k].who # "owner" BY DEF OwnerExact
<1>5. OwnerExact' BY <1>4 DEF OwnerExact
<1>6. ChainExact' BY DEF ChainExact
<1> QED BY <1>1, <1>3, <1>5, <1>6

\* No grant is issued: there is a number left when what was settled still is.
LEMMA NumbersStay ==
    ASSUME ApprovalOK, UNCHANGED <<astate, step, faults, issued>>, Settled \subseteq Settled'
    PROVE  NumbersLeft'
<1>1. faults \in Nat BY DEF ApprovalOK, ApprovalTypeOK
<1> QED BY <1>1, NumbersKept DEF ApprovalOK, ApprovalInv

\* What the owner's steps leave alone.
LEMMA OwnerRestIs ==
    ASSUME ApprovalOK, OwnerRest
    PROVE  /\ UNCHANGED <<home, want, limits, clock, faults, runtime, step, took, reuses>>
           /\ UNCHANGED <<astate, abind, aexp, agrant, aholder, dedupe, recent>>
           /\ clock' \in Nat /\ recent' \in [Sessions -> Nat] /\ runtime' \in {"open", "closing", "swept", "closed"}
           /\ owner \in OwnerStates /\ owner.id \in {0} \cup Ids /\ clock \in Nat /\ owner.at \in Nat
           /\ owner.pc # "idle" => owner.id \in Ids /\ astate[owner.id] # "none"
<1>1. /\ UNCHANGED <<home, want, limits, clock, faults, runtime, step, took, reuses>>
      /\ UNCHANGED <<astate, abind, aexp, agrant, aholder, dedupe, recent>>
  BY DEF OwnerRest, callFacts, storeVars, callVars
<1>2. clock \in Nat /\ recent \in [Sessions -> Nat] /\ runtime \in {"open", "closing", "swept", "closed"} /\ owner \in OwnerStates
  BY DEF ApprovalOK, ApprovalTypeOK
<1>3. owner.id \in {0} \cup Ids /\ owner.at \in Nat BY <1>2 DEF OwnerStates
<1>4. owner.pc # "idle" => owner.id \in Ids /\ astate[owner.id] # "none" BY <1>3 DEF ApprovalOK, ApprovalInv, OwnerExact
<1> QED BY <1>1, <1>2, <1>3, <1>4

\* The grants as they were.
LEMMA GrantsAre ==
    ASSUME ApprovalOK
    PROVE  /\ issued \in [Grants -> {0} \cup Ids] /\ live \in SUBSET Grants /\ held \in [Grants -> SUBSET Calls]
           /\ \A g \in Grants : issued[g] # 0 => astate[issued[g]] # "none"
           /\ \A g \in live : issued[g] # 0
           /\ Idle \in OwnerStates /\ Idle.pc = "idle" 
BY DEF ApprovalOK, ApprovalInv, ApprovalTypeOK, GrantsExact, Idle, OwnerStates

\* The owner's steps but Issue: the grants, if anything, go.
LEMMA OwnerKeeps ==
    ASSUME ApprovalOK, OwnerRest, issued' = issued, live' \in SUBSET live, held' \in [Grants -> SUBSET Calls],
           owner' \in OwnerStates, queue' \in Seq(Ops) /\ AwaitsExact' /\ OwnerExact' /\ ChainExact',
           Settled \subseteq Settled'
    PROVE  ApprovalOK'
<1>1. /\ UNCHANGED <<want, limits, clock, faults, runtime, step, took, reuses>>
      /\ UNCHANGED <<astate, abind, aexp, agrant, aholder, dedupe, recent>>
      /\ clock' \in Nat /\ recent' \in [Sessions -> Nat] /\ runtime' \in {"open", "closing", "swept", "closed"}
  BY OwnerRestIs
<1>2. /\ issued \in [Grants -> {0} \cup Ids] /\ live \in SUBSET Grants
      /\ \A g \in Grants : issued[g] # 0 => astate[issued[g]] # "none"
      /\ \A g \in live : issued[g] # 0
  BY GrantsAre
<1>3. NumbersLeft' BY <1>1, NumbersStay
<1>4. /\ issued' \in [Grants -> {0} \cup Ids] /\ \A g \in Grants : issued[g] # 0 => issued'[g] = issued[g]
      /\ \A g \in Grants : issued'[g] # 0 => astate[issued'[g]] # "none"
      /\ live' \in SUBSET Grants /\ \A g \in live' : issued'[g] # 0
  BY <1>2
<1> QED BY <1>1, <1>3, <1>4, RestKeeps

\* The grants do not change.
LEMMA OwnerKeepsGrants ==
    ASSUME ApprovalOK, OwnerRest, UNCHANGED grantVars,
           owner' \in OwnerStates, queue' \in Seq(Ops) /\ AwaitsExact' /\ OwnerExact' /\ ChainExact',
           Settled \subseteq Settled'
    PROVE  ApprovalOK'
<1>1. issued' = issued /\ live' \in SUBSET live /\ held' = held BY DEF grantVars
<1>2. held' \in [Grants -> SUBSET Calls] BY <1>1, GrantsAre
<1> QED BY <1>1, <1>2, OwnerKeeps

LEMMA TakeUpKeeps ==
    ASSUME ApprovalOK, NEW i \in Ids, NEW verdict \in {"approve", "deny"}, TakeUp(i, verdict)
    PROVE  ApprovalOK'
<1> DEFINE op == Op("expire", "owner", 0, clock)
<1>1. OwnerRest /\ UNCHANGED grantVars /\ owner = Idle /\ IsActive(i) /\ queue' = Append(queue, op)
      /\ owner' = [Idle EXCEPT !.pc = "expiring", !.verdict = verdict, !.id = i]
  BY DEF TakeUp, Later
<1>2. /\ UNCHANGED <<want, runtime, step, took, astate, agrant>> /\ clock \in Nat
  BY <1>1, OwnerRestIs
<1>3. owner.pc = "idle" /\ owner'.pc = "expiring" /\ owner'.id = i /\ owner' \in OwnerStates
  BY <1>1 DEF Idle, OwnerStates, Deciding
<1>4. op \in Ops /\ op.who = "owner" /\ op.kind = "expire" BY <1>2 DEF Op, Ops
<1>5. i # 0 /\ astate[i] # "none" BY <1>1, Finite DEF IsActive, Active
<1>6. Settled \subseteq Settled' BY <1>2, <1>3 DEF Settled
<1> HIDE DEF op
<1>7. queue' \in Seq(Ops) /\ AwaitsExact' /\ OwnerExact' /\ ChainExact' BY <1>1, <1>2, <1>3, <1>4, <1>5, OtherAsks
<1> QED BY <1>1, <1>3, <1>6, <1>7, OwnerKeepsGrants

LEMMA LookKeeps ==
    ASSUME ApprovalOK, Look
    PROVE  ApprovalOK'
<1> DEFINE i == owner.id
           op == Op("deny", "owner", i, clock)
<1>1. OwnerRest /\ UNCHANGED grantVars /\ owner.pc = "looking" BY DEF Look
<1>2. /\ UNCHANGED <<want, runtime, step, took, astate, agrant>> /\ clock \in Nat
      /\ owner \in OwnerStates /\ i \in Ids /\ astate[i] # "none" /\ i # 0
  BY <1>1, OwnerRestIs, Finite
<1>3. CASE owner' = [owner EXCEPT !.pc = "denying"] /\ Later(op)
  <2>1. owner' \in OwnerStates /\ owner'.pc = "denying" /\ owner'.id = i BY <1>2, <1>3 DEF OwnerStates, Deciding
  <2>2. op \in Ops /\ op.who = "owner" /\ op.kind = "deny" /\ op.ref = i BY <1>2 DEF Op, Ops
  <2>3. queue' = Append(queue, op) BY <1>3 DEF Later
  <2>4. Settled \subseteq Settled' BY <1>1, <1>2, <2>1 DEF Settled
  <2> HIDE DEF op
  <2>5. queue' \in Seq(Ops) /\ AwaitsExact' /\ OwnerExact' /\ ChainExact' BY <1>1, <1>2, <2>1, <2>2, <2>3, OtherAsks
  <2> QED BY <1>1, <2>1, <2>4, <2>5, OwnerKeepsGrants
<1>4. CASE agrant[i] = 0 /\ astate[i] \notin Terminal
           /\ owner' = [owner EXCEPT !.pc = "inspecting", !.at = clock] /\ UNCHANGED queue
  <2>1. owner' \in OwnerStates /\ owner'.pc = "inspecting" /\ owner'.id = i BY <1>2, <1>4 DEF OwnerStates, Deciding
  <2>2. Settled \subseteq Settled' BY <1>1, <1>2, <1>4, <2>1 DEF Settled
  <2>3. queue' \in Seq(Ops) /\ AwaitsExact' /\ OwnerExact' /\ ChainExact' BY <1>1, <1>2, <1>4, <2>1, OwnerGoes
  <2> QED BY <1>1, <2>1, <2>2, <2>3, OwnerKeepsGrants
<1>5. CASE owner' = Idle /\ UNCHANGED queue
  <2>1. owner' \in OwnerStates /\ owner'.pc = "idle" BY <1>5, GrantsAre
  <2>2. Settled \subseteq Settled' BY <1>1, <1>2, <2>1 DEF Settled
  <2>3. queue' \in Seq(Ops) /\ AwaitsExact' /\ OwnerExact' /\ ChainExact' BY <1>1, <1>2, <1>5, <2>1, OwnerGoes
  <2> QED BY <1>1, <2>1, <2>2, <2>3, OwnerKeepsGrants
<1> QED BY <1>3, <1>4, <1>5 DEF Look

LEMMA InspectKeeps ==
    ASSUME ApprovalOK, Inspect
    PROVE  ApprovalOK'
<1> DEFINE i == owner.id
           op == Op("prepare", "owner", i, owner.at)
<1>1. OwnerRest /\ UNCHANGED grantVars /\ owner.pc = "inspecting" BY DEF Inspect
<1>2. /\ UNCHANGED <<want, runtime, step, took, astate, agrant>> /\ owner.at \in Nat
      /\ owner \in OwnerStates /\ i \in Ids /\ astate[i] # "none" /\ i # 0
  BY <1>1, OwnerRestIs, Finite
<1>3. CASE owner' = [owner EXCEPT !.pc = "preparing"] /\ Later(op)
  <2>1. owner' \in OwnerStates /\ owner'.pc = "preparing" /\ owner'.id = i BY <1>2, <1>3 DEF OwnerStates, Deciding
  <2>2. op \in Ops /\ op.who = "owner" /\ op.kind = "prepare" /\ op.ref = i BY <1>2 DEF Op, Ops
  <2>3. queue' = Append(queue, op) BY <1>3 DEF Later
  <2>4. Settled \subseteq Settled' BY <1>1, <1>2, <2>1 DEF Settled
  <2> HIDE DEF op
  <2>5. queue' \in Seq(Ops) /\ AwaitsExact' /\ OwnerExact' /\ ChainExact' BY <1>1, <1>2, <2>1, <2>2, <2>3, OtherAsks
  <2> QED BY <1>1, <2>1, <2>4, <2>5, OwnerKeepsGrants
<1>4. CASE owner' = Idle /\ UNCHANGED queue
  <2>1. owner' \in OwnerStates /\ owner'.pc = "idle" BY <1>4, GrantsAre
  <2>2. Settled \subseteq Settled' BY <1>1, <1>2, <2>1 DEF Settled
  <2>3. queue' \in Seq(Ops) /\ AwaitsExact' /\ OwnerExact' /\ ChainExact' BY <1>1, <1>2, <1>4, <2>1, OwnerGoes
  <2> QED BY <1>1, <2>1, <2>2, <2>3, OwnerKeepsGrants
<1> QED BY <1>3, <1>4 DEF Inspect

\* There is a number left for the grant, and it settles the approval.
LEMMA IssueKeeps ==
    ASSUME ApprovalOK, Issue
    PROVE  ApprovalOK'
<1> DEFINE T == {h \in Grants : issued[h] = 0}
           G == {h \in Grants : issued[h] # 0}
           g == Least(T)
           i == owner.id
           op == Op("approve", "owner", i, owner.at)
<1>1. /\ OwnerRest /\ owner.pc = "issuing" /\ held' = held
      /\ issued' = [issued EXCEPT ![g] = i] /\ live' = live \cup {g}
      /\ owner' = [owner EXCEPT !.pc = "approving", !.grant = g] /\ queue' = Append(queue, op)
  BY DEF Issue, Later
<1>2. /\ UNCHANGED <<want, limits, clock, faults, runtime, step, took, reuses>>
      /\ UNCHANGED <<astate, abind, aexp, agrant, aholder, dedupe, recent>>
      /\ clock' \in Nat /\ recent' \in [Sessions -> Nat] /\ runtime' \in {"open", "closing", "swept", "closed"}
      /\ owner.at \in Nat /\ owner \in OwnerStates /\ i \in Ids /\ astate[i] # "none" /\ i # 0
  BY <1>1, OwnerRestIs, Finite
<1>3. /\ issued \in [Grants -> {0} \cup Ids] /\ live \in SUBSET Grants /\ held \in [Grants -> SUBSET Calls]
      /\ \A h \in Grants : issued[h] # 0 => astate[issued[h]] # "none"
      /\ \A h \in live : issued[h] # 0
  BY GrantsAre
<1>4. faults \in Nat /\ faults <= MaxFaults /\ MaxFaults \in Nat
  <2>1. faults \in 0..limits.faults /\ limits.faults \in 0..MaxFaults BY DEF ApprovalOK, ApprovalTypeOK
  <2> QED BY <2>1, ApprovalAssumption
<1>5. Settled \in SUBSET Ids /\ i \notin Settled BY <1>1 DEF Settled
<1>6. Cardinality(Settled \cup {i}) = Cardinality(Settled) + 1 /\ Cardinality(Settled) \in Nat
      /\ Cardinality(Settled \cup {i}) <= Cardinality(Calls) /\ Cardinality(Calls) \in Nat
      /\ IsFiniteSet(Settled \cup {i})
  <2>1. IsFiniteSet(Settled) /\ Cardinality(Settled) \in Nat BY <1>5, Finite
  <2>2. Cardinality(Settled \cup {i}) = Cardinality(Settled) + 1 BY <2>1, <1>5, FS_AddElement
  <2>3. Settled \cup {i} \in SUBSET Ids /\ Ids \in SUBSET Ids BY <1>2, <1>5
  <2>4. IsFiniteSet(Ids) /\ Cardinality(Ids) = Cardinality(Calls) /\ Cardinality(Calls) \in Nat BY <2>3, Finite
  <2>5. IsFiniteSet(Settled \cup {i}) BY <2>3, Finite
  <2>6. Cardinality(Settled \cup {i}) <= Cardinality(Ids) BY <2>3, <2>4, FS_Subset
  <2> QED BY <2>1, <2>2, <2>4, <2>5, <2>6
<1>7. IsFiniteSet(G) /\ Cardinality(G) \in Nat /\ Cardinality(G) <= Cardinality(Settled) + faults
  <2>1. G \in SUBSET Grants OBVIOUS
  <2>2. Cardinality(G) <= Cardinality(Settled) + faults BY DEF ApprovalOK, ApprovalInv, NumbersLeft
  <2> HIDE DEF G
  <2> QED BY <2>1, <2>2, Finite
<1>8. g \in Grants /\ issued[g] = 0
  <2>1. Cardinality(G) < Cardinality(Calls) + MaxFaults
    <3> HIDE DEF G
    <3> QED BY <1>4, <1>6, <1>7
  <2>2. G # Grants
    <3> HIDE DEF G
    <3> QED BY <2>1, <1>7, Finite, <1>4, <1>6
  <2>3. T # {} BY <2>2
  <2>4. T \in SUBSET Nat BY Finite
  <2>5. Least(T) \in T
    <3> HIDE DEF T
    <3> QED BY <2>3, <2>4, LeastIs
  <2> QED BY <2>5
<1>9. g # 0 BY <1>8, Finite
<1>10. /\ issued' \in [Grants -> {0} \cup Ids]
       /\ \A h \in Grants : issued'[h] = IF h = g THEN i ELSE issued[h]
  <2> HIDE DEF g, i
  <2> QED BY <1>1, <1>2, <1>3, <1>8
<1>11. /\ \A h \in Grants : issued[h] # 0 => issued'[h] = issued[h]
       /\ \A h \in Grants : issued'[h] # 0 => astate[issued'[h]] # "none"
       /\ live' \in SUBSET Grants /\ \A h \in live' : issued'[h] # 0
  <2> HIDE DEF g, i
  <2> QED BY <1>1, <1>2, <1>3, <1>8, <1>10
<1>12. owner' \in OwnerStates /\ owner'.pc = "approving" /\ owner'.id = i /\ owner'.grant = g
  <2> HIDE DEF g
  <2> QED BY <1>1, <1>2, <1>8 DEF OwnerStates, Deciding
<1>13. op \in Ops /\ op.who = "owner" /\ op.kind = "approve" /\ op.ref = i BY <1>2 DEF Op, Ops
<1>14. issued'[g] = i BY <1>8, <1>10
<1>15. queue' \in Seq(Ops) /\ AwaitsExact' /\ OwnerExact' /\ ChainExact'
  <2> HIDE DEF op, g
  <2> QED BY <1>1, <1>2, <1>9, <1>12, <1>13, <1>14, OtherAsks
<1>16. NumbersLeft'
  <2>1. Settled \cup {i} \subseteq Settled' /\ Settled' \in SUBSET Ids BY <1>1, <1>2, <1>12 DEF Settled
  <2>2. IsFiniteSet(Settled') /\ Cardinality(Settled') \in Nat BY <2>1, Finite
  <2>3. Cardinality(Settled \cup {i}) <= Cardinality(Settled') BY <2>1, <2>2, FS_Subset
  <2>4. {h \in Grants : issued'[h] # 0} = G \cup {g} /\ g \notin G
    <3> HIDE DEF g, i
    <3> QED BY <1>2, <1>8, <1>10
  <2>5. Cardinality(G \cup {g}) = Cardinality(G) + 1
    <3> HIDE DEF G, g
    <3> QED BY <2>4, <1>7, FS_AddElement
  <2> DEFINE n == Cardinality(G)
  <2>6. Cardinality({h \in Grants : issued'[h] # 0}) = n + 1 BY <2>4, <2>5
  <2>7. n \in Nat /\ n <= Cardinality(Settled) + faults BY <1>7
  <2> HIDE DEF n
  <2>8. n + 1 <= Cardinality(Settled') + faults' BY <2>2, <2>3, <2>7, <1>2, <1>4, <1>6
  <2>9. Requested' = Requested /\ Asked' = Asked BY <1>2 DEF Requested, Asked
  <2>10. Cardinality(Requested) <= Cardinality(Asked) BY DEF ApprovalOK, ApprovalInv, NumbersLeft
  <2> QED BY <2>6, <2>8, <2>9, <2>10 DEF NumbersLeft
<1>17. held' \in [Grants -> SUBSET Calls] BY <1>1, <1>3
<1> HIDE DEF T, G, g, i, op
<1> QED BY <1>2, <1>10, <1>11, <1>12, <1>15, <1>16, <1>17, RestKeeps

LEMMA WithdrawKeeps ==
    ASSUME ApprovalOK, Withdraw
    PROVE  ApprovalOK'
<1>1. OwnerRest /\ owner.pc = "withdrawing" /\ issued' = issued /\ queue' = queue /\ owner' = Idle
      /\ Delete({owner.grant})
  BY DEF Withdraw
<1>2. UNCHANGED <<want, runtime, step, took, astate, agrant>> BY <1>1, OwnerRestIs
<1>3. owner' \in OwnerStates /\ owner'.pc = "idle" BY <1>1, GrantsAre
<1>4. live' \in SUBSET live /\ held' \in [Grants -> SUBSET Calls] BY <1>1, DeleteIs DEF ApprovalOK
<1>5. Settled \subseteq Settled' BY <1>1, <1>2, <1>3 DEF Settled
<1>6. queue' \in Seq(Ops) /\ AwaitsExact' /\ OwnerExact' /\ ChainExact' BY <1>1, <1>2, <1>3, OwnerGoes
<1> QED BY <1>1, <1>3, <1>4, <1>5, <1>6, OwnerKeeps

LEMMA ListKeeps ==
    ASSUME ApprovalOK, List
    PROVE  ApprovalOK'
<1> DEFINE op == Op("expire", "reader", 0, clock)
<1>1. OwnerRest /\ UNCHANGED grantVars /\ owner' = owner /\ issued' = issued /\ queue' = Append(queue, op)
  BY DEF List, Later, grantVars
<1>2. UNCHANGED <<want, runtime, step, took, astate, agrant>> /\ clock \in Nat /\ owner \in OwnerStates
  BY <1>1, OwnerRestIs
<1>3. op \in Ops /\ op.who = "reader" BY <1>2 DEF Op, Ops
<1>4. /\ owner.pc # "idle" => owner.id # 0 /\ astate[owner.id] # "none"
      /\ owner.pc \in {"approving", "withdrawing"} => owner.grant # 0 /\ issued[owner.grant] = owner.id
  BY DEF ApprovalOK, ApprovalInv, OwnerExact
<1>5. Settled \subseteq Settled' BY <1>1, <1>2 DEF Settled
<1> HIDE DEF op
<1>6. queue' \in Seq(Ops) /\ AwaitsExact' /\ OwnerExact' /\ ChainExact' BY <1>1, <1>2, <1>3, <1>4, OtherAsks
<1> QED BY <1>1, <1>2, <1>5, <1>6, OwnerKeepsGrants

LEMMA OwnKeeps ==
    ASSUME ApprovalOK, Own
    PROVE  ApprovalOK'
BY TakeUpKeeps, LookKeeps, InspectKeeps, IssueKeeps, WithdrawKeeps, ListKeeps DEF Own

\* Time passes.
LEMMA TickKeeps ==
    ASSUME ApprovalOK, Tick
    PROVE  ApprovalOK'
<1>1. /\ UNCHANGED <<want, limits, faults, runtime, astate, abind, aexp, agrant, aholder, dedupe, issued, live, held,
                     queue, owner, step, took, reuses>>
      /\ clock' = clock + 1 /\ recent' = [s \in Sessions |-> 0]
  BY DEF Tick, callFacts, grantVars, callVars
<1>2. clock' \in Nat /\ recent' \in [Sessions -> Nat] BY <1>1 DEF ApprovalOK, ApprovalTypeOK
<1>3. owner' \in OwnerStates /\ queue' \in Seq(Ops) /\ runtime' \in {"open", "closing", "swept", "closed"}
  BY <1>1 DEF ApprovalOK, ApprovalTypeOK
<1>4. AwaitsExact' /\ OwnerExact' /\ ChainExact'
  <2>1. \A c \in Calls : CallOp(c)' = CallOp(c) BY <1>1 DEF CallOp
  <2> QED BY <2>1, <1>1 DEF ApprovalOK, ApprovalInv, AwaitsExact, OwnerExact, ChainExact, CallOp
<1>5. Settled \subseteq Settled' BY <1>1 DEF Settled
<1>6. NumbersLeft' BY <1>1, <1>5, NumbersStay
<1> QED BY <1>1, <1>2, <1>3, <1>4, <1>6, GrantsAre, RestKeeps

\* The runtime closes: first the approvals, then the grants.
LEMMA CloseKeeps ==
    ASSUME ApprovalOK, CloseApprovals
    PROVE  ApprovalOK'
<1> DEFINE op == Op("close", "runtime", 0, clock)
<1>1. /\ UNCHANGED <<want, limits, clock, faults, astate, abind, aexp, agrant, aholder, dedupe, recent, issued, live, held,
                     owner, step, took, reuses>>
      /\ runtime = "open" /\ runtime' = "closing" /\ queue' = Append(queue, op)
  BY DEF CloseApprovals, Later, callFacts, storeVars, grantVars, callVars
<1>2. clock \in Nat /\ recent \in [Sessions -> Nat] /\ owner \in OwnerStates BY DEF ApprovalOK, ApprovalTypeOK
<1>3. op \in Ops /\ op.who = "runtime" BY <1>2 DEF Op, Ops
<1>4. /\ owner.pc # "idle" => owner.id # 0 /\ astate[owner.id] # "none"
      /\ owner.pc \in {"approving", "withdrawing"} => owner.grant # 0 /\ issued[owner.grant] = owner.id
  BY DEF ApprovalOK, ApprovalInv, OwnerExact
<1>5. Settled \subseteq Settled' BY <1>1 DEF Settled
<1>6. NumbersLeft' BY <1>1, <1>5, NumbersStay
<1> HIDE DEF op
<1>7. queue' \in Seq(Ops) /\ AwaitsExact' /\ OwnerExact' /\ ChainExact' BY <1>1, <1>3, <1>4, OtherAsks
<1> QED BY <1>1, <1>2, <1>6, <1>7, GrantsAre, RestKeeps

LEMMA ClearKeeps ==
    ASSUME ApprovalOK, ClearGrants
    PROVE  ApprovalOK'
<1>1. /\ UNCHANGED <<want, limits, clock, faults, astate, abind, aexp, agrant, aholder, dedupe, recent, issued,
                     queue, owner, step, took, reuses>>
      /\ runtime = "swept" /\ runtime' = "closed" /\ live' = {} /\ held' = [g \in Grants |-> {}]
  BY DEF ClearGrants, callFacts, storeVars, callVars
<1>2. clock \in Nat /\ recent \in [Sessions -> Nat] /\ owner \in OwnerStates /\ queue \in Seq(Ops)
  BY DEF ApprovalOK, ApprovalTypeOK
<1>3. AwaitsExact' /\ OwnerExact'
  <2>1. \A c \in Calls : CallOp(c)' = CallOp(c) BY <1>1 DEF CallOp
  <2> QED BY <2>1, <1>1 DEF ApprovalOK, ApprovalInv, AwaitsExact, OwnerExact, CallOp
<1>4. ChainExact' BY <1>1 DEF ApprovalOK, ApprovalInv, ChainExact
<1>5. Settled \subseteq Settled' BY <1>1 DEF Settled
<1>6. NumbersLeft' BY <1>1, <1>5, NumbersStay
<1>7. held' \in [Grants -> SUBSET Calls] BY <1>1
<1> QED BY <1>1, <1>2, <1>3, <1>4, <1>6, <1>7, GrantsAre, RestKeeps

\* Nor does a step elsewhere disturb it.
LEMMA ApprovalStutter ==
    ASSUME ApprovalOK, UNCHANGED approvalVars
    PROVE  ApprovalOK'
<1>1. UNCHANGED <<want, limits, clock, faults, runtime, astate, abind, aexp, agrant, aholder, dedupe, recent, issued, live,
                  held, queue, owner, step, took, reuses>>
  BY DEF approvalVars, callFacts, storeVars, grantVars, callVars
<1>2. clock \in Nat /\ recent \in [Sessions -> Nat] /\ owner \in OwnerStates /\ queue \in Seq(Ops)
      /\ runtime \in {"open", "closing", "swept", "closed"}
  BY DEF ApprovalOK, ApprovalTypeOK
<1>3. AwaitsExact' /\ OwnerExact' /\ ChainExact'
  <2>1. \A c \in Calls : CallOp(c)' = CallOp(c) BY <1>1 DEF CallOp
  <2> QED BY <2>1, <1>1 DEF ApprovalOK, ApprovalInv, AwaitsExact, OwnerExact, ChainExact, CallOp
<1>5. Settled \subseteq Settled' BY <1>1 DEF Settled
<1>6. NumbersLeft' BY <1>1, <1>5, NumbersStay
<1> QED BY <1>1, <1>2, <1>3, <1>6, GrantsAre, RestKeeps

-----------------------------------------------------------------------------
(* The lane, and all parts together                                         *)

LaneOK ==
    /\ closes = {c \in Calls : want[c] \in Closing}
    /\ lane \in [Servers -> Seq(Calls)] /\ owned \in SUBSET Servers
    /\ LaneExact

LEMMA CallsParts == CallsInv <=> LifecycleOK /\ ApprovalOK /\ LaneOK
BY DEF CallsInv, TypeOK, GateInv, LifecycleOK, ApprovalOK, LaneOK

\* One call, and one server, in LaneExact.
LaneServer(s) ==
    /\ Injective(lane[s])
    /\ \A k \in DOMAIN lane[s] :
         /\ home[lane[s][k]] = s /\ ~Free(lane[s][k]) /\ at[lane[s][k]] = "running"
         /\ step[lane[s][k]] # "none"
         /\ k # 1 => step[lane[s][k]] = "lane"

LaneCall(c) ==
    /\ step[c] \notin {"none", "done", "refused"} => at[c] = "running" /\ (~Free(c) => InLane(c))
    /\ step[c] = "lane" => ~Free(c)
    /\ at[c] \notin {"running", "over", "refused"} => step[c] = "none"

LEMMA LaneEach == LaneExact <=> (\A s \in Servers : LaneServer(s)) /\ \A c \in Calls : LaneCall(c)
BY DEF LaneExact, LaneServer, LaneCall

\* Between the lane and its end a call goes where it likes.
LEMMA LaneStays ==
    ASSUME LaneOK, UNCHANGED <<closes, want, home, at, lane, owned>>,
           \A c \in Calls : step'[c] = step[c]
                            \/ (step[c] \notin {"none", "lane", "done", "refused"} /\ step'[c] \notin {"none", "lane"})
    PROVE  LaneOK'
<1>1. \A s \in Servers : LaneServer(s) BY LaneEach DEF LaneOK
<1>2. \A c \in Calls : LaneCall(c) BY LaneEach DEF LaneOK
<1>3. ASSUME NEW s \in Servers PROVE LaneServer(s)'
  <2>1. lane[s] \in Seq(Calls) BY DEF LaneOK
  <2>2. \A k \in DOMAIN lane[s] : lane[s][k] \in Calls BY <2>1
  <2> QED BY <2>2, <1>1 DEF LaneServer, Free
<1>4. ASSUME NEW c \in Calls PROVE LaneCall(c)' BY <1>2 DEF LaneCall, Free, InLane
<1>5. LaneExact' BY <1>3, <1>4 DEF LaneExact, LaneServer, LaneCall
<1> QED BY <1>5 DEF LaneOK

\* The lifecycle moves calls that have not begun, and ends calls that are over.
LEMMA LaneWaits ==
    ASSUME LaneOK, UNCHANGED <<closes, want, home, step, lane, owned>>,
           \A c \in Calls : \/ at'[c] = at[c]
                            \/ at[c] \notin {"running", "over", "refused"}
                            \/ at[c] = "running" /\ at'[c] = "over" /\ Ended(c) /\ ~InLane(c)
    PROVE  LaneOK'
<1>1. \A s \in Servers : LaneServer(s) BY LaneEach DEF LaneOK
<1>2. \A c \in Calls : LaneCall(c) BY LaneEach DEF LaneOK
<1>3. ASSUME NEW s \in Servers PROVE LaneServer(s)'
  <2>1. lane[s] \in Seq(Calls) BY DEF LaneOK
  <2>2. ASSUME NEW k \in DOMAIN lane[s] PROVE at'[lane[s][k]] = "running"
    <3>1. lane[s][k] \in Calls /\ home[lane[s][k]] = s /\ at[lane[s][k]] = "running" BY <2>1, <1>1 DEF LaneServer
    <3>2. InLane(lane[s][k]) BY <3>1 DEF InLane
    <3> QED BY <3>1, <3>2
  <2> QED BY <2>2, <1>1 DEF LaneServer, Free
<1>4. ASSUME NEW c \in Calls PROVE LaneCall(c)'
  <2>1. CASE at'[c] = at[c] BY <2>1, <1>2 DEF LaneCall, Free, InLane
  <2>2. CASE at[c] \notin {"running", "over", "refused"}
    <3>1. step[c] = "none" BY <2>2, <1>2 DEF LaneCall
    <3> QED BY <3>1 DEF LaneCall
  <2>3. CASE at[c] = "running" /\ at'[c] = "over" /\ Ended(c) /\ ~InLane(c)
    BY <2>3 DEF LaneCall, Ended
  <2> QED BY <2>1, <2>2, <2>3
<1>5. LaneExact' BY <1>3, <1>4 DEF LaneExact, LaneServer, LaneCall
<1> QED BY <1>5 DEF LaneOK

\* The lane of the call.
LEMMA LaneOf ==
    ASSUME LaneOK, LifecycleTypeOK, NEW c \in Calls
    PROVE  /\ home[c] \in Servers /\ lane[home[c]] \in Seq(Calls)
           /\ InLane(c) <=> Has(lane[home[c]], c)
           /\ InLane(c) /\ step[c] # "lane" =>
                lane[home[c]] # << >> /\ Head(lane[home[c]]) = c /\ lane[home[c]][1] = c /\ 1 \in DOMAIN lane[home[c]]
<1>1. home[c] \in Servers BY DEF LifecycleTypeOK
<1>2. lane[home[c]] \in Seq(Calls) BY <1>1 DEF LaneOK
<1>3. InLane(c) <=> Has(lane[home[c]], c) BY DEF InLane, Has
<1>4. ASSUME InLane(c), step[c] # "lane"
      PROVE  lane[home[c]] # << >> /\ Head(lane[home[c]]) = c /\ lane[home[c]][1] = c /\ 1 \in DOMAIN lane[home[c]]
  <2>1. PICK k \in DOMAIN lane[home[c]] : lane[home[c]][k] = c BY <1>4 DEF InLane
  <2>2. k = 1 BY <2>1, <1>1, <1>4 DEF LaneOK, LaneExact
  <2>3. lane[home[c]] # << >> BY <2>1
  <2>4. Head(lane[home[c]]) = lane[home[c]][1] BY <1>2, <2>3, Taken
  <2> QED BY <2>1, <2>2, <2>3, <2>4
<1> QED BY <1>1, <1>2, <1>3, <1>4

\* A call takes its place in the lane, or needs none.
LEMMA BeginKeeps ==
    ASSUME CallsInv, NEW c \in Calls, Begin(c)
    PROVE  CallsInv'
<1>1. LifecycleOK /\ ApprovalOK /\ LaneOK BY CallsParts
<1>2. /\ UNCHANGED <<home, closes, at, owned, live, held, queue, reuses, want>>
      /\ at[c] = "running" /\ step[c] = "none" /\ UNCHANGED lifecycleVars /\ ApprovalsRest
  BY DEF Begin, lifecycleVars, callFacts
<1>3. /\ \A s \in Servers : LaneServer(s)
      /\ \A d \in Calls : LaneCall(d)
  BY <1>1, LaneEach DEF LaneOK
<1>4. home[c] \in Servers /\ lane \in [Servers -> Seq(Calls)] /\ lane[home[c]] \in Seq(Calls)
  BY <1>1 DEF LifecycleOK, LifecycleTypeOK, LaneOK
<1>5. LifecycleOK' BY <1>1, <1>2, LifecycleStutter
<1>6. live' \in SUBSET live /\ held' \in [Grants -> SUBSET Calls] BY <1>1, <1>2 DEF ApprovalOK, ApprovalTypeOK
<1>7. CASE Free(c) /\ Goto(c, "start") /\ UNCHANGED lane
  <2>1. ApprovalOK' BY <1>1, <1>2, <1>6, <1>7, GoesOn DEF Steps, Holding, Awaiting
  <2>2. step'[c] = "start" /\ \A d \in Calls \ {c} : step'[d] = step[d]
    BY <1>1, <1>7, GotoIs DEF ApprovalOK, Steps
  <2>3. ASSUME NEW s \in Servers PROVE LaneServer(s)'
    <3>1. lane[s] \in Seq(Calls) BY <1>4
    <3>2. \A k \in DOMAIN lane[s] : lane[s][k] \in Calls /\ lane[s][k] # c BY <3>1, <1>2, <1>3 DEF LaneServer
    <3> QED BY <3>2, <2>2, <1>2, <1>3, <1>7 DEF LaneServer, Free
  <2>4. ASSUME NEW d \in Calls PROVE LaneCall(d)'
    BY <2>2, <1>2, <1>3, <1>7 DEF LaneCall, Free, InLane
  <2>5. LaneExact' BY <2>3, <2>4 DEF LaneExact, LaneServer, LaneCall
  <2>6. LaneOK' BY <2>5, <1>1, <1>2, <1>7 DEF LaneOK
  <2> QED BY <2>1, <2>6, <1>5 DEF CallsInv, TypeOK, GateInv, LifecycleOK, ApprovalOK, LaneOK
<1>8. CASE ~Free(c) /\ Goto(c, "lane") /\ lane' = [lane EXCEPT ![home[c]] = Append(@, c)]
  <2>1. ApprovalOK' BY <1>1, <1>2, <1>6, <1>8, GoesOn DEF Steps, Holding, Awaiting
  <2>2. step'[c] = "lane" /\ \A d \in Calls \ {c} : step'[d] = step[d]
    BY <1>1, <1>8, GotoIs DEF ApprovalOK, Steps
  <2> DEFINE r == home[c]
             q == lane[r]
             p == Append(q, c)
  <2>3. /\ p \in Seq(Calls) /\ Len(q) \in Nat
        /\ DOMAIN p = 1..(Len(q) + 1) /\ DOMAIN q = 1..Len(q) /\ p[Len(q) + 1] = c
        /\ \A k \in DOMAIN q : k \in DOMAIN p /\ p[k] = q[k]
        /\ \A x : Has(p, x) <=> Has(q, x) \/ x = c
        /\ Injective(q) /\ ~Has(q, c) => Injective(p)
    BY <1>4, Appended
  <2>4. lane'[r] = p /\ lane' \in [Servers -> Seq(Calls)] /\ \A s \in Servers : s # r => lane'[s] = lane[s]
    <3> HIDE DEF p
    <3>1. lane' = [lane EXCEPT ![r] = p] BY <1>8 DEF p
    <3> QED BY <3>1, <2>3, <1>4
  <2>5. \A s \in Servers : \A k \in DOMAIN lane[s] : lane[s][k] \in Calls /\ lane[s][k] # c
    BY <1>2, <1>3, <1>4 DEF LaneServer
  <2>6. ASSUME NEW s \in Servers PROVE LaneServer(s)'
    <3>1. CASE s # r
      <4>1. lane'[s] = lane[s] BY <3>1, <2>4
      <4> QED BY <4>1, <2>2, <2>5, <1>2, <1>3 DEF LaneServer, Free
    <3>2. CASE s = r
      <4>1. Injective(p) BY <3>2, <2>3, <2>5, <1>3 DEF LaneServer, Has
      <4>2. ASSUME NEW k \in DOMAIN p
            PROVE  /\ home[p[k]] = s /\ ~Free(p[k]) /\ at[p[k]] = "running" /\ step'[p[k]] # "none"
                   /\ k # 1 => step'[p[k]] = "lane"
        <5>1. CASE k \in DOMAIN q
          <6>1. p[k] = q[k] /\ q[k] \in Calls /\ q[k] # c BY <5>1, <2>3, <2>5, <1>4
          <6>2. step'[q[k]] = step[q[k]] BY <6>1, <2>2
          <6> HIDE DEF p
          <6> QED BY <6>1, <6>2, <5>1, <3>2, <1>3 DEF LaneServer
        <5>2. CASE k \notin DOMAIN q
          <6>1. p[k] = c BY <5>2, <2>3
          <6> HIDE DEF p
          <6> QED BY <6>1, <3>2, <2>2, <1>2, <1>8
        <5> QED BY <5>1, <5>2
      <4>3. lane'[s] = p BY <3>2, <2>4
      <4> HIDE DEF p
      <4> QED BY <4>1, <4>2, <4>3, <1>2 DEF LaneServer, Free
    <3> QED BY <3>1, <3>2
  <2>7. ASSUME NEW d \in Calls PROVE LaneCall(d)'
    <3>1. InLane(d) => InLane(d)'
      <4> SUFFICES ASSUME NEW k \in DOMAIN lane[home[d]], lane[home[d]][k] = d PROVE InLane(d)' BY DEF InLane
      <4>1. home[d] \in Servers BY <1>1 DEF LifecycleOK, LifecycleTypeOK
      <4>2. CASE home[d] # r
        <5>1. lane'[home[d]] = lane[home[d]] BY <4>1, <4>2, <2>4
        <5> QED BY <5>1, <1>2 DEF InLane
      <4>3. CASE home[d] = r
        <5>1. lane'[home[d]] = p /\ k \in DOMAIN p /\ p[k] = d BY <4>3, <2>3, <2>4
        <5> HIDE DEF p
        <5> QED BY <5>1, <1>2 DEF InLane
      <4> QED BY <4>2, <4>3
    <3>2. InLane(c)'
      <4>1. Len(q) + 1 \in DOMAIN p /\ p[Len(q) + 1] = c BY <2>3
      <4> HIDE DEF p
      <4> QED BY <4>1, <2>4, <1>2 DEF InLane
    <3>3. Free(d)' <=> Free(d) BY <1>2 DEF Free
    <3> QED BY <3>1, <3>2, <3>3, <2>2, <1>2, <1>3, <1>8 DEF LaneCall
  <2>8. LaneExact' BY <2>6, <2>7 DEF LaneExact, LaneServer, LaneCall
  <2>9. LaneOK' BY <2>4, <2>8, <1>1, <1>2 DEF LaneOK
  <2> QED BY <2>1, <2>9, <1>5 DEF CallsInv, TypeOK, GateInv, LifecycleOK, ApprovalOK, LaneOK
<1> QED BY <1>7, <1>8 DEF Begin

\* The head of the lane goes on.
LEMMA TakeLaneKeeps ==
    ASSUME CallsInv, NEW c \in Calls, TakeLane(c)
    PROVE  CallsInv'
<1>1. LifecycleOK /\ ApprovalOK /\ LaneOK BY CallsParts
<1>2. /\ UNCHANGED <<home, closes, at, owned, lane, live, held, queue, reuses, want>>
      /\ step[c] = "lane" /\ Head(lane[home[c]]) = c /\ UNCHANGED lifecycleVars /\ ApprovalsRest
  BY DEF TakeLane, lifecycleVars, callFacts
<1>3. PICK place \in {"start", "refused"} : Goto(c, place) BY DEF TakeLane
<1>4. step'[c] = place /\ \A d \in Calls \ {c} : step'[d] = step[d]
  BY <1>1, <1>3, GotoIs DEF ApprovalOK, Steps
<1>5. LifecycleOK' BY <1>1, <1>2, LifecycleStutter
<1>6. live' \in SUBSET live /\ held' \in [Grants -> SUBSET Calls] BY <1>1, <1>2 DEF ApprovalOK, ApprovalTypeOK
<1>7. ApprovalOK' BY <1>1, <1>2, <1>3, <1>6, GoesOn DEF Steps, Holding, Awaiting
<1>8. /\ \A s \in Servers : LaneServer(s)
      /\ \A d \in Calls : LaneCall(d)
  BY <1>1, LaneEach DEF LaneOK
<1>9. /\ home[c] \in Servers /\ lane \in [Servers -> Seq(Calls)] /\ InLane(c)
  BY <1>1, <1>2, <1>8 DEF LifecycleOK, LifecycleTypeOK, LaneOK, LaneCall
<1>10. lane[home[c]] # << >> /\ lane[home[c]] \in Seq(Calls) BY <1>9 DEF InLane
<1>11. lane[home[c]][1] = c /\ 1 \in DOMAIN lane[home[c]] BY <1>2, <1>10, Taken
<1>12. ASSUME NEW s \in Servers PROVE LaneServer(s)'
  <2>1. lane[s] \in Seq(Calls) BY <1>9
  <2>2. ASSUME NEW k \in DOMAIN lane[s], k # 1 PROVE step'[lane[s][k]] = step[lane[s][k]]
    <3>1. lane[s][k] \in Calls /\ home[lane[s][k]] = s BY <2>1, <1>8 DEF LaneServer
    <3>2. lane[s][k] # c
      <4> SUFFICES ASSUME lane[s][k] = c PROVE FALSE OBVIOUS
      <4>1. s = home[c] BY <3>1
      <4>2. lane[s][1] = lane[s][k] /\ 1 \in DOMAIN lane[s] BY <4>1, <1>11
      <4> QED BY <4>2, <2>2, <1>8 DEF LaneServer, Injective
    <3> QED BY <3>1, <3>2, <1>4
  <2>3. ASSUME NEW k \in DOMAIN lane[s] PROVE step'[lane[s][k]] # "none"
    <3>1. lane[s][k] \in Calls BY <2>1
    <3> QED BY <3>1, <1>4, <1>8 DEF LaneServer
  <2> QED BY <2>2, <2>3, <1>2, <1>8 DEF LaneServer, Free
<1>13. ASSUME NEW d \in Calls PROVE LaneCall(d)' BY <1>2, <1>4, <1>8 DEF LaneCall, Free, InLane
<1>14. LaneExact' BY <1>12, <1>13 DEF LaneExact, LaneServer, LaneCall
<1>15. LaneOK' BY <1>14, <1>1, <1>2 DEF LaneOK
<1> QED BY <1>5, <1>7, <1>15 DEF CallsInv, TypeOK, GateInv, LifecycleOK, ApprovalOK, LaneOK

\* The head of the lane leaves it, and the next is the head.
LEMMA LeaveLaneKeeps ==
    ASSUME CallsInv, NEW c \in Calls, LeaveLane(c)
    PROVE  CallsInv'
<1>1. LifecycleOK /\ ApprovalOK /\ LaneOK BY CallsParts
<1>2. /\ UNCHANGED <<home, closes, at, owned, step, want>>
      /\ Ended(c) /\ InLane(c) /\ lane' = [lane EXCEPT ![home[c]] = Tail(@)]
      /\ UNCHANGED lifecycleVars /\ UNCHANGED approvalVars
  BY DEF LeaveLane, lifecycleVars, approvalVars, callFacts, callVars
<1>3. LifecycleOK' /\ ApprovalOK' BY <1>1, <1>2, LifecycleStutter, ApprovalStutter
<1> DEFINE r == home[c]
           q == lane[r]
           p == Tail(q)
<1>4. /\ r \in Servers /\ q \in Seq(Calls) /\ q # << >> /\ Head(q) = c /\ q[1] = c /\ 1 \in DOMAIN q
  BY <1>1, <1>2, LaneOf DEF Ended, LifecycleOK
<1>5. /\ p \in Seq(Calls)
      /\ \A k \in DOMAIN p : k \in Nat /\ k >= 1 /\ k + 1 \in DOMAIN q /\ p[k] = q[k + 1]
      /\ \A x : Has(q, x) => Has(p, x) \/ x = c
      /\ Injective(q) => Injective(p)
  BY <1>4, Taken
<1>6. lane'[r] = p /\ lane' \in [Servers -> Seq(Calls)] /\ \A s \in Servers : s # r => lane'[s] = lane[s]
  <2>0. lane \in [Servers -> Seq(Calls)] BY <1>1 DEF LaneOK
  <2>1. lane' = [lane EXCEPT ![r] = p] BY <1>2
  <2> HIDE DEF p
  <2> QED BY <2>0, <2>1, <1>4, <1>5
<1>7. /\ \A s \in Servers : LaneServer(s)
      /\ \A d \in Calls : LaneCall(d)
  BY <1>1, LaneEach DEF LaneOK
<1>8. ASSUME NEW s \in Servers PROVE LaneServer(s)'
  <2>1. CASE s # r
    <3>1. lane'[s] = lane[s] BY <2>1, <1>6
    <3> QED BY <3>1, <1>2, <1>7 DEF LaneServer, Free
  <2>2. CASE s = r
    <3>1. Injective(p) BY <1>4, <1>5, <1>7 DEF LaneServer
    <3>2. ASSUME NEW k \in DOMAIN p
          PROVE  /\ home[p[k]] = s /\ ~Free(p[k]) /\ at[p[k]] = "running" /\ step[p[k]] # "none"
                 /\ k # 1 => step[p[k]] = "lane"
      <4>1. p[k] = q[k + 1] /\ k + 1 \in DOMAIN q /\ k + 1 # 1 BY <1>5
      <4> HIDE DEF p
      <4> QED BY <4>1, <2>2, <1>4, <1>7 DEF LaneServer
    <3>3. lane'[s] = p BY <2>2, <1>6
    <3> HIDE DEF p
    <3> QED BY <3>1, <3>2, <3>3, <1>2 DEF LaneServer, Free
  <2> QED BY <2>1, <2>2
<1>9. ASSUME NEW d \in Calls PROVE LaneCall(d)'
  <2>1. CASE d = c BY <2>1, <1>2, <1>7 DEF LaneCall, Ended
  <2>2. CASE d # c
    <3>0. home[d] \in Servers BY <1>1 DEF LifecycleOK, LifecycleTypeOK
    <3>1. InLane(d) => InLane(d)'
      <4>1. CASE home[d] # r
        <5>1. lane'[home[d]] = lane[home[d]] BY <4>1, <3>0, <1>6
        <5> QED BY <5>1, <1>2 DEF InLane
      <4>2. CASE home[d] = r
        <5>1. lane'[home[d]] = p BY <4>2, <1>6
        <5>2. InLane(d) => Has(p, d) BY <4>2, <2>2, <1>5 DEF InLane, Has
        <5> HIDE DEF p
        <5> QED BY <5>1, <5>2, <1>2 DEF InLane, Has
      <4> QED BY <4>1, <4>2
    <3>2. Free(d)' <=> Free(d) BY <1>2 DEF Free
    <3> QED BY <3>1, <3>2, <1>2, <1>7 DEF LaneCall
  <2> QED BY <2>1, <2>2
<1>10. LaneExact' BY <1>8, <1>9 DEF LaneExact, LaneServer, LaneCall
<1>11. LaneOK' BY <1>6, <1>10, <1>1, <1>2 DEF LaneOK
<1> QED BY <1>3, <1>11 DEF CallsInv, TypeOK, GateInv, LifecycleOK, ApprovalOK, LaneOK

\* The chain moves only a call that awaits it.
LEMMA OperateSteps ==
    ASSUME ApprovalOK, Operate
    PROVE  /\ \A c \in Calls : step'[c] = step[c]
                               \/ (step[c] \notin {"none", "lane", "done", "refused"} /\ step'[c] \notin {"none", "lane"})
           /\ want' = want
           /\ \A c, d \in Calls : step'[c] # step[c] /\ step'[d] # step[d] => c = d
<1>1. Answer(TRUE) \/ Answer(FALSE) \/ UNCHANGED <<step, want>>
  <2>1. Sweep => Answer(FALSE) \/ UNCHANGED <<step, want>> BY DEF Sweep, WriteFails, callVars, callFacts
  <2>2. Swept => Answer(TRUE) BY DEF Swept, Reply
  <2>3. Request => Answer(TRUE) \/ Answer(FALSE) BY DEF Request, Reply, WriteFails
  <2>4. \A i, kind, target, done, from : Decides(i, kind, target, done, from) => Answer(TRUE) \/ Answer(FALSE)
    BY DEF Decides, Reply, WriteFails
  <2>5. Prepare \/ Approve \/ Deny => Answer(TRUE) \/ Answer(FALSE) BY <2>4 DEF Prepare, Approve, Deny
  <2>6. \A kind, target : Mark(kind, target) => Answer(TRUE) \/ Answer(FALSE) BY DEF Mark, Reply, WriteFails
  <2>7. MarkReserved \/ MarkConsumed \/ MarkBurned => Answer(TRUE) \/ Answer(FALSE)
    BY <2>6 DEF MarkReserved, MarkConsumed, MarkBurned
  <2> QED BY <2>1, <2>2, <2>3, <2>5, <2>7 DEF Operate
<1>2. queue # << >>
  <2>1. \A i, kind, target, done, from : Decides(i, kind, target, done, from) => queue # << >> BY DEF Decides, AtTurn
  <2>2. \A kind, target : Mark(kind, target) => queue # << >> BY DEF Mark, AtTurn
  <2> QED BY <2>1, <2>2 DEF Operate, Sweep, Swept, Request, AtTurn, Prepare, Approve, Deny,
                            MarkReserved, MarkConsumed, MarkBurned
<1>3. ASSUME NEW ok \in BOOLEAN, Answer(ok)
      PROVE  /\ \A c \in Calls : step'[c] = step[c]
                                 \/ (step[c] \notin {"none", "lane", "done", "refused"} /\ step'[c] \notin {"none", "lane"})
             /\ want' = want
             /\ \A c, d \in Calls : step'[c] # step[c] /\ step'[d] # step[d] => c = d
  <2>1. /\ 1 \in DOMAIN queue /\ want' = want
        /\ \A c \in Calls : step'[c] = IF queue[1].who = c THEN CallGoesOn(step[c], ok) ELSE step[c]
    BY <1>2, <1>3, AnswerIs DEF ApprovalOK
  <2>2. \A c \in Calls : queue[1].who = c => step[c] \in Awaiting BY <2>1 DEF ApprovalOK, ApprovalInv, AwaitsExact
  <2> QED BY <2>1, <2>2 DEF CallGoesOn, Awaiting
<1> QED BY <1>1, <1>3

\* So does the Policy Kernel, between the lane and the result.
LEMMA KernelSteps ==
    ASSUME ApprovalOK, NEW c \in Calls, Kernel(c)
    PROVE  /\ \A d \in Calls : step'[d] = step[d]
                               \/ (step[d] \notin {"none", "lane", "done", "refused"} /\ step'[d] \notin {"none", "lane"})
           /\ want' = want
           /\ \A d, e \in Calls : step'[d] # step[d] /\ step'[e] # step[e] => d = e
<1> DEFINE from == {"start", "unmarked", "reserved", "authorized", "consumed", "unconsumed", "admitted", "handler"}
           to == {"admitted", "refused", "reserved", "marking", "asking", "authorized", "burningOn", "burning",
                  "consuming", "unconsumed", "unwinding", "handler", "done"}
<1>1. step[c] \in from
  BY DEF Kernel, Decide, Reserve, Ask, Unreserve, Burn, Consume, Consumed, Unwind, Handle, HandlerEnds
<1>2. \E place \in to : Goto(c, place)
  <2>1. Decide(c) => \E place \in to : Goto(c, place) BY DEF Decide
  <2>2. Reserve(c) => \E place \in to : Goto(c, place) BY DEF Reserve
  <2>3. Ask(c) => \E place \in to : Goto(c, place) BY DEF Ask
  <2>4. Unreserve(c) => \E place \in to : Goto(c, place) BY DEF Unreserve
  <2>5. Burn(c) => \E place \in to : Goto(c, place)
    <3> SUFFICES ASSUME Burn(c) PROVE \E place \in to : Goto(c, place) OBVIOUS
    <3>1. \E b \in BOOLEAN : Goto(c, IF b THEN "authorized" ELSE "refused") \/ Goto(c, IF b THEN "burningOn" ELSE "burning")
      BY DEF Burn
    <3>2. PICK b \in BOOLEAN : Goto(c, IF b THEN "authorized" ELSE "refused") \/ Goto(c, IF b THEN "burningOn" ELSE "burning")
      BY <3>1
    <3>3. CASE b = TRUE BY <3>2, <3>3
    <3>4. CASE b = FALSE BY <3>2, <3>4
    <3> QED BY <3>3, <3>4
  <2>6. Consume(c) => \E place \in to : Goto(c, place)
    <3> SUFFICES ASSUME Consume(c) PROVE \E place \in to : Goto(c, place) OBVIOUS
    <3>1. Goto(c, "refused") \/ Goto(c, "consuming") \/ Goto(c, IF c \in held[took[c]] THEN "admitted" ELSE "refused")
      BY DEF Consume
    <3> QED BY <3>1
  <2>7. Consumed(c) => \E place \in to : Goto(c, place)
    <3> SUFFICES ASSUME Consumed(c) PROVE \E place \in to : Goto(c, place) OBVIOUS
    <3>1. Goto(c, IF c \in held[took[c]] THEN "admitted" ELSE "unconsumed") BY DEF Consumed
    <3> QED BY <3>1
  <2>8. Unwind(c) => \E place \in to : Goto(c, place) BY DEF Unwind
  <2>9. Handle(c) \/ HandlerEnds(c) => \E place \in to : Goto(c, place) BY DEF Handle, HandlerEnds
  <2> QED BY <2>1, <2>2, <2>3, <2>4, <2>5, <2>6, <2>7, <2>8, <2>9 DEF Kernel
<1>3. PICK place \in to : Goto(c, place) BY <1>2
<1>4. step \in [Calls -> Steps] BY DEF ApprovalOK, ApprovalTypeOK
<1>5. step' = [step EXCEPT ![c] = place] BY <1>3 DEF Goto
<1>6. want' = want
  BY DEF Kernel, Decide, Reserve, Ask, Unreserve, Burn, Consume, Consumed, Unwind, Handle, HandlerEnds, ApprovalsRest, callFacts
<1> QED BY <1>1, <1>4, <1>5, <1>6

\* The lifecycle moves a call that waits for it.
LEMMA ArriveAt ==
    ASSUME LifecycleOK, NEW c \in Calls, Arrive(c) \/ Resume(c)
    PROVE  /\ \A d \in Calls : at'[d] = at[d] \/ at[d] \notin {"running", "over", "refused"}
           /\ UNCHANGED <<home, want, closes>>
<1>1. at \in [Calls -> Places] BY DEF LifecycleOK, LifecycleTypeOK
<1>2. UNCHANGED <<home, want, closes>>
  BY DEF Arrive, Refuse, Share, WaitForExclusiveClear, RunExclusive, Resume, TakeTurn, EnterAlone, EnterShared, callFacts
<1>3. at[c] \in {"idle", "turning", "zeroing", "clearing"}
  BY DEF Arrive, Refuse, Share, WaitForExclusiveClear, RunExclusive, Resume, TakeTurn, EnterAlone, EnterShared
<1>4. \A d \in Calls \ {c} : at'[d] = at[d]
  <2>1. \A place : Move(c, place) => \A d \in Calls \ {c} : at'[d] = at[d] BY <1>1 DEF Move
  <2>2. \E place : Move(c, place)
    BY DEF Arrive, Refuse, Share, WaitForExclusiveClear, RunExclusive, Resume, TakeTurn, EnterAlone, EnterShared
  <2> QED BY <2>1, <2>2
<1> QED BY <1>2, <1>3, <1>4

LEMMA FinishAt ==
    ASSUME LifecycleOK, NEW c \in Calls, Finish(c)
    PROVE  /\ at[c] = "running" /\ at'[c] = "over"
           /\ \A d \in Calls \ {c} : at'[d] = at[d] \/ (at[d] \in Waiting /\ at'[d] \in Waiting)
           /\ UNCHANGED <<home, want, closes, state>>
<1> DEFINE s == home[c]
<1>1. home \in [Calls -> Servers] BY DEF LifecycleOK, LifecycleTypeOK
<1>2. CASE FinishShared(c)
  <2>1. /\ at[c] = "running" /\ UNCHANGED <<home, want, closes, state>>
        /\ at' = [d \in Calls |->
                CASE d = c -> "over"
                  [] d # c /\ active[s] = 1 /\ d \in AtZero(s) -> "zeroing"
                  [] d # c /\ pending[s] = 0 /\ home[d] = s /\ at[d] = "clear" -> "clearing"
                  [] OTHER -> at[d]]
    BY <1>2 DEF FinishShared, callFacts
  <2>2. at'[c] = "over" BY <2>1
  <2>3. ASSUME NEW d \in Calls \ {c} PROVE at'[d] = at[d] \/ (at[d] \in Waiting /\ at'[d] \in Waiting)
    <3>1. \/ at'[d] = at[d] 
          \/ at[d] = "clear" /\ at'[d] = "clearing"
          \/ d \in AtZero(s) /\ at'[d] = "zeroing"
      BY <2>1, <2>3
    <3> QED BY <3>1 DEF AtZero, Waiting
  <2> QED BY <2>1, <2>2, <2>3
<1>3. CASE FinishExclusive(c)
  <2>1. /\ at[c] = "running" /\ UNCHANGED <<home, want, closes, state>>
        /\ at' = [d \in Calls |->
                CASE d = c -> "over"
                  [] d # c /\ Len(turns[s]) > 1 /\ d = turns[s][2] -> "turning"
                  [] d # c /\ pending[s] = 1 /\ home[d] = s /\ at[d] = "clear" -> "clearing"
                  [] OTHER -> at[d]]
    BY <1>3 DEF FinishExclusive, callFacts
  <2>2. at'[c] = "over" BY <2>1
  <2>3. Len(turns[s]) > 1 => at[turns[s][2]] = "turn"
    <3>1. s \in Servers /\ turns[s] \in Seq(Calls) BY <1>1 DEF LifecycleOK, LifecycleTypeOK
    <3>2. Len(turns[s]) > 1 => 2 \in DOMAIN turns[s] BY <3>1
    <3> QED BY <3>1, <3>2 DEF LifecycleOK, LifecycleInv, TurnsExact
  <2>4. ASSUME NEW d \in Calls \ {c} PROVE at'[d] = at[d] \/ (at[d] \in Waiting /\ at'[d] \in Waiting)
    <3>1. \/ at'[d] = at[d] 
          \/ at[d] = "clear" /\ at'[d] = "clearing"
          \/ Len(turns[s]) > 1 /\ d = turns[s][2] /\ at'[d] = "turning"
      BY <2>1, <2>4
    <3> QED BY <3>1, <2>3 DEF Waiting
  <2> QED BY <2>1, <2>2, <2>4
<1> QED BY <1>2, <1>3 DEF Finish

\* At first no approval is asked for.
LEMMA ApprovalStart ==
    ASSUME ApprovalInit, want \in [Calls -> Bindings], limits \in [ticks : Nat, faults : 0..MaxFaults, closings : BOOLEAN],
           home \in [Calls -> Servers]
    PROVE  ApprovalOK
<1>1. /\ clock = 0 /\ faults = 0 /\ runtime = "open"
      /\ astate = [i \in Ids |-> "none"]
      /\ agrant = [i \in Ids |-> 0]
      /\ dedupe = [b \in Bindings |-> 0]
      /\ issued = [g \in Grants |-> 0]
      /\ live = {} /\ queue = << >> /\ owner = Idle
      /\ step = [c \in Calls |-> "none"]
      /\ took = [c \in Calls |-> 0]
      /\ reuses = {}
  BY DEF ApprovalInit
<1>2. ApprovalTypeOK
  <2>1. MaxFaults \in Nat BY ApprovalAssumption
  <2>2. faults \in 0..limits.faults BY <1>1, <2>1
  <2>3. owner \in OwnerStates BY <1>1 DEF Idle, OwnerStates
  <2>4. queue \in Seq(Ops) BY <1>1, EmptySeq
  <2>5. abind \in [Ids -> Bindings]
    <3>1. CASE Calls = {}
      <4>1. Cardinality(Calls) = 0 BY <3>1, FS_EmptySet
      <4>2. Ids = {} BY <4>1 DEF Ids
      <4> QED BY <4>2 DEF ApprovalInit
    <3>2. CASE Calls # {}
      <4>1. (CHOOSE b \in Bindings : TRUE) \in Bindings BY <3>2
      <4> QED BY <4>1 DEF ApprovalInit
    <3> QED BY <3>1, <3>2
  <2>6. /\ astate \in [Ids -> {"none"} \cup Active \cup Terminal]
        /\ aexp \in [Ids -> Nat]
        /\ agrant \in [Ids -> {0} \cup Grants] /\ aholder \in [Ids -> SUBSET Calls]
        /\ dedupe \in [Bindings -> {0} \cup Ids] /\ recent \in [Sessions -> Nat]
        /\ issued \in [Grants -> {0} \cup Ids]
        /\ live \in SUBSET Grants /\ held \in [Grants -> SUBSET Calls]
        /\ step \in [Calls -> Steps]
        /\ took \in [Calls -> {0} \cup Grants] /\ reuses \in SUBSET Calls
    BY DEF ApprovalInit, Steps
  <2> QED BY <1>1, <2>2, <2>3, <2>4, <2>5, <2>6 DEF ApprovalTypeOK
<1>3. DOMAIN queue = {} BY <1>1
<1>4. AwaitsExact /\ OwnerExact /\ ChainExact BY <1>1, <1>3 DEF AwaitsExact, OwnerExact, ChainExact, Idle
<1>5. GrantsExact BY <1>1 DEF GrantsExact
<1>6. TookExact BY <1>1 DEF TookExact, Holding
<1>7. ExecutionBacked BY <1>1 DEF ExecutionBacked
<1>8. DedupeExact BY <1>1 DEF DedupeExact, IsActive, Active
<1>9. ReservationsKept BY <1>1 DEF ReservationsKept
<1>10. NumbersLeft
  <2>1. Requested = {} /\ Asked = {} /\ {g \in Grants : issued[g] # 0} = {} BY <1>1 DEF Requested, Asked
  <2>2. Settled \in SUBSET Ids BY DEF Settled
  <2>3. Cardinality(Settled) \in Nat BY <2>2, Finite
  <2>4. Cardinality(Requested) = 0 /\ Cardinality(Asked) = 0 /\ Cardinality({g \in Grants : issued[g] # 0}) = 0
    BY <2>1, FS_EmptySet
  <2> QED BY <2>3, <2>4, <1>1 DEF NumbersLeft
<1> QED BY <1>2, <1>4, <1>5, <1>6, <1>7, <1>8, <1>9, <1>10 DEF ApprovalOK, ApprovalInv

LEMMA CallsStart ==
    ASSUME Init
    PROVE  CallsInv
<1>1. PICK w \in Workloads : want = w.want /\ home = w.home /\ owned = w.owned /\ limits = w.limits BY DEF Init
<1>2. /\ want \in [Calls -> Bindings] /\ home \in [Calls -> Servers] /\ owned \in SUBSET Servers
      /\ limits \in [ticks : Nat, faults : 0..MaxFaults, closings : BOOLEAN]
  BY <1>1, WorkloadAssumption
<1>3. LifecycleOK BY <1>2, LifecycleStart DEF Init
<1>4. ApprovalOK BY <1>2, ApprovalStart DEF Init
<1>5. /\ step = [c \in Calls |-> "none"] /\ lane = [s \in Servers |-> << >>]
      /\ closes = {c \in Calls : want[c] \in Closing}
  BY DEF Init, ApprovalInit
<1>6. lane \in [Servers -> Seq(Calls)] BY <1>5, EmptySeq
<1>7. LaneExact BY <1>5 DEF LaneExact, Injective
<1>8. LaneOK BY <1>2, <1>5, <1>6, <1>7 DEF LaneOK
<1> QED BY <1>3, <1>4, <1>8, CallsParts

\* A step of the lifecycle, in which the rest does nothing.
LEMMA LifecycleKeeps ==
    ASSUME CallsInv, LifecycleNext, UNCHANGED <<approvalVars, owned, lane>>, UNCHANGED closes,
           \A c \in Calls : \/ at'[c] = at[c]
                            \/ at[c] \notin {"running", "over", "refused"}
                            \/ at[c] = "running" /\ at'[c] = "over" /\ Ended(c) /\ ~InLane(c)
    PROVE  CallsInv'
<1>1. LifecycleOK /\ ApprovalOK /\ LaneOK BY CallsParts
<1>2. UNCHANGED <<home, want, step>> BY DEF approvalVars, callFacts, callVars
<1>3. LifecycleOK' BY <1>1, LifecycleStep
<1>4. ApprovalOK' BY <1>1, ApprovalStutter
<1>5. LaneOK' BY <1>1, <1>2, LaneWaits
<1> QED BY <1>3, <1>4, <1>5 DEF CallsInv, TypeOK, GateInv, LifecycleOK, ApprovalOK, LaneOK

\* A step of the approvals, in which the rest does nothing.
LEMMA ApprovalKeeps ==
    ASSUME CallsInv, UNCHANGED <<lifecycleVars, owned, lane>>, ApprovalOK',
           \A c \in Calls : step'[c] = step[c]
                            \/ (step[c] \notin {"none", "lane", "done", "refused"} /\ step'[c] \notin {"none", "lane"})
    PROVE  CallsInv'
<1>1. LifecycleOK /\ LaneOK BY CallsParts
<1>2. UNCHANGED <<home, closes, at, want>> BY DEF lifecycleVars, callFacts
<1>3. LifecycleOK' BY <1>1, LifecycleStutter
<1>4. LaneOK' BY <1>1, <1>2, LaneStays
<1> QED BY <1>3, <1>4 DEF CallsInv, TypeOK, GateInv, LifecycleOK, ApprovalOK, LaneOK

LEMMA CallsStep ==
    ASSUME CallsInv, [Next]_vars
    PROVE  CallsInv'
<1>0. LifecycleOK /\ ApprovalOK /\ LaneOK BY CallsParts
<1>1. ASSUME NEW c \in Calls, Lifecycle(c) PROVE CallsInv'
  <2>1. (Arrive(c) \/ Resume(c)) /\ UNCHANGED <<approvalVars, owned, lane>> BY <1>1 DEF Lifecycle
  <2>2. LifecycleNext BY <2>1 DEF LifecycleNext
  <2>3. UNCHANGED closes /\ \A d \in Calls : at'[d] = at[d] \/ at[d] \notin {"running", "over", "refused"}
    BY <2>1, <1>0, ArriveAt
  <2> QED BY <2>1, <2>2, <2>3, LifecycleKeeps
<1>2. ASSUME NEW c \in Calls, Served(c) PROVE CallsInv'
  <2>1. Ended(c) /\ ~InLane(c) /\ Finish(c) /\ UNCHANGED <<approvalVars, owned, lane>> BY <1>2 DEF Served
  <2>2. LifecycleNext BY <2>1 DEF LifecycleNext
  <2>3. /\ UNCHANGED closes /\ at[c] = "running" /\ at'[c] = "over"
        /\ \A d \in Calls \ {c} : at'[d] = at[d] \/ (at[d] \in Waiting /\ at'[d] \in Waiting)
    BY <2>1, <1>0, FinishAt
  <2>4. \A d \in Calls : \/ at'[d] = at[d]
                         \/ at[d] \notin {"running", "over", "refused"}
                         \/ at[d] = "running" /\ at'[d] = "over" /\ Ended(d) /\ ~InLane(d)
    BY <2>1, <2>3 DEF Waiting
  <2> QED BY <2>1, <2>2, <2>3, <2>4, LifecycleKeeps
<1>3. ASSUME NEW s \in Servers, BeginClose(s) \/ Dispose(s) PROVE CallsInv'
  <2>1. (Quiesce(s) \/ MarkDisposed(s)) /\ UNCHANGED <<approvalVars, owned, lane>> BY <1>3 DEF BeginClose, Dispose
  <2>2. LifecycleNext BY <2>1 DEF LifecycleNext
  <2>3. UNCHANGED <<closes, at>> BY <2>1 DEF Quiesce, MarkDisposed
  <2> QED BY <2>1, <2>2, <2>3, LifecycleKeeps
<1>4. ASSUME NEW c \in Calls, Policy(c) PROVE CallsInv'
  <2>1. Kernel(c) /\ UNCHANGED <<lifecycleVars, owned, lane>> BY <1>4 DEF Policy
  <2>2. ApprovalOK' BY <2>1, <1>0, KernelKeeps
  <2>3. \A d \in Calls : step'[d] = step[d]
                         \/ (step[d] \notin {"none", "lane", "done", "refused"} /\ step'[d] \notin {"none", "lane"})
    BY <2>1, <1>0, KernelSteps
  <2> QED BY <2>1, <2>2, <2>3, ApprovalKeeps
<1>5. CASE Approval
  <2>1. (Operate \/ Own \/ Tick \/ ClearGrants) /\ UNCHANGED <<lifecycleVars, owned, lane>> BY <1>5 DEF Approval
  <2>2. ApprovalOK' BY <2>1, <1>0, OperateKeeps, OwnKeeps, TickKeeps, ClearKeeps
  <2>3. Own \/ Tick \/ ClearGrants => step' = step
    BY DEF Own, TakeUp, Look, Inspect, Issue, Withdraw, List, OwnerRest, Tick, ClearGrants, callVars
  <2>4. \A d \in Calls : step'[d] = step[d]
                         \/ (step[d] \notin {"none", "lane", "done", "refused"} /\ step'[d] \notin {"none", "lane"})
    BY <2>1, <2>3, <1>0, OperateSteps
  <2> QED BY <2>1, <2>2, <2>4, ApprovalKeeps
<1>6. CASE Close
  <2>1. CloseApprovals /\ UNCHANGED <<lifecycleVars, owned, lane>> BY <1>6 DEF Close
  <2>2. ApprovalOK' BY <2>1, <1>0, CloseKeeps
  <2>3. step' = step BY <2>1 DEF CloseApprovals, callVars
  <2> QED BY <2>1, <2>2, <2>3, ApprovalKeeps
<1>7. CASE UNCHANGED vars
  <2>1. UNCHANGED <<lifecycleVars, owned, lane>> /\ UNCHANGED approvalVars BY <1>7 DEF vars
  <2>2. ApprovalOK' BY <2>1, <1>0, ApprovalStutter
  <2>3. step' = step BY <2>1 DEF approvalVars, callVars
  <2> QED BY <2>1, <2>2, <2>3, ApprovalKeeps
<1> QED BY <1>1, <1>2, <1>3, <1>4, <1>5, <1>6, <1>7, BeginKeeps, TakeLaneKeeps, LeaveLaneKeeps DEF Next

\* The inductive invariant holds: who waits for whom, who runs beside whom, and what
\* the approvals, their grants and the calls know of each other
\* (mutations/lifecycle.ts, tools/runtime/pipeline.ts, policy, control).
THEOREM Invariance == Spec => []CallsInv
<1>1. Init => CallsInv BY CallsStart
<1>2. CallsInv /\ [Next]_vars => CallsInv' BY CallsStep
<1> QED BY <1>1, <1>2, PTL DEF Spec

\* A handler that needs a decision runs on an approval of exactly its binding that
\* is consumed in the log, and an R3 approval lets one call run.
THEOREM Backed == Spec => []ExecutionBacked
<1>1. CallsInv => ExecutionBacked BY DEF CallsInv, ApprovalInv
<1> QED BY <1>1, Invariance, PTL

\* The dedupe index names the one open approval of a binding.
THEOREM Deduplicated == Spec => []DedupeExact
<1>1. CallsInv => DedupeExact BY DEF CallsInv, ApprovalInv
<1> QED BY <1>1, Invariance, PTL

\* While the log can be written no approval stays reserved for a call that is over.
THEOREM NoOrphan == Spec => []NoOrphanReservation
<1>1. ASSUME CallsInv PROVE NoOrphanReservation
  <2> USE DEF CallsInv, TypeOK, ApprovalInv
  <2> SUFFICES ASSUME faults = 0, NEW i \in Ids, astate[i] = "reserved", runtime # "closing"
               PROVE  \E c \in aholder[i] : issued[took[c]] = i /\ step[c] \notin {"done", "refused"}
    BY DEF NoOrphanReservation
  <2>1. ApprovalTypeOK /\ GrantsExact /\ ReservationsKept /\ runtime \in {"open", "closing", "swept", "closed"}
    BY <1>1 DEF ApprovalTypeOK
  <2>2. IsActive(i) BY DEF IsActive, Active
  <2>3. runtime = "open" BY <2>1, <2>2 DEF ReservationsKept
  <2>4. PICK c \in Calls : aholder[i] = {c} /\ took[c] = agrant[i]
                           /\ step[c] \in {"reserved", "consuming", "burning", "burningOn"}
    BY <2>1, <2>3 DEF ReservationsKept, Used
  <2>5. issued[agrant[i]] = i BY <2>1 DEF GrantsExact
  <2> QED BY <2>4, <2>5
<1> QED BY <1>1, Invariance, PTL

-----------------------------------------------------------------------------
(* The calls implement ToolGate                                             *)

Refines == [Gate!GateNext]_(Gate!gateVars)

LEMMA InitRefines == Init => Gate!GateInit
<1> SUFFICES ASSUME Init PROVE Gate!GateInit OBVIOUS
<1>1. home \in [Calls -> Servers] /\ closes = {c \in Calls : want[c] \in Closing} /\ want \in [Calls -> Bindings]
  BY CallsStart DEF CallsInv, TypeOK, LifecycleTypeOK, ApprovalTypeOK
<1>2. \A c \in Calls : c \in closes => ~Free(c) BY <1>1, ClosingAssumption DEF Free
<1>3. Inside = {} BY DEF Init, ApprovalInit, Inside
<1> QED BY <1>1, <1>2, <1>3 DEF Gate!GateInit

\* Who does not pass the gate changes nothing that the gate knows of.
LEMMA GateStays ==
    ASSUME UNCHANGED <<home, want, closes>>,
           \A s \in Servers : state'[s] = "disposed" <=> state[s] = "disposed",
           \A c \in Calls : c \in Inside' <=> c \in Inside
    PROVE  Refines
<1>1. Inside' = Inside BY DEF Inside
<1>2. {s \in Servers : state'[s] = "disposed"} = {s \in Servers : state[s] = "disposed"} OBVIOUS
<1>3. {c \in Calls : ~Free(c)}' = {c \in Calls : ~Free(c)} BY DEF Free
<1> QED BY <1>1, <1>2, <1>3 DEF Refines, Gate!gateVars

\* A call inside runs, and if it writes it is at the head of its lane.
LEMMA InsideRuns ==
    ASSUME CallsInv, NEW c \in Calls, c \in Inside
    PROVE  at[c] = "running" /\ (~Free(c) => lane[home[c]][1] = c)
<1>1. LifecycleTypeOK /\ LaneOK BY CallsParts DEF LifecycleOK
<1>2. at[c] = "running" /\ (~Free(c) => InLane(c)) /\ step[c] # "lane" BY <1>1, LaneEach DEF LaneOK, LaneCall, Inside
<1> QED BY <1>1, <1>2, LaneOf

\* A call that goes on to the Policy Kernel, from the lane or past it, enters.
LEMMA Enters ==
    ASSUME CallsInv, NEW c \in Calls, at[c] = "running", step[c] \in {"none", "lane"},
           ~Free(c) => lane[home[c]][1] = c,
           Goto(c, "start"), UNCHANGED <<home, want, closes, state>>
    PROVE  Refines
<1>1. LifecycleOK /\ LifecycleTypeOK /\ LifecycleInv /\ home[c] \in Servers /\ step \in [Calls -> Steps]
  BY CallsParts DEF LifecycleOK, LifecycleTypeOK, ApprovalOK, ApprovalTypeOK
<1>2. c \notin Inside BY DEF Inside
<1>3. Inside' = Inside \cup {c} BY <1>1 DEF Inside, Goto
<1>4. state[home[c]] # "disposed"
  <2>1. state[home[c]] = "disposed" => active[home[c]] = 0 BY <1>1 DEF LifecycleInv, DisposedIsDrained, IsDrained
  <2> QED BY <2>1, <1>1, NoneRun DEF LifecycleInv
<1>5. \A d \in Inside : d \in Calls /\ at[d] = "running" /\ (~Free(d) => lane[home[d]][1] = d) /\ d # c
  BY <1>2, InsideRuns DEF Inside
<1>6. \A e \in closes, d \in Calls : at[e] = "running" /\ home[d] = home[e] /\ at[d] = "running" => d = e
  BY <1>1 DEF LifecycleInv, OrderKept
<1>7. closes \in SUBSET Calls BY <1>1 DEF LifecycleTypeOK
<1>8. c \in closes => Gate!Beside(c) = {} BY <1>5, <1>6, <1>7 DEF Gate!Beside
<1>9. Gate!Beside(c) \cap closes = {} BY <1>5, <1>6, <1>7 DEF Gate!Beside
<1>10. ~Free(c) => Gate!Beside(c) \cap {d \in Calls : ~Free(d)} = {} BY <1>5 DEF Gate!Beside
<1>11. {d \in Calls : ~Free(d)}' = {d \in Calls : ~Free(d)} BY DEF Free
<1>12. Gate!Enter(c) BY <1>2, <1>3, <1>4, <1>8, <1>9, <1>10, <1>11 DEF Gate!Enter
<1> QED BY <1>12 DEF Refines, Gate!GateNext

\* Between its policy decision and its result a call is inside; one call moves at
\* a time, and none goes back to the lane.
LEMMA Leaves ==
    ASSUME UNCHANGED <<home, want, closes, state>>,
           \A c \in Calls : step'[c] = step[c]
                            \/ (step[c] \notin {"none", "lane", "done", "refused"} /\ step'[c] \notin {"none", "lane"}),
           \A c, d \in Calls : step'[c] # step[c] /\ step'[d] # step[d] => c = d
    PROVE  Refines
<1>1. CASE \A c \in Calls : c \in Inside' <=> c \in Inside BY <1>1, GateStays
<1>2. ASSUME NEW c \in Calls, ~(c \in Inside' <=> c \in Inside) PROVE Refines
  <2>1. step'[c] # step[c] /\ c \in Inside /\ c \notin Inside' BY <1>2 DEF Inside
  <2>2. \A d \in Calls : d # c => step'[d] = step[d] BY <2>1
  <2>3. Inside' = Inside \ {c} BY <2>1, <2>2 DEF Inside
  <2>4. {d \in Calls : ~Free(d)}' = {d \in Calls : ~Free(d)} BY DEF Free
  <2>5. Gate!Leave(c) BY <2>1, <2>3, <2>4 DEF Gate!Leave
  <2> QED BY <2>5 DEF Refines, Gate!GateNext
<1> QED BY <1>1, <1>2

\* The resources of a server go when nobody is inside.
LEMMA Disposes ==
    ASSUME CallsInv, NEW s \in Servers, MarkDisposed(s), step' = step
    PROVE  Refines
<1>1. LifecycleOK /\ LifecycleTypeOK /\ LifecycleInv BY CallsParts DEF LifecycleOK
<1>2. s \notin {x \in Servers : state[x] = "disposed"} BY DEF MarkDisposed
<1>3. ASSUME NEW c \in Inside PROVE home[c] # s
  <2>1. c \in Calls /\ at[c] = "running" BY <1>3, InsideRuns DEF Inside
  <2>2. active[s] = 0 BY DEF MarkDisposed, IsDrained
  <2> QED BY <2>1, <2>2, <1>1, NoneRun DEF LifecycleInv
<1>4. {x \in Servers : state'[x] = "disposed"} = {x \in Servers : state[x] = "disposed"} \cup {s}
  BY <1>1 DEF MarkDisposed, LifecycleTypeOK
<1>5. Inside' = Inside /\ UNCHANGED <<home, closes, want>> BY DEF Inside, MarkDisposed, callFacts
<1>6. {d \in Calls : ~Free(d)}' = {d \in Calls : ~Free(d)} BY <1>5 DEF Free
<1>7. Gate!Dispose(s) BY <1>2, <1>3, <1>4, <1>5, <1>6 DEF Gate!Dispose
<1> QED BY <1>7 DEF Refines, Gate!GateNext

LEMMA NextRefines ==
    ASSUME CallsInv, [Next]_vars
    PROVE  Refines
<1>0. LifecycleOK /\ ApprovalOK /\ LaneOK /\ LifecycleTypeOK /\ step \in [Calls -> Steps] /\ at \in [Calls -> Places]
  BY CallsParts DEF LifecycleOK, ApprovalOK, ApprovalTypeOK, LifecycleTypeOK
<1>1. ASSUME NEW c \in Calls, Lifecycle(c) PROVE Refines
  <2>1. UNCHANGED <<home, want, closes, step>> BY <1>1, <1>0, ArriveAt DEF Lifecycle, approvalVars, callVars
  <2>2. state' = state
    BY <1>1 DEF Lifecycle, Arrive, Refuse, Share, WaitForExclusiveClear, RunExclusive, Resume, TakeTurn,
                EnterAlone, EnterShared
  <2> QED BY <2>1, <2>2, GateStays DEF Inside
<1>2. ASSUME NEW c \in Calls, Served(c) PROVE Refines
  <2>1. UNCHANGED <<home, want, closes, state, step>> BY <1>2, <1>0, FinishAt DEF Served, approvalVars, callVars
  <2> QED BY <2>1, GateStays DEF Inside
<1>3. ASSUME NEW s \in Servers, BeginClose(s) PROVE Refines
  <2>1. UNCHANGED <<home, want, closes, step>> BY <1>3 DEF BeginClose, Quiesce, callFacts, approvalVars, callVars
  <2>2. \A x \in Servers : state'[x] = "disposed" <=> state[x] = "disposed"
    BY <1>3, <1>0 DEF BeginClose, Quiesce, LifecycleTypeOK
  <2> QED BY <2>1, <2>2, GateStays DEF Inside
<1>4. ASSUME NEW s \in Servers, Dispose(s) PROVE Refines
  BY <1>4, Disposes DEF Dispose, approvalVars, callVars
<1>5. ASSUME NEW c \in Calls, Policy(c) PROVE Refines
  <2>1. Kernel(c) /\ UNCHANGED <<home, want, closes, state>> BY <1>5 DEF Policy, lifecycleVars, callFacts
  <2> QED BY <2>1, <1>0, KernelSteps, Leaves
<1>6. CASE Approval
  <2>1. UNCHANGED <<home, want, closes, state>> BY <1>6 DEF Approval, lifecycleVars, callFacts
  <2>2. CASE Operate BY <2>1, <2>2, <1>0, OperateSteps, Leaves
  <2>3. CASE Own \/ Tick \/ ClearGrants
    <3>1. step' = step
      BY <2>3 DEF Own, TakeUp, Look, Inspect, Issue, Withdraw, List, OwnerRest, Tick, ClearGrants, callVars
    <3> QED BY <2>1, <3>1, GateStays DEF Inside
  <2> QED BY <1>6, <2>2, <2>3 DEF Approval
<1>7. ASSUME NEW c \in Calls, Begin(c) PROVE Refines
  <2>1. /\ at[c] = "running" /\ step[c] = "none" /\ UNCHANGED <<home, want, closes, state>>
        /\ (Free(c) /\ Goto(c, "start")) \/ Goto(c, "lane")
    BY <1>7 DEF Begin, lifecycleVars, callFacts
  <2>2. CASE Free(c) /\ Goto(c, "start") BY <2>1, <2>2, Enters
  <2>3. CASE Goto(c, "lane")
    <3>1. \A d \in Calls : d \in Inside' <=> d \in Inside BY <2>1, <2>3, <1>0 DEF Inside, Goto
    <3> QED BY <2>1, <3>1, GateStays
  <2> QED BY <2>1, <2>2, <2>3
<1>8. ASSUME NEW c \in Calls, TakeLane(c) PROVE Refines
  <2>1. /\ step[c] = "lane" /\ Head(lane[home[c]]) = c /\ UNCHANGED <<home, want, closes, state>>
        /\ Goto(c, "start") \/ Goto(c, "refused")
    BY <1>8 DEF TakeLane, lifecycleVars, callFacts
  <2>2. CASE Goto(c, "start")
    <3>1. at[c] = "running" /\ ~Free(c) /\ InLane(c) BY <2>1, <1>0, LaneEach DEF LaneOK, LaneCall
    <3>2. lane[home[c]] \in Seq(Calls) /\ lane[home[c]] # << >> BY <3>1, <1>0, LaneOf DEF InLane
    <3>3. lane[home[c]][1] = c BY <2>1, <3>2, Taken
    <3> QED BY <2>1, <2>2, <3>1, <3>3, Enters
  <2>3. CASE Goto(c, "refused")
    <3>1. \A d \in Calls : d \in Inside' <=> d \in Inside BY <2>1, <2>3, <1>0 DEF Inside, Goto
    <3> QED BY <2>1, <3>1, GateStays
  <2> QED BY <2>1, <2>2, <2>3
<1>9. ASSUME NEW c \in Calls, LeaveLane(c) PROVE Refines
  <2>1. UNCHANGED <<home, want, closes, state, step>>
    BY <1>9 DEF LeaveLane, lifecycleVars, callFacts, approvalVars, callVars
  <2> QED BY <2>1, GateStays DEF Inside
<1>10. CASE Close \/ UNCHANGED vars
  <2>1. UNCHANGED <<home, want, closes, state, step>>
    BY <1>10 DEF Close, CloseApprovals, vars, lifecycleVars, callFacts, approvalVars, callVars
  <2> QED BY <2>1, GateStays DEF Inside
<1> QED BY <1>1, <1>2, <1>3, <1>4, <1>5, <1>6, <1>7, <1>8, <1>9, <1>10 DEF Next

\* The lifecycle and the lane keep what ToolGate promises: close_workspace runs beside
\* no other call of its server, the tools that write run one after the other, and no
\* call is inside on a server whose resources are gone.
THEOREM Implementation == Spec => ImplementsGate
<1>1. Init => Gate!GateInit BY InitRefines
<1>2. CallsInv /\ [Next]_vars => Refines BY NextRefines
<1> QED BY <1>1, <1>2, Invariance, PTL DEF Spec, ImplementsGate, Gate!GateSpec, Refines

=============================================================================
