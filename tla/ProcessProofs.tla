--------------------------- MODULE ProcessProofs ---------------------------
(***************************************************************************)
(* Proofs about ProcessManager that hold for any number of processes and    *)
(* for every limit and bound.                                               *)
(***************************************************************************)
EXTENDS ProcessInvariant, TLAPS, FiniteSetTheorems, WellFoundedInduction

USE ManagerAssumption

-----------------------------------------------------------------------------
(* Counting places *)

\* Among any process numbers there is a least one, the oldest record.
LEMMA LeastExists ==
    ASSUME NEW T \in SUBSET Nat, T # {}
    PROVE  \E x \in T : \A y \in T : x <= y
<1>1. PICK x \in T : \A y \in T : ~ (<<y, x>> \in OpToRel(<, Nat))
  BY NatLessThanWellFounded, WFMin
<1>2. \A y \in T : ~ (y < x) BY <1>1 DEF OpToRel
<1> QED BY <1>2

\* A limit that holds of a set holds of its subsets.
LEMMA Shrinks ==
    ASSUME NEW S, IsFiniteSet(S), NEW T \in SUBSET S, NEW n \in Nat, Cardinality(S) <= n
    PROVE  Cardinality(T) <= n
<1>1. IsFiniteSet(T) /\ Cardinality(T) <= Cardinality(S) BY FS_Subset
<1>2. Cardinality(S) \in Nat /\ Cardinality(T) \in Nat BY <1>1, FS_CardinalityType
<1> QED BY <1>1, <1>2

\* Below the limit there is room for one more.
LEMMA GrowsBelow ==
    ASSUME NEW S, IsFiniteSet(S), NEW x, NEW T \in SUBSET (S \cup {x}),
           NEW n \in Nat, Cardinality(S) < n
    PROVE  Cardinality(T) <= n
<1>1. IsFiniteSet(S \cup {x}) BY FS_AddElement
<1>2. Cardinality(S) \in Nat BY FS_CardinalityType
<1>3. \/ Cardinality(S \cup {x}) = Cardinality(S)
      \/ Cardinality(S \cup {x}) = Cardinality(S) + 1
  BY FS_AddElement, Zenon
<1> QED BY <1>1, <1>2, <1>3, Shrinks

\* At the limit one element can take the place of another.
LEMMA Replaces ==
    ASSUME NEW S, IsFiniteSet(S), NEW x, NEW v \in S, NEW T \in SUBSET ((S \ {v}) \cup {x}),
           NEW n \in Nat, Cardinality(S) <= n
    PROVE  Cardinality(T) <= n
<1>1. IsFiniteSet(S \ {v}) /\ Cardinality(S \ {v}) = Cardinality(S) - 1 BY FS_RemoveElement
<1>2. Cardinality(S) \in Nat BY FS_CardinalityType
<1>3. Cardinality(S \ {v}) < n BY <1>1, <1>2
<1> QED BY <1>1, <1>3, GrowsBelow

-----------------------------------------------------------------------------
(* The inductive invariant, part by part, with one step per action *)

\* What a failed answer of the host does to the bookkeeping of faults.
LEMMA FaultTyped ==
    ASSUME TypeOK, NEW p \in Proc, Lose(p) \/ NoFault \/ (Fault /\ UNCHANGED lost)
    PROVE  lost' \in SUBSET Proc /\ faults' \in 0..MaxFault
<1>1. lost \in SUBSET Proc /\ faults \in 0..MaxFault BY DEF TypeOK
<1>2. CASE Lose(p) BY <1>1, <1>2 DEF Lose, Fault
<1>3. CASE NoFault BY <1>1, <1>3 DEF NoFault
<1>4. CASE Fault /\ UNCHANGED lost BY <1>1, <1>4 DEF Fault
<1> QED BY <1>2, <1>3, <1>4

\* A revocation, on its own or as the first half of close, keeps the types.
LEMMA BeginRevokeTyped ==
    ASSUME TypeOK, generation <= MaxRevoke, BeginRevoke,
           state' \in {"open", "closing", "closed"}
    PROVE  TypeOK'
<1> DEFINE S == {p \in known : Terminable(p)}
<1>1. /\ status' = [p \in Proc |-> IF p \in S THEN "ended" ELSE status[p]]
      /\ term' = [p \in Proc |-> IF p \notin S THEN term[p]
                                 ELSE IF handle[p] = "live" THEN "killing" ELSE "waiting"]
  BY DEF BeginRevoke, BeginTerminate
<1>2. joined' \in [calls : SUBSET Proc, endings : SUBSET Proc] BY DEF BeginRevoke, TypeOK
<1> HIDE DEF S
<1>3. status' \in [Proc -> Status] BY <1>1 DEF Status, TypeOK
<1>4. term' \in [Proc -> TermState] BY <1>1 DEF TermState, TypeOK
<1>5. generation' \in 0..(MaxRevoke + 1) BY DEF BeginRevoke, TypeOK
<1>6. flagged' \in SUBSET Proc BY DEF BeginRevoke, TypeOK
<1> QED BY <1>2, <1>3, <1>4, <1>5, <1>6 DEF BeginRevoke, TypeOK

\* The types of the variables; an admitted generation is at most MaxRevoke
\* because only an open manager admits and only the close makes the last one.
LEMMA TypeOKNext ==
    ASSUME IInv, [Next]_vars
    PROVE  TypeOK'
<1> USE DEF IInv, TypeOK
<1>1. ASSUME NEW p \in Proc, Start(p) PROVE TypeOK'
  <2>1. start' \in [Proc -> StartState] BY <1>1 DEF Start, StartState
  <2>2. admitted' \in [Proc -> 0..MaxRevoke]
    <3>1. CASE state = "open"
      <4>1. generation \in 0..MaxRevoke BY <3>1 DEF GenerationInv
      <4> QED BY <1>1, <4>1 DEF Start
    <3>2. CASE state # "open" BY <1>1, <3>2 DEF Start
    <3> QED BY <3>1, <3>2
  <2>3. quota' \in [Proc -> {"none", "active", "terminal"}] BY <1>1 DEF Start
  <2> QED BY <1>1, <2>1, <2>2, <2>3 DEF Start, manager, record
<1>2. ASSUME NEW p \in Proc, VerifyFails(p) PROVE TypeOK'
  BY <1>2 DEF VerifyFails, Fault, manager, record, StartState, Status, ExitState,
       TermState
<1>3. ASSUME NEW p \in Proc, Verified(p) PROVE TypeOK'
  <2>1. start' \in [Proc -> StartState] BY <1>3 DEF Verified, StartState
  <2>2. known' = known \/ known' = known \cup {p} BY <1>3 DEF Verified
  <2>3. known' \in SUBSET Proc BY <2>2
  <2>4. status' \in [Proc -> Status] BY <1>3 DEF Verified, Status
  <2>5. quota' \in [Proc -> {"none", "active", "terminal"}] BY <1>3 DEF Verified
  <2> QED BY <1>3, <2>1, <2>3, <2>4, <2>5 DEF Verified, manager
<1>4. ASSUME NEW p \in Proc, Launch(p) PROVE TypeOK'
  BY <1>4 DEF Launch, manager, record, StartState, Status, ExitState, TermState
<1>5. ASSUME NEW p \in Proc, StartReturns(p) PROVE TypeOK'
  BY <1>5 DEF StartReturns, Overtaken, SettleHandle, manager, StartState, Status,
       ExitState, TermState
<1>6. ASSUME NEW p \in Proc, StartRejects(p) PROVE TypeOK'
  <2>1. start' \in [Proc -> StartState] BY <1>6 DEF StartRejects, Abandon, StartState
  <2>2. handle' \in [Proc -> {"unset", "live", "null"}]
    BY <1>6 DEF StartRejects, Abandon, SettleHandle
  <2>3. child' \in [Proc -> {"none", "alive", "ended"}]
    BY <1>6 DEF StartRejects, Stopped
  <2>4. lost' = lost \/ lost' = lost \cup {p} BY <1>6 DEF StartRejects
  <2>5. lost' \in SUBSET Proc BY <2>4
  <2>6. faults' \in 0..MaxFault BY <1>6 DEF StartRejects, Fault
  <2> QED BY <1>6, <2>1, <2>2, <2>3, <2>5, <2>6 DEF StartRejects, Abandon, manager
<1>7. ASSUME NEW p \in Proc, Recorded(p) PROVE TypeOK'
  BY <1>7 DEF Recorded, Overtaken, manager, StartState, Status, ExitState, TermState
<1>8. ASSUME NEW p \in Proc, RecordFails(p) PROVE TypeOK'
  BY <1>8 DEF RecordFails, Fault, SettleHandle, Abandon, manager, StartState, Status,
       ExitState, TermState
<1>9. ASSUME NEW p \in Proc, Joined(p) PROVE TypeOK'
  BY <1>9 DEF Joined, Settled, Forget, manager, StartState, Status, ExitState, TermState
<1>10. ASSUME NEW p \in Proc, CleanedUp(p) PROVE TypeOK'
  <2>1. start' \in [Proc -> StartState] BY <1>10 DEF CleanedUp, Forget, StartState
  <2>2. known' \in SUBSET Proc BY <1>10 DEF CleanedUp, Forget
  <2>3. quota' \in [Proc -> {"none", "active", "terminal"}] BY <1>10 DEF CleanedUp, Forget
  <2>4. child' \in [Proc -> {"none", "alive", "ended"}]
    BY <1>10 DEF CleanedUp, Stopped, Lose
  <2>5. Lose(p) \/ NoFault BY <1>10 DEF CleanedUp
  <2>6. lost' \in SUBSET Proc /\ faults' \in 0..MaxFault BY <2>5, FaultTyped
  <2> QED BY <1>10, <2>1, <2>2, <2>3, <2>4, <2>6 DEF CleanedUp, Forget, manager
<1>11. ASSUME NEW p \in Proc, ChildEnds(p) PROVE TypeOK'
  BY <1>11 DEF ChildEnds, manager, record, StartState, Status, ExitState, TermState
<1>12. ASSUME NEW p \in Proc, Report(p) PROVE TypeOK'
  <2>1. status' \in [Proc -> Status] BY <1>12 DEF Report, BeginExit, Status
  <2>2. exit' \in [Proc -> ExitState] BY <1>12 DEF Report, BeginExit, ExitState
  <2> QED BY <1>12, <2>1, <2>2 DEF Report, BeginExit, manager
<1>13. ASSUME NEW p \in Proc, HostCrashed(p) PROVE TypeOK'
  <2>1. status' \in [Proc -> Status] BY <1>13 DEF HostCrashed, BeginExit, Status
  <2>2. exit' \in [Proc -> ExitState] BY <1>13 DEF HostCrashed, BeginExit, ExitState
  <2>3. child' \in [Proc -> {"none", "alive", "ended"}]
    BY <1>13 DEF HostCrashed, Stopped, Lose
  <2>4. Lose(p) \/ (Fault /\ UNCHANGED lost) BY <1>13 DEF HostCrashed
  <2>5. lost' \in SUBSET Proc /\ faults' \in 0..MaxFault BY <2>4, FaultTyped
  <2> QED BY <1>13, <2>1, <2>2, <2>3, <2>5 DEF HostCrashed, BeginExit, manager
<1>14. ASSUME NEW p \in Proc, VerifiedAgain(p) PROVE TypeOK'
  BY <1>14 DEF VerifiedAgain, Fault, manager, StartState, Status, ExitState, TermState
<1>15. ASSUME NEW p \in Proc, ExitOver(p) PROVE TypeOK'
  BY <1>15 DEF ExitOver, Fault, Answer, Retained, Evictable, HasRoom, Victims,
       ReserveTerminal, Throws, Earned, manager, StartState, Status, ExitState,
       TermState
<1>16. ASSUME NEW p \in Proc, HandleSettled(p) PROVE TypeOK'
  BY <1>16 DEF HandleSettled, AfterHandle, manager, StartState, Status, ExitState,
       TermState
<1>17. ASSUME NEW p \in Proc, Killed(p) PROVE TypeOK'
  <2>1. term' \in [Proc -> TermState] BY <1>17 DEF Killed, TermState
  <2>2. refused' = refused \/ refused' = refused \cup {p} BY <1>17 DEF Killed
  <2>3. refused' \in SUBSET Proc BY <2>2
  <2>4. child' \in [Proc -> {"none", "alive", "ended"}]
    BY <1>17 DEF Killed, Stopped, Lose
  <2>5. Lose(p) \/ NoFault \/ (Fault /\ UNCHANGED lost) BY <1>17, Zenon DEF Killed
  <2>6. lost' \in SUBSET Proc /\ faults' \in 0..MaxFault BY <2>5, FaultTyped
  <2> QED BY <1>17, <2>1, <2>3, <2>4, <2>6 DEF Killed, manager
<1>18. ASSUME NEW p \in Proc, TermOver(p) PROVE TypeOK'
  BY <1>18 DEF TermOver, Fault, Answer, Retained, Evictable, HasRoom, Victims,
       ReserveTerminal, Throws, manager, StartState, Status, ExitState, TermState
<1>19. ASSUME NEW p \in Proc, Terminate(p) PROVE TypeOK'
  BY <1>19 DEF Terminate, Active, Terminable, BeginTerminate, manager, StartState,
       Status, ExitState, TermState
<1>20. ASSUME NEW p \in Proc, LimitOutput(p) PROVE TypeOK'
  BY <1>20 DEF LimitOutput, Active, Terminable, BeginTerminate, LimitOrExpire, manager,
       StartState, Status, ExitState, TermState
<1>21. ASSUME NEW p \in Proc, Expire(p) PROVE TypeOK'
  BY <1>21 DEF Expire, Active, Terminable, BeginTerminate, LimitOrExpire, manager,
       StartState, Status, ExitState, TermState
<1>22. ASSUME NEW p \in Proc, Retire(p) PROVE TypeOK'
  BY <1>22 DEF Retire, Settled, manager, StartState, Status, ExitState, TermState
<1>23. ASSUME NEW S \in SUBSET Proc, Drain(S) PROVE TypeOK'
  BY <1>23 DEF Drain, Active, Terminable, BeginTerminate, manager, StartState, Status,
       ExitState, TermState
<1>24. ASSUME RevokeAll PROVE TypeOK'
  BY <1>24, BeginRevokeTyped DEF RevokeAll
<1>25. ASSUME RevokeOver PROVE TypeOK'
  BY <1>25 DEF RevokeOver, InCall, Settled, record, StartState, Status, ExitState,
       TermState
<1>26. ASSUME Close PROVE TypeOK'
  <2>1. CASE revoking BY <1>26, <2>1 DEF Close, record
  <2>2. CASE ~revoking BY <1>26, <2>2, BeginRevokeTyped DEF Close, FirstClose, GenerationInv
  <2> QED BY <2>1, <2>2
<1>27. ASSUME CloseOver PROVE TypeOK'
  BY <1>27 DEF CloseOver, StartState, Status, ExitState, TermState
<1>28. ASSUME UNCHANGED vars PROVE TypeOK'
  BY <1>28 DEF vars
<1> QED
  BY <1>1, <1>2, <1>3, <1>4, <1>5, <1>6, <1>7, <1>8, <1>9, <1>10, <1>11, <1>12, <1>13,
       <1>14, <1>15, <1>16, <1>17, <1>18, <1>19, <1>20, <1>21, <1>22, <1>23, <1>24,
       <1>25, <1>26, <1>27, <1>28
  DEF Next, StartStep, EndStep

\* How far start has come tells what it has made.
LEMMA CallInvNext ==
    ASSUME IInv, [Next]_vars
    PROVE  CallInv'
<1> USE DEF IInv, TypeOK, CallInv, EndingInv, InCall, Gone, StartState, Status,
     ExitState, TermState
<1>1. ASSUME NEW p \in Proc, Start(p) PROVE CallInv'
  BY <1>1 DEF Start, manager, record
<1>2. ASSUME NEW p \in Proc, VerifyFails(p) PROVE CallInv'
  BY <1>2 DEF VerifyFails, Fault, manager, record
<1>3. ASSUME NEW p \in Proc, Verified(p) PROVE CallInv'
  BY <1>3 DEF Verified, Admissible, manager
<1>4. ASSUME NEW p \in Proc, Launch(p) PROVE CallInv'
  BY <1>4 DEF Launch, manager, record
<1>5. ASSUME NEW p \in Proc, StartReturns(p) PROVE CallInv'
  BY <1>5 DEF StartReturns, Overtaken, SettleHandle, manager
<1>6. ASSUME NEW p \in Proc, StartRejects(p) PROVE CallInv'
  BY <1>6 DEF StartRejects, Stopped, Fault, SettleHandle, Abandon, manager
<1>7. ASSUME NEW p \in Proc, Recorded(p) PROVE CallInv'
  BY <1>7 DEF Recorded, Overtaken, manager
<1>8. ASSUME NEW p \in Proc, RecordFails(p) PROVE CallInv'
  BY <1>8 DEF RecordFails, Fault, SettleHandle, Abandon, manager
<1>9. ASSUME NEW p \in Proc, Joined(p) PROVE CallInv'
  BY <1>9 DEF Joined, Settled, Forget, manager
<1>10. ASSUME NEW p \in Proc, CleanedUp(p) PROVE CallInv'
  BY <1>10 DEF CleanedUp, Stopped, Fault, NoFault, Lose, Forget, manager
<1>11. ASSUME NEW p \in Proc, ChildEnds(p) PROVE CallInv'
  BY <1>11 DEF ChildEnds, manager, record
<1>12. ASSUME NEW p \in Proc, Report(p) PROVE CallInv'
  BY <1>12 DEF Report, Active, BeginExit, manager
<1>13. ASSUME NEW p \in Proc, HostCrashed(p) PROVE CallInv'
  BY <1>13 DEF HostCrashed, Active, Stopped, Fault, Lose, BeginExit, manager
<1>14. ASSUME NEW p \in Proc, VerifiedAgain(p) PROVE CallInv'
  BY <1>14 DEF VerifiedAgain, Fault, manager
<1>15. ASSUME NEW p \in Proc, ExitOver(p) PROVE CallInv'
  BY <1>15 DEF ExitOver, Fault, Answer, Retained, Evictable, HasRoom, Victims,
       ReserveTerminal, Throws, Earned, manager
<1>16. ASSUME NEW p \in Proc, HandleSettled(p) PROVE CallInv'
  BY <1>16 DEF HandleSettled, AfterHandle, manager
<1>17. ASSUME NEW p \in Proc, Killed(p) PROVE CallInv'
  BY <1>17 DEF Killed, Stopped, Fault, NoFault, Lose, manager
<1>18. ASSUME NEW p \in Proc, TermOver(p) PROVE CallInv'
  BY <1>18 DEF TermOver, Fault, Answer, Retained, Evictable, HasRoom, Victims,
       ReserveTerminal, Throws, manager
<1>19. ASSUME NEW p \in Proc, Terminate(p) PROVE CallInv'
  BY <1>19 DEF Terminate, Active, Terminable, BeginTerminate, manager
<1>20. ASSUME NEW p \in Proc, LimitOutput(p) PROVE CallInv'
  BY <1>20 DEF LimitOutput, Active, Terminable, BeginTerminate, LimitOrExpire, manager
<1>21. ASSUME NEW p \in Proc, Expire(p) PROVE CallInv'
  BY <1>21 DEF Expire, Active, Terminable, BeginTerminate, LimitOrExpire, manager
<1>22. ASSUME NEW p \in Proc, Retire(p) PROVE CallInv'
  BY <1>22 DEF Retire, Settled, manager
<1>23. ASSUME NEW S \in SUBSET Proc, Drain(S) PROVE CallInv'
  BY <1>23 DEF Drain, Active, Terminable, BeginTerminate, manager
<1>24. ASSUME RevokeAll PROVE CallInv'
  BY <1>24 DEF RevokeAll, Active, Settled, Ending, Terminable, BeginTerminate,
       BeginRevoke
<1>25. ASSUME RevokeOver PROVE CallInv'
  BY <1>25 DEF RevokeOver, Settled, record
<1>26. ASSUME Close PROVE CallInv'
  BY <1>26 DEF Close, Active, Settled, Ending, Terminable, BeginTerminate, BeginRevoke,
       FirstClose, record
<1>27. ASSUME CloseOver PROVE CallInv'
  BY <1>27 DEF CloseOver
<1>28. ASSUME UNCHANGED vars PROVE CallInv'
  BY <1>28 DEF vars
<1> QED
  BY <1>1, <1>2, <1>3, <1>4, <1>5, <1>6, <1>7, <1>8, <1>9, <1>10, <1>11, <1>12, <1>13,
       <1>14, <1>15, <1>16, <1>17, <1>18, <1>19, <1>20, <1>21, <1>22, <1>23, <1>24,
       <1>25, <1>26, <1>27, <1>28
  DEF Next, StartStep, EndStep

\* The record is no longer active exactly when an ending has begun, and what an
\* ending has seen of the child stays so.
LEMMA EndingInvNext ==
    ASSUME IInv, [Next]_vars
    PROVE  EndingInv'
<1> USE DEF IInv, TypeOK, EndingInv, CallInv, RecordInv, InCall, Settled, Gone,
     Standing, StartState, Status, ExitState, TermState
<1>1. ASSUME NEW p \in Proc, Start(p) PROVE EndingInv'
  BY <1>1 DEF Start, manager, record
<1>2. ASSUME NEW p \in Proc, VerifyFails(p) PROVE EndingInv'
  BY <1>2 DEF VerifyFails, Fault, manager, record
<1>3. ASSUME NEW p \in Proc, Verified(p) PROVE EndingInv'
  BY <1>3 DEF Verified, Admissible, manager
<1>4. ASSUME NEW p \in Proc, Launch(p) PROVE EndingInv'
  BY <1>4 DEF Launch, manager, record
<1>5. ASSUME NEW p \in Proc, StartReturns(p) PROVE EndingInv'
  <2>1. Overtaken(p) => exit[p] # "none" \/ term[p] # "none"
    BY <1>5 DEF StartReturns, Overtaken, InCall, Status
  <2>2. handle' = [handle EXCEPT ![p] = "live"] BY <1>5 DEF StartReturns, SettleHandle
  <2> QED BY <1>5, <2>1, <2>2 DEF StartReturns, Gone
<1>6. ASSUME NEW p \in Proc, StartRejects(p) PROVE EndingInv'
  BY <1>6 DEF StartRejects, Stopped, Fault, SettleHandle, Abandon, manager
<1>7. ASSUME NEW p \in Proc, Recorded(p) PROVE EndingInv'
  BY <1>7 DEF Recorded, Overtaken, manager
<1>8. ASSUME NEW p \in Proc, RecordFails(p) PROVE EndingInv'
  BY <1>8 DEF RecordFails, Fault, SettleHandle, Abandon, manager
<1>9. ASSUME NEW p \in Proc, Joined(p) PROVE EndingInv'
  BY <1>9 DEF Joined, Forget, manager
<1>10. ASSUME NEW p \in Proc, CleanedUp(p) PROVE EndingInv'
  BY <1>10 DEF CleanedUp, Stopped, Fault, NoFault, Lose, Forget, manager
<1>11. ASSUME NEW p \in Proc, ChildEnds(p) PROVE EndingInv'
  BY <1>11 DEF ChildEnds, manager, record
<1>12. ASSUME NEW p \in Proc, Report(p) PROVE EndingInv'
  BY <1>12 DEF Report, Active, BeginExit, manager
<1>13. ASSUME NEW p \in Proc, HostCrashed(p) PROVE EndingInv'
  BY <1>13 DEF HostCrashed, Active, Stopped, Fault, Lose, BeginExit, manager
<1>14. ASSUME NEW p \in Proc, VerifiedAgain(p) PROVE EndingInv'
  BY <1>14 DEF VerifiedAgain, Fault, manager
<1>15. ASSUME NEW p \in Proc, ExitOver(p) PROVE EndingInv'
  BY <1>15 DEF ExitOver, Fault, Answer, Retained, Evictable, HasRoom, Victims,
       ReserveTerminal, Throws, Earned, manager
<1>16. ASSUME NEW p \in Proc, HandleSettled(p) PROVE EndingInv'
  BY <1>16 DEF HandleSettled, AfterHandle, manager
<1>17. ASSUME NEW p \in Proc, Killed(p) PROVE EndingInv'
  BY <1>17 DEF Killed, Stopped, Fault, NoFault, Lose, manager
<1>18. ASSUME NEW p \in Proc, TermOver(p) PROVE EndingInv'
  BY <1>18 DEF TermOver, Fault, Answer, Retained, Evictable, HasRoom, Victims,
       ReserveTerminal, Throws, manager
<1>19. ASSUME NEW p \in Proc, Terminate(p) PROVE EndingInv'
  BY <1>19 DEF Terminate, Active, Terminable, BeginTerminate, manager
<1>20. ASSUME NEW p \in Proc, LimitOutput(p) PROVE EndingInv'
  BY <1>20 DEF LimitOutput, Active, Terminable, BeginTerminate, LimitOrExpire, manager
<1>21. ASSUME NEW p \in Proc, Expire(p) PROVE EndingInv'
  BY <1>21 DEF Expire, Active, Terminable, BeginTerminate, LimitOrExpire, manager
<1>22. ASSUME NEW p \in Proc, Retire(p) PROVE EndingInv'
  BY <1>22 DEF Retire, manager
<1>23. ASSUME NEW S \in SUBSET Proc, Drain(S) PROVE EndingInv'
  BY <1>23 DEF Drain, Active, Terminable, BeginTerminate, manager
<1>24. ASSUME RevokeAll PROVE EndingInv'
  BY <1>24 DEF RevokeAll, Active, Ending, Terminable, BeginTerminate, BeginRevoke
<1>25. ASSUME RevokeOver PROVE EndingInv'
  BY <1>25 DEF RevokeOver, record
<1>26. ASSUME Close PROVE EndingInv'
  BY <1>26 DEF Close, Active, Ending, Terminable, BeginTerminate, BeginRevoke,
       FirstClose, record
<1>27. ASSUME CloseOver PROVE EndingInv'
  BY <1>27 DEF CloseOver
<1>28. ASSUME UNCHANGED vars PROVE EndingInv'
  BY <1>28 DEF vars
<1> QED
  BY <1>1, <1>2, <1>3, <1>4, <1>5, <1>6, <1>7, <1>8, <1>9, <1>10, <1>11, <1>12, <1>13,
       <1>14, <1>15, <1>16, <1>17, <1>18, <1>19, <1>20, <1>21, <1>22, <1>23, <1>24,
       <1>25, <1>26, <1>27, <1>28
  DEF Next, StartStep, EndStep

\* A record leaves the table only when its ending is settled or its start fails.
LEMMA RecordInvNext ==
    ASSUME IInv, [Next]_vars
    PROVE  RecordInv'
<1> USE DEF IInv, TypeOK, RecordInv, CallInv, EndingInv, Accounted, GenerationInv,
     InCall, Active, Settled, Gone, Standing, StartState, Status, ExitState, TermState
<1>1. ASSUME NEW p \in Proc, Start(p) PROVE RecordInv'
  BY <1>1 DEF Start, manager, record
<1>2. ASSUME NEW p \in Proc, VerifyFails(p) PROVE RecordInv'
  BY <1>2 DEF VerifyFails, Fault, manager, record
<1>3. ASSUME NEW p \in Proc, Verified(p) PROVE RecordInv'
  BY <1>3 DEF Verified, Admissible, manager
<1>4. ASSUME NEW p \in Proc, Launch(p) PROVE RecordInv'
  BY <1>4 DEF Launch, manager, record
<1>5. ASSUME NEW p \in Proc, StartReturns(p) PROVE RecordInv'
  BY <1>5 DEF StartReturns, Overtaken, SettleHandle, manager
<1>6. ASSUME NEW p \in Proc, StartRejects(p) PROVE RecordInv'
  BY <1>6 DEF StartRejects, Stopped, Fault, SettleHandle, Abandon, manager
<1>7. ASSUME NEW p \in Proc, Recorded(p) PROVE RecordInv'
  BY <1>7 DEF Recorded, Overtaken, manager
<1>8. ASSUME NEW p \in Proc, RecordFails(p) PROVE RecordInv'
  BY <1>8 DEF RecordFails, Fault, SettleHandle, Abandon, manager
<1>9. ASSUME NEW p \in Proc, Joined(p) PROVE RecordInv'
  BY <1>9 DEF Joined, Forget, manager
<1>10. ASSUME NEW p \in Proc, CleanedUp(p) PROVE RecordInv'
  BY <1>10 DEF CleanedUp, Stopped, Fault, NoFault, Lose, Forget, manager
<1>11. ASSUME NEW p \in Proc, ChildEnds(p) PROVE RecordInv'
  BY <1>11 DEF ChildEnds, manager, record
<1>12. ASSUME NEW p \in Proc, Report(p) PROVE RecordInv'
  BY <1>12 DEF Report, BeginExit, manager
<1>13. ASSUME NEW p \in Proc, HostCrashed(p) PROVE RecordInv'
  BY <1>13 DEF HostCrashed, Stopped, Fault, Lose, BeginExit, manager
<1>14. ASSUME NEW p \in Proc, VerifiedAgain(p) PROVE RecordInv'
  BY <1>14 DEF VerifiedAgain, Fault, manager
<1>15. ASSUME NEW p \in Proc, ExitOver(p) PROVE RecordInv'
  BY <1>15 DEF ExitOver, Fault, Answer, Retained, Evictable, HasRoom, Victims,
       ReserveTerminal, Throws, Earned, manager
<1>16. ASSUME NEW p \in Proc, HandleSettled(p) PROVE RecordInv'
  BY <1>16 DEF HandleSettled, AfterHandle, manager
<1>17. ASSUME NEW p \in Proc, Killed(p) PROVE RecordInv'
  BY <1>17 DEF Killed, Stopped, Fault, NoFault, Lose, manager
<1>18. ASSUME NEW p \in Proc, TermOver(p) PROVE RecordInv'
  BY <1>18 DEF TermOver, Fault, Answer, Retained, Evictable, HasRoom, Victims,
       ReserveTerminal, Throws, manager
<1>19. ASSUME NEW p \in Proc, Terminate(p) PROVE RecordInv'
  BY <1>19 DEF Terminate, Terminable, BeginTerminate, manager
<1>20. ASSUME NEW p \in Proc, LimitOutput(p) PROVE RecordInv'
  BY <1>20 DEF LimitOutput, Terminable, BeginTerminate, LimitOrExpire, manager
<1>21. ASSUME NEW p \in Proc, Expire(p) PROVE RecordInv'
  BY <1>21 DEF Expire, Terminable, BeginTerminate, LimitOrExpire, manager
<1>22. ASSUME NEW p \in Proc, Retire(p) PROVE RecordInv'
  BY <1>22 DEF Retire, manager
<1>23. ASSUME NEW S \in SUBSET Proc, Drain(S) PROVE RecordInv'
  BY <1>23 DEF Drain, Terminable, BeginTerminate, manager
<1>24. ASSUME RevokeAll PROVE RecordInv'
  BY <1>24 DEF RevokeAll, Ending, Terminable, BeginTerminate, BeginRevoke
<1>25. ASSUME RevokeOver PROVE RecordInv'
  BY <1>25 DEF RevokeOver, record
<1>26. ASSUME Close PROVE RecordInv'
  BY <1>26 DEF Close, Ending, Terminable, BeginTerminate, BeginRevoke, FirstClose,
       record
<1>27. ASSUME CloseOver PROVE RecordInv'
  BY <1>27 DEF CloseOver
<1>28. ASSUME UNCHANGED vars PROVE RecordInv'
  BY <1>28 DEF vars
<1> QED
  BY <1>1, <1>2, <1>3, <1>4, <1>5, <1>6, <1>7, <1>8, <1>9, <1>10, <1>11, <1>12, <1>13,
       <1>14, <1>15, <1>16, <1>17, <1>18, <1>19, <1>20, <1>21, <1>22, <1>23, <1>24,
       <1>25, <1>26, <1>27, <1>28
  DEF Next, StartStep, EndStep

\* A revocation judges every start admitted before it and waits for it.
LEMMA GenerationInvNext ==
    ASSUME IInv, [Next]_vars
    PROVE  GenerationInv'
<1> USE DEF IInv, TypeOK, GenerationInv, CallInv, EndingInv, RecordInv, InCall, Active,
     Settled, Gone, Standing, StartState, Status, ExitState, TermState
<1>1. ASSUME NEW p \in Proc, Start(p) PROVE GenerationInv'
  BY <1>1 DEF Start, manager, record
<1>2. ASSUME NEW p \in Proc, VerifyFails(p) PROVE GenerationInv'
  BY <1>2 DEF VerifyFails, Fault, manager, record
<1>3. ASSUME NEW p \in Proc, Verified(p) PROVE GenerationInv'
  BY <1>3 DEF Verified, Admissible, manager
<1>4. ASSUME NEW p \in Proc, Launch(p) PROVE GenerationInv'
  BY <1>4 DEF Launch, manager, record
<1>5. ASSUME NEW p \in Proc, StartReturns(p) PROVE GenerationInv'
  BY <1>5 DEF StartReturns, Overtaken, SettleHandle, manager
<1>6. ASSUME NEW p \in Proc, StartRejects(p) PROVE GenerationInv'
  BY <1>6 DEF StartRejects, Stopped, Fault, SettleHandle, Abandon, manager
<1>7. ASSUME NEW p \in Proc, Recorded(p) PROVE GenerationInv'
  BY <1>7 DEF Recorded, Overtaken, manager
<1>8. ASSUME NEW p \in Proc, RecordFails(p) PROVE GenerationInv'
  BY <1>8 DEF RecordFails, Fault, SettleHandle, Abandon, manager
<1>9. ASSUME NEW p \in Proc, Joined(p) PROVE GenerationInv'
  BY <1>9 DEF Joined, Forget, manager
<1>10. ASSUME NEW p \in Proc, CleanedUp(p) PROVE GenerationInv'
  BY <1>10 DEF CleanedUp, Stopped, Fault, NoFault, Lose, Forget, manager
<1>11. ASSUME NEW p \in Proc, ChildEnds(p) PROVE GenerationInv'
  BY <1>11 DEF ChildEnds, manager, record
<1>12. ASSUME NEW p \in Proc, Report(p) PROVE GenerationInv'
  BY <1>12 DEF Report, BeginExit, manager
<1>13. ASSUME NEW p \in Proc, HostCrashed(p) PROVE GenerationInv'
  BY <1>13 DEF HostCrashed, Stopped, Fault, Lose, BeginExit, manager
<1>14. ASSUME NEW p \in Proc, VerifiedAgain(p) PROVE GenerationInv'
  BY <1>14 DEF VerifiedAgain, Fault, manager
<1>15. ASSUME NEW p \in Proc, ExitOver(p) PROVE GenerationInv'
  BY <1>15 DEF ExitOver, Fault, Answer, Retained, Evictable, HasRoom, Victims,
       ReserveTerminal, Throws, Earned, manager
<1>16. ASSUME NEW p \in Proc, HandleSettled(p) PROVE GenerationInv'
  BY <1>16 DEF HandleSettled, AfterHandle, manager
<1>17. ASSUME NEW p \in Proc, Killed(p) PROVE GenerationInv'
  BY <1>17 DEF Killed, Stopped, Fault, NoFault, Lose, manager
<1>18. ASSUME NEW p \in Proc, TermOver(p) PROVE GenerationInv'
  BY <1>18 DEF TermOver, Fault, Answer, Retained, Evictable, HasRoom, Victims,
       ReserveTerminal, Throws, manager
<1>19. ASSUME NEW p \in Proc, Terminate(p) PROVE GenerationInv'
  BY <1>19 DEF Terminate, Terminable, BeginTerminate, manager
<1>20. ASSUME NEW p \in Proc, LimitOutput(p) PROVE GenerationInv'
  BY <1>20 DEF LimitOutput, Terminable, BeginTerminate, LimitOrExpire, manager
<1>21. ASSUME NEW p \in Proc, Expire(p) PROVE GenerationInv'
  BY <1>21 DEF Expire, Terminable, BeginTerminate, LimitOrExpire, manager
<1>22. ASSUME NEW p \in Proc, Retire(p) PROVE GenerationInv'
  BY <1>22 DEF Retire, manager
<1>23. ASSUME NEW S \in SUBSET Proc, Drain(S) PROVE GenerationInv'
  BY <1>23 DEF Drain, Terminable, BeginTerminate, manager
<1>24. ASSUME RevokeAll PROVE GenerationInv'
  BY <1>24 DEF RevokeAll, Ending, Terminable, BeginTerminate, BeginRevoke
<1>25. ASSUME RevokeOver PROVE GenerationInv'
  BY <1>25 DEF RevokeOver, record
<1>26. ASSUME Close PROVE GenerationInv'
  BY <1>26 DEF Close, Ending, Terminable, BeginTerminate, BeginRevoke, FirstClose,
       record
<1>27. ASSUME CloseOver PROVE GenerationInv'
  BY <1>27 DEF CloseOver
<1>28. ASSUME UNCHANGED vars PROVE GenerationInv'
  BY <1>28 DEF vars
<1> QED
  BY <1>1, <1>2, <1>3, <1>4, <1>5, <1>6, <1>7, <1>8, <1>9, <1>10, <1>11, <1>12, <1>13,
       <1>14, <1>15, <1>16, <1>17, <1>18, <1>19, <1>20, <1>21, <1>22, <1>23, <1>24,
       <1>25, <1>26, <1>27, <1>28
  DEF Next, StartStep, EndStep

\* Places and records go together.
LEMMA AccountedNext ==
    ASSUME IInv, [Next]_vars
    PROVE  Accounted'
<1> USE DEF IInv, TypeOK, Accounted, CallInv, RecordInv, InCall, Settled, Gone,
     Standing, StartState, Status, ExitState, TermState
<1>1. ASSUME NEW p \in Proc, Start(p) PROVE Accounted'
  BY <1>1 DEF Start, manager, record
<1>2. ASSUME NEW p \in Proc, VerifyFails(p) PROVE Accounted'
  BY <1>2 DEF VerifyFails, Fault, manager, record
<1>3. ASSUME NEW p \in Proc, Verified(p) PROVE Accounted'
  BY <1>3 DEF Verified, Admissible, manager
<1>4. ASSUME NEW p \in Proc, Launch(p) PROVE Accounted'
  BY <1>4 DEF Launch, manager, record
<1>5. ASSUME NEW p \in Proc, StartReturns(p) PROVE Accounted'
  BY <1>5 DEF StartReturns, Overtaken, SettleHandle, manager
<1>6. ASSUME NEW p \in Proc, StartRejects(p) PROVE Accounted'
  BY <1>6 DEF StartRejects, Stopped, Fault, SettleHandle, Abandon, manager
<1>7. ASSUME NEW p \in Proc, Recorded(p) PROVE Accounted'
  BY <1>7 DEF Recorded, Overtaken, manager
<1>8. ASSUME NEW p \in Proc, RecordFails(p) PROVE Accounted'
  BY <1>8 DEF RecordFails, Fault, SettleHandle, Abandon, manager
<1>9. ASSUME NEW p \in Proc, Joined(p) PROVE Accounted'
  BY <1>9 DEF Joined, Forget, manager
<1>10. ASSUME NEW p \in Proc, CleanedUp(p) PROVE Accounted'
  BY <1>10 DEF CleanedUp, Stopped, Fault, NoFault, Lose, Forget, manager
<1>11. ASSUME NEW p \in Proc, ChildEnds(p) PROVE Accounted'
  BY <1>11 DEF ChildEnds, manager, record
<1>12. ASSUME NEW p \in Proc, Report(p) PROVE Accounted'
  BY <1>12 DEF Report, Active, BeginExit, manager
<1>13. ASSUME NEW p \in Proc, HostCrashed(p) PROVE Accounted'
  BY <1>13 DEF HostCrashed, Active, Stopped, Fault, Lose, BeginExit, manager
<1>14. ASSUME NEW p \in Proc, VerifiedAgain(p) PROVE Accounted'
  BY <1>14 DEF VerifiedAgain, Fault, manager
<1>15. ASSUME NEW p \in Proc, ExitOver(p) PROVE Accounted'
  BY <1>15 DEF ExitOver, Fault, Answer, Retained, Evictable, HasRoom, Victims,
       ReserveTerminal, Throws, Earned, manager
<1>16. ASSUME NEW p \in Proc, HandleSettled(p) PROVE Accounted'
  BY <1>16 DEF HandleSettled, AfterHandle, manager
<1>17. ASSUME NEW p \in Proc, Killed(p) PROVE Accounted'
  BY <1>17 DEF Killed, Stopped, Fault, NoFault, Lose, manager
<1>18. ASSUME NEW p \in Proc, TermOver(p) PROVE Accounted'
  BY <1>18 DEF TermOver, Fault, Answer, Retained, Evictable, HasRoom, Victims,
       ReserveTerminal, Throws, manager
<1>19. ASSUME NEW p \in Proc, Terminate(p) PROVE Accounted'
  BY <1>19 DEF Terminate, Active, Terminable, BeginTerminate, manager
<1>20. ASSUME NEW p \in Proc, LimitOutput(p) PROVE Accounted'
  BY <1>20 DEF LimitOutput, Active, Terminable, BeginTerminate, LimitOrExpire, manager
<1>21. ASSUME NEW p \in Proc, Expire(p) PROVE Accounted'
  BY <1>21 DEF Expire, Active, Terminable, BeginTerminate, LimitOrExpire, manager
<1>22. ASSUME NEW p \in Proc, Retire(p) PROVE Accounted'
  BY <1>22 DEF Retire, manager
<1>23. ASSUME NEW S \in SUBSET Proc, Drain(S) PROVE Accounted'
  BY <1>23 DEF Drain, Active, Terminable, BeginTerminate, manager
<1>24. ASSUME RevokeAll PROVE Accounted'
  BY <1>24 DEF RevokeAll, Active, Ending, Terminable, BeginTerminate, BeginRevoke
<1>25. ASSUME RevokeOver PROVE Accounted'
  BY <1>25 DEF RevokeOver, record
<1>26. ASSUME Close PROVE Accounted'
  BY <1>26 DEF Close, Active, Ending, Terminable, BeginTerminate, BeginRevoke,
       FirstClose, record
<1>27. ASSUME CloseOver PROVE Accounted'
  BY <1>27 DEF CloseOver
<1>28. ASSUME UNCHANGED vars PROVE Accounted'
  BY <1>28 DEF vars
<1> QED
  BY <1>1, <1>2, <1>3, <1>4, <1>5, <1>6, <1>7, <1>8, <1>9, <1>10, <1>11, <1>12, <1>13,
       <1>14, <1>15, <1>16, <1>17, <1>18, <1>19, <1>20, <1>21, <1>22, <1>23, <1>24,
       <1>25, <1>26, <1>27, <1>28
  DEF Next, StartStep, EndStep

\* A record that has a place finds a terminal one: if they are all taken, then by
\* records that are ready and can be evicted.
LEMMA RoomForHolder ==
    ASSUME ReadyIsRetained, NEW p \in Proc, quota[p] # "none", quota[p] # "terminal"
    PROVE  HasRoom(p)
<1>1. CASE Retained = {} BY <1>1, FS_EmptySet DEF HasRoom
<1>2. CASE Retained # {}
  <2>1. PICK q \in Proc : quota[q] = "terminal" BY <1>2 DEF Retained
  <2>2. q \in Evictable(p) BY <2>1 DEF ReadyIsRetained, Evictable
  <2> QED BY <2>2 DEF HasRoom
<1> QED BY <1>1, <1>2

\* An ending that settles has just made its record ready and moved its place.
LEMMA RetentionKept ==
    ASSUME IInv, NEW p \in Proc, status[p] = "ended", ~Settled(p), ReserveTerminal(p),
           ready' = ready \cup {p}
    PROVE  ReadyIsRetained'
<1>1. p \notin ready /\ quota[p] \in {"none", "active"}
  BY DEF IInv, TypeOK, RecordInv, ReadyIsRetained
<1>2. quota[p] = "active" => HasRoom(p) BY <1>1, RoomForHolder DEF IInv
<1>3. HasRoom(p) => quota[p] # "none" BY DEF HasRoom
<1>4. p \in known <=> quota[p] = "active" BY <1>1 DEF IInv, Accounted, CallInv
<1>5. p \notin Victims(p) BY DEF Victims, Evictable
<1>6. ReadyIsRetained BY DEF IInv
<1> QED BY <1>1, <1>2, <1>3, <1>4, <1>5, <1>6 DEF ReadyIsRetained, ReserveTerminal

\* Terminal places and ready records go together.
LEMMA ReadyIsRetainedNext ==
    ASSUME IInv, [Next]_vars
    PROVE  ReadyIsRetained'
<1> USE DEF IInv, TypeOK, ReadyIsRetained, CallInv, RecordInv, EndingInv, Accounted,
     InCall, Settled, Gone, Standing, StartState, Status, ExitState, TermState
<1>1. ASSUME NEW p \in Proc, Start(p) PROVE ReadyIsRetained'
  BY <1>1 DEF Start, manager, record
<1>2. ASSUME NEW p \in Proc, VerifyFails(p) PROVE ReadyIsRetained'
  BY <1>2 DEF VerifyFails, Fault, manager, record
<1>3. ASSUME NEW p \in Proc, Verified(p) PROVE ReadyIsRetained'
  BY <1>3 DEF Verified, Admissible, manager
<1>4. ASSUME NEW p \in Proc, Launch(p) PROVE ReadyIsRetained'
  BY <1>4 DEF Launch, manager, record
<1>5. ASSUME NEW p \in Proc, StartReturns(p) PROVE ReadyIsRetained'
  BY <1>5 DEF StartReturns, Overtaken, SettleHandle, manager
<1>6. ASSUME NEW p \in Proc, StartRejects(p) PROVE ReadyIsRetained'
  BY <1>6 DEF StartRejects, Stopped, Fault, SettleHandle, Abandon, manager
<1>7. ASSUME NEW p \in Proc, Recorded(p) PROVE ReadyIsRetained'
  BY <1>7 DEF Recorded, Overtaken, manager
<1>8. ASSUME NEW p \in Proc, RecordFails(p) PROVE ReadyIsRetained'
  BY <1>8 DEF RecordFails, Fault, SettleHandle, Abandon, manager
<1>9. ASSUME NEW p \in Proc, Joined(p) PROVE ReadyIsRetained'
  BY <1>9 DEF Joined, Forget, manager
<1>10. ASSUME NEW p \in Proc, CleanedUp(p) PROVE ReadyIsRetained'
  BY <1>10 DEF CleanedUp, Stopped, Fault, NoFault, Lose, Forget, manager
<1>11. ASSUME NEW p \in Proc, ChildEnds(p) PROVE ReadyIsRetained'
  BY <1>11 DEF ChildEnds, manager, record
<1>12. ASSUME NEW p \in Proc, Report(p) PROVE ReadyIsRetained'
  BY <1>12 DEF Report, Active, BeginExit, manager
<1>13. ASSUME NEW p \in Proc, HostCrashed(p) PROVE ReadyIsRetained'
  BY <1>13 DEF HostCrashed, Active, Stopped, Fault, Lose, BeginExit, manager
<1>14. ASSUME NEW p \in Proc, VerifiedAgain(p) PROVE ReadyIsRetained'
  BY <1>14 DEF VerifiedAgain, Fault, manager
<1>15. ASSUME NEW p \in Proc, ExitOver(p) PROVE ReadyIsRetained'
  BY <1>15, RetentionKept DEF ExitOver, EndingInv, OneEnding, Settled
<1>16. ASSUME NEW p \in Proc, HandleSettled(p) PROVE ReadyIsRetained'
  BY <1>16 DEF HandleSettled, AfterHandle, manager
<1>17. ASSUME NEW p \in Proc, Killed(p) PROVE ReadyIsRetained'
  BY <1>17 DEF Killed, Stopped, Fault, NoFault, Lose, manager
<1>18. ASSUME NEW p \in Proc, TermOver(p) PROVE ReadyIsRetained'
  BY <1>18, RetentionKept DEF TermOver, EndingInv, OneEnding, Settled
<1>19. ASSUME NEW p \in Proc, Terminate(p) PROVE ReadyIsRetained'
  BY <1>19 DEF Terminate, Active, Terminable, BeginTerminate, manager
<1>20. ASSUME NEW p \in Proc, LimitOutput(p) PROVE ReadyIsRetained'
  BY <1>20 DEF LimitOutput, Active, Terminable, BeginTerminate, LimitOrExpire, manager
<1>21. ASSUME NEW p \in Proc, Expire(p) PROVE ReadyIsRetained'
  BY <1>21 DEF Expire, Active, Terminable, BeginTerminate, LimitOrExpire, manager
<1>22. ASSUME NEW p \in Proc, Retire(p) PROVE ReadyIsRetained'
  BY <1>22 DEF Retire, manager
<1>23. ASSUME NEW S \in SUBSET Proc, Drain(S) PROVE ReadyIsRetained'
  BY <1>23 DEF Drain, Active, Terminable, BeginTerminate, manager
<1>24. ASSUME RevokeAll PROVE ReadyIsRetained'
  BY <1>24 DEF RevokeAll, Active, Ending, Terminable, BeginTerminate, BeginRevoke
<1>25. ASSUME RevokeOver PROVE ReadyIsRetained'
  BY <1>25 DEF RevokeOver, record
<1>26. ASSUME Close PROVE ReadyIsRetained'
  BY <1>26 DEF Close, Active, Ending, Terminable, BeginTerminate, BeginRevoke,
       FirstClose, record
<1>27. ASSUME CloseOver PROVE ReadyIsRetained'
  BY <1>27 DEF CloseOver
<1>28. ASSUME UNCHANGED vars PROVE ReadyIsRetained'
  BY <1>28 DEF vars
<1> QED
  BY <1>1, <1>2, <1>3, <1>4, <1>5, <1>6, <1>7, <1>8, <1>9, <1>10, <1>11, <1>12, <1>13,
       <1>14, <1>15, <1>16, <1>17, <1>18, <1>19, <1>20, <1>21, <1>22, <1>23, <1>24,
       <1>25, <1>26, <1>27, <1>28
  DEF Next, StartStep, EndStep

\* An exit and a termination exclude each other.
LEMMA OneEndingNext ==
    ASSUME IInv, [Next]_vars
    PROVE  OneEnding'
<1> USE DEF IInv, TypeOK, OneEnding, EndingInv, Gone, StartState, Status, ExitState,
     TermState
<1>1. ASSUME NEW p \in Proc, Start(p) PROVE OneEnding'
  BY <1>1 DEF Start, manager, record
<1>2. ASSUME NEW p \in Proc, VerifyFails(p) PROVE OneEnding'
  BY <1>2 DEF VerifyFails, Fault, manager, record
<1>3. ASSUME NEW p \in Proc, Verified(p) PROVE OneEnding'
  BY <1>3 DEF Verified, Admissible, manager
<1>4. ASSUME NEW p \in Proc, Launch(p) PROVE OneEnding'
  BY <1>4 DEF Launch, manager, record
<1>5. ASSUME NEW p \in Proc, StartReturns(p) PROVE OneEnding'
  BY <1>5 DEF StartReturns, Overtaken, SettleHandle, manager
<1>6. ASSUME NEW p \in Proc, StartRejects(p) PROVE OneEnding'
  BY <1>6 DEF StartRejects, Stopped, Fault, SettleHandle, Abandon, manager
<1>7. ASSUME NEW p \in Proc, Recorded(p) PROVE OneEnding'
  BY <1>7 DEF Recorded, Overtaken, manager
<1>8. ASSUME NEW p \in Proc, RecordFails(p) PROVE OneEnding'
  BY <1>8 DEF RecordFails, Fault, SettleHandle, Abandon, manager
<1>9. ASSUME NEW p \in Proc, Joined(p) PROVE OneEnding'
  BY <1>9 DEF Joined, Settled, Forget, manager
<1>10. ASSUME NEW p \in Proc, CleanedUp(p) PROVE OneEnding'
  BY <1>10 DEF CleanedUp, Stopped, Fault, NoFault, Lose, Forget, manager
<1>11. ASSUME NEW p \in Proc, ChildEnds(p) PROVE OneEnding'
  BY <1>11 DEF ChildEnds, manager, record
<1>12. ASSUME NEW p \in Proc, Report(p) PROVE OneEnding'
  BY <1>12 DEF Report, Active, BeginExit, manager
<1>13. ASSUME NEW p \in Proc, HostCrashed(p) PROVE OneEnding'
  BY <1>13 DEF HostCrashed, Active, Stopped, Fault, Lose, BeginExit, manager
<1>14. ASSUME NEW p \in Proc, VerifiedAgain(p) PROVE OneEnding'
  BY <1>14 DEF VerifiedAgain, Fault, manager
<1>15. ASSUME NEW p \in Proc, ExitOver(p) PROVE OneEnding'
  BY <1>15 DEF ExitOver, Fault, Answer, Retained, Evictable, HasRoom, Victims,
       ReserveTerminal, Throws, Earned, manager
<1>16. ASSUME NEW p \in Proc, HandleSettled(p) PROVE OneEnding'
  BY <1>16 DEF HandleSettled, AfterHandle, manager
<1>17. ASSUME NEW p \in Proc, Killed(p) PROVE OneEnding'
  BY <1>17 DEF Killed, Stopped, Fault, NoFault, Lose, manager
<1>18. ASSUME NEW p \in Proc, TermOver(p) PROVE OneEnding'
  BY <1>18 DEF TermOver, Fault, Answer, Retained, Evictable, HasRoom, Victims,
       ReserveTerminal, Throws, manager
<1>19. ASSUME NEW p \in Proc, Terminate(p) PROVE OneEnding'
  BY <1>19 DEF Terminate, Active, Terminable, BeginTerminate, manager
<1>20. ASSUME NEW p \in Proc, LimitOutput(p) PROVE OneEnding'
  BY <1>20 DEF LimitOutput, Active, Terminable, BeginTerminate, LimitOrExpire, manager
<1>21. ASSUME NEW p \in Proc, Expire(p) PROVE OneEnding'
  BY <1>21 DEF Expire, Active, Terminable, BeginTerminate, LimitOrExpire, manager
<1>22. ASSUME NEW p \in Proc, Retire(p) PROVE OneEnding'
  BY <1>22 DEF Retire, Settled, manager
<1>23. ASSUME NEW S \in SUBSET Proc, Drain(S) PROVE OneEnding'
  BY <1>23 DEF Drain, Active, Terminable, BeginTerminate, manager
<1>24. ASSUME RevokeAll PROVE OneEnding'
  BY <1>24 DEF RevokeAll, InCall, Active, Settled, Ending, Terminable, BeginTerminate,
       BeginRevoke
<1>25. ASSUME RevokeOver PROVE OneEnding'
  BY <1>25 DEF RevokeOver, InCall, Settled, record
<1>26. ASSUME Close PROVE OneEnding'
  BY <1>26 DEF Close, InCall, Active, Settled, Ending, Terminable, BeginTerminate,
       BeginRevoke, FirstClose, record
<1>27. ASSUME CloseOver PROVE OneEnding'
  BY <1>27 DEF CloseOver
<1>28. ASSUME UNCHANGED vars PROVE OneEnding'
  BY <1>28 DEF vars
<1> QED
  BY <1>1, <1>2, <1>3, <1>4, <1>5, <1>6, <1>7, <1>8, <1>9, <1>10, <1>11, <1>12, <1>13,
       <1>14, <1>15, <1>16, <1>17, <1>18, <1>19, <1>20, <1>21, <1>22, <1>23, <1>24,
       <1>25, <1>26, <1>27, <1>28
  DEF Next, StartStep, EndStep

\* When close is about to end, its own revocation or the one it joined has left
\* no child but lost ones.
LEMMA CloseFindsNone ==
    ASSUME IInv, CloseOver
    PROVE  \A p \in Proc : Gone(p)
<1> TAKE p \in Proc
<1>1. start[p] \in {"idle", "failed"} \/ admitted[p] < generation
  BY DEF IInv, GenerationInv, CloseOver
<1>2. CASE start[p] = "idle" BY <1>2 DEF IInv, CallInv, Gone
<1>3. CASE start[p] = "failed" BY <1>3 DEF IInv, CallInv
<1>4. CASE admitted[p] < generation BY <1>4 DEF IInv, RevokedIsGone, CloseOver, Gone
<1> QED BY <1>1, <1>2, <1>3, <1>4

\* A child that is not lost keeps its active place.
LEMMA AliveIsCountedNext ==
    ASSUME IInv, [Next]_vars
    PROVE  AliveIsCounted'
<1> USE DEF IInv, TypeOK, AliveIsCounted, CallInv, EndingInv, RecordInv, Accounted,
     ReadyIsRetained, InCall, Settled, Gone, Standing, StartState, Status, ExitState,
     TermState
<1>1. ASSUME NEW p \in Proc, Start(p) PROVE AliveIsCounted'
  BY <1>1 DEF Start, manager, record
<1>2. ASSUME NEW p \in Proc, VerifyFails(p) PROVE AliveIsCounted'
  BY <1>2 DEF VerifyFails, Fault, manager, record
<1>3. ASSUME NEW p \in Proc, Verified(p) PROVE AliveIsCounted'
  BY <1>3 DEF Verified, Admissible, manager
<1>4. ASSUME NEW p \in Proc, Launch(p) PROVE AliveIsCounted'
  BY <1>4 DEF Launch, manager, record
<1>5. ASSUME NEW p \in Proc, StartReturns(p) PROVE AliveIsCounted'
  BY <1>5 DEF StartReturns, Overtaken, SettleHandle, manager
<1>6. ASSUME NEW p \in Proc, StartRejects(p) PROVE AliveIsCounted'
  BY <1>6 DEF StartRejects, Stopped, Fault, SettleHandle, Abandon, manager
<1>7. ASSUME NEW p \in Proc, Recorded(p) PROVE AliveIsCounted'
  BY <1>7 DEF Recorded, Overtaken, manager
<1>8. ASSUME NEW p \in Proc, RecordFails(p) PROVE AliveIsCounted'
  BY <1>8 DEF RecordFails, Fault, SettleHandle, Abandon, manager
<1>9. ASSUME NEW p \in Proc, Joined(p) PROVE AliveIsCounted'
  BY <1>9 DEF Joined, Forget, manager
<1>10. ASSUME NEW p \in Proc, CleanedUp(p) PROVE AliveIsCounted'
  BY <1>10 DEF CleanedUp, Stopped, Fault, NoFault, Lose, Forget, manager
<1>11. ASSUME NEW p \in Proc, ChildEnds(p) PROVE AliveIsCounted'
  BY <1>11 DEF ChildEnds, manager, record
<1>12. ASSUME NEW p \in Proc, Report(p) PROVE AliveIsCounted'
  BY <1>12 DEF Report, Active, BeginExit, manager
<1>13. ASSUME NEW p \in Proc, HostCrashed(p) PROVE AliveIsCounted'
  BY <1>13 DEF HostCrashed, Active, Stopped, Fault, Lose, BeginExit, manager
<1>14. ASSUME NEW p \in Proc, VerifiedAgain(p) PROVE AliveIsCounted'
  BY <1>14 DEF VerifiedAgain, Fault, manager
<1>15. ASSUME NEW p \in Proc, ExitOver(p) PROVE AliveIsCounted'
  BY <1>15 DEF ExitOver, Fault, Answer, Retained, Evictable, HasRoom, Victims,
       ReserveTerminal, Throws, Earned, manager
<1>16. ASSUME NEW p \in Proc, HandleSettled(p) PROVE AliveIsCounted'
  BY <1>16 DEF HandleSettled, AfterHandle, manager
<1>17. ASSUME NEW p \in Proc, Killed(p) PROVE AliveIsCounted'
  BY <1>17 DEF Killed, Stopped, Fault, NoFault, Lose, manager
<1>18. ASSUME NEW p \in Proc, TermOver(p) PROVE AliveIsCounted'
  BY <1>18 DEF TermOver, Fault, Answer, Retained, Evictable, HasRoom, Victims,
       ReserveTerminal, Throws, manager
<1>19. ASSUME NEW p \in Proc, Terminate(p) PROVE AliveIsCounted'
  BY <1>19 DEF Terminate, Active, Terminable, BeginTerminate, manager
<1>20. ASSUME NEW p \in Proc, LimitOutput(p) PROVE AliveIsCounted'
  BY <1>20 DEF LimitOutput, Active, Terminable, BeginTerminate, LimitOrExpire, manager
<1>21. ASSUME NEW p \in Proc, Expire(p) PROVE AliveIsCounted'
  BY <1>21 DEF Expire, Active, Terminable, BeginTerminate, LimitOrExpire, manager
<1>22. ASSUME NEW p \in Proc, Retire(p) PROVE AliveIsCounted'
  BY <1>22 DEF Retire, manager
<1>23. ASSUME NEW S \in SUBSET Proc, Drain(S) PROVE AliveIsCounted'
  BY <1>23 DEF Drain, Active, Terminable, BeginTerminate, manager
<1>24. ASSUME RevokeAll PROVE AliveIsCounted'
  BY <1>24 DEF RevokeAll, Active, Ending, Terminable, BeginTerminate, BeginRevoke
<1>25. ASSUME RevokeOver PROVE AliveIsCounted'
  BY <1>25 DEF RevokeOver, record
<1>26. ASSUME Close PROVE AliveIsCounted'
  BY <1>26 DEF Close, Active, Ending, Terminable, BeginTerminate, BeginRevoke,
       FirstClose, record
<1>27. ASSUME CloseOver PROVE AliveIsCounted'
  BY <1>27, CloseFindsNone DEF CloseOver
<1>28. ASSUME UNCHANGED vars PROVE AliveIsCounted'
  BY <1>28 DEF vars
<1> QED
  BY <1>1, <1>2, <1>3, <1>4, <1>5, <1>6, <1>7, <1>8, <1>9, <1>10, <1>11, <1>12, <1>13,
       <1>14, <1>15, <1>16, <1>17, <1>18, <1>19, <1>20, <1>21, <1>22, <1>23, <1>24,
       <1>25, <1>26, <1>27, <1>28
  DEF Next, StartStep, EndStep

\* A revocation ends what was admitted before it.
LEMMA RevokedIsGoneNext ==
    ASSUME IInv, [Next]_vars
    PROVE  RevokedIsGone'
<1> USE DEF IInv, TypeOK, RevokedIsGone, CallInv, EndingInv, RecordInv, GenerationInv,
     InCall, Active, Settled, Gone, Standing, StartState, Status, ExitState, TermState
<1>1. ASSUME NEW p \in Proc, Start(p) PROVE RevokedIsGone'
  BY <1>1 DEF Start, manager, record
<1>2. ASSUME NEW p \in Proc, VerifyFails(p) PROVE RevokedIsGone'
  BY <1>2 DEF VerifyFails, Fault, manager, record
<1>3. ASSUME NEW p \in Proc, Verified(p) PROVE RevokedIsGone'
  BY <1>3 DEF Verified, Admissible, manager
<1>4. ASSUME NEW p \in Proc, Launch(p) PROVE RevokedIsGone'
  BY <1>4 DEF Launch, manager, record
<1>5. ASSUME NEW p \in Proc, StartReturns(p) PROVE RevokedIsGone'
  BY <1>5 DEF StartReturns, Overtaken, SettleHandle, manager
<1>6. ASSUME NEW p \in Proc, StartRejects(p) PROVE RevokedIsGone'
  BY <1>6 DEF StartRejects, Stopped, Fault, SettleHandle, Abandon, manager
<1>7. ASSUME NEW p \in Proc, Recorded(p) PROVE RevokedIsGone'
  BY <1>7 DEF Recorded, Overtaken, manager
<1>8. ASSUME NEW p \in Proc, RecordFails(p) PROVE RevokedIsGone'
  BY <1>8 DEF RecordFails, Fault, SettleHandle, Abandon, manager
<1>9. ASSUME NEW p \in Proc, Joined(p) PROVE RevokedIsGone'
  BY <1>9 DEF Joined, Forget, manager
<1>10. ASSUME NEW p \in Proc, CleanedUp(p) PROVE RevokedIsGone'
  BY <1>10 DEF CleanedUp, Stopped, Fault, NoFault, Lose, Forget, manager
<1>11. ASSUME NEW p \in Proc, ChildEnds(p) PROVE RevokedIsGone'
  BY <1>11 DEF ChildEnds, manager, record
<1>12. ASSUME NEW p \in Proc, Report(p) PROVE RevokedIsGone'
  BY <1>12 DEF Report, BeginExit, manager
<1>13. ASSUME NEW p \in Proc, HostCrashed(p) PROVE RevokedIsGone'
  BY <1>13 DEF HostCrashed, Stopped, Fault, Lose, BeginExit, manager
<1>14. ASSUME NEW p \in Proc, VerifiedAgain(p) PROVE RevokedIsGone'
  BY <1>14 DEF VerifiedAgain, Fault, manager
<1>15. ASSUME NEW p \in Proc, ExitOver(p) PROVE RevokedIsGone'
  BY <1>15 DEF ExitOver, Fault, Answer, Retained, Evictable, HasRoom, Victims,
       ReserveTerminal, Throws, Earned, manager
<1>16. ASSUME NEW p \in Proc, HandleSettled(p) PROVE RevokedIsGone'
  BY <1>16 DEF HandleSettled, AfterHandle, manager
<1>17. ASSUME NEW p \in Proc, Killed(p) PROVE RevokedIsGone'
  BY <1>17 DEF Killed, Stopped, Fault, NoFault, Lose, manager
<1>18. ASSUME NEW p \in Proc, TermOver(p) PROVE RevokedIsGone'
  BY <1>18 DEF TermOver, Fault, Answer, Retained, Evictable, HasRoom, Victims,
       ReserveTerminal, Throws, manager
<1>19. ASSUME NEW p \in Proc, Terminate(p) PROVE RevokedIsGone'
  BY <1>19 DEF Terminate, Terminable, BeginTerminate, manager
<1>20. ASSUME NEW p \in Proc, LimitOutput(p) PROVE RevokedIsGone'
  BY <1>20 DEF LimitOutput, Terminable, BeginTerminate, LimitOrExpire, manager
<1>21. ASSUME NEW p \in Proc, Expire(p) PROVE RevokedIsGone'
  BY <1>21 DEF Expire, Terminable, BeginTerminate, LimitOrExpire, manager
<1>22. ASSUME NEW p \in Proc, Retire(p) PROVE RevokedIsGone'
  BY <1>22 DEF Retire, manager
<1>23. ASSUME NEW S \in SUBSET Proc, Drain(S) PROVE RevokedIsGone'
  BY <1>23 DEF Drain, Terminable, BeginTerminate, manager
<1>24. ASSUME RevokeAll PROVE RevokedIsGone'
  BY <1>24 DEF RevokeAll, Ending, Terminable, BeginTerminate, BeginRevoke
<1>25. ASSUME RevokeOver PROVE RevokedIsGone'
  BY <1>25 DEF RevokeOver, record
<1>26. ASSUME Close PROVE RevokedIsGone'
  BY <1>26 DEF Close, Ending, Terminable, BeginTerminate, BeginRevoke, FirstClose,
       record
<1>27. ASSUME CloseOver PROVE RevokedIsGone'
  BY <1>27 DEF CloseOver
<1>28. ASSUME UNCHANGED vars PROVE RevokedIsGone'
  BY <1>28 DEF vars
<1> QED
  BY <1>1, <1>2, <1>3, <1>4, <1>5, <1>6, <1>7, <1>8, <1>9, <1>10, <1>11, <1>12, <1>13,
       <1>14, <1>15, <1>16, <1>17, <1>18, <1>19, <1>20, <1>21, <1>22, <1>23, <1>24,
       <1>25, <1>26, <1>27, <1>28
  DEF Next, StartStep, EndStep

\* Close ends with nothing left.
LEMMA ClosedIsEmptyNext ==
    ASSUME IInv, [Next]_vars
    PROVE  ClosedIsEmpty'
<1> USE DEF IInv, TypeOK, ClosedIsEmpty, CallInv, EndingInv, RecordInv, GenerationInv,
     Accounted, InCall, Active, Settled, Gone, Standing, StartState, Status, ExitState,
     TermState
<1>1. ASSUME NEW p \in Proc, Start(p) PROVE ClosedIsEmpty'
  BY <1>1 DEF Start, manager, record
<1>2. ASSUME NEW p \in Proc, VerifyFails(p) PROVE ClosedIsEmpty'
  BY <1>2 DEF VerifyFails, Fault, manager, record
<1>3. ASSUME NEW p \in Proc, Verified(p) PROVE ClosedIsEmpty'
  BY <1>3 DEF Verified, Admissible, manager
<1>4. ASSUME NEW p \in Proc, Launch(p) PROVE ClosedIsEmpty'
  BY <1>4 DEF Launch, manager, record
<1>5. ASSUME NEW p \in Proc, StartReturns(p) PROVE ClosedIsEmpty'
  BY <1>5 DEF StartReturns, Overtaken, SettleHandle, manager
<1>6. ASSUME NEW p \in Proc, StartRejects(p) PROVE ClosedIsEmpty'
  BY <1>6 DEF StartRejects, Stopped, Fault, SettleHandle, Abandon, manager
<1>7. ASSUME NEW p \in Proc, Recorded(p) PROVE ClosedIsEmpty'
  BY <1>7 DEF Recorded, Overtaken, manager
<1>8. ASSUME NEW p \in Proc, RecordFails(p) PROVE ClosedIsEmpty'
  BY <1>8 DEF RecordFails, Fault, SettleHandle, Abandon, manager
<1>9. ASSUME NEW p \in Proc, Joined(p) PROVE ClosedIsEmpty'
  BY <1>9 DEF Joined, Forget, manager
<1>10. ASSUME NEW p \in Proc, CleanedUp(p) PROVE ClosedIsEmpty'
  BY <1>10 DEF CleanedUp, Stopped, Fault, NoFault, Lose, Forget, manager
<1>11. ASSUME NEW p \in Proc, ChildEnds(p) PROVE ClosedIsEmpty'
  BY <1>11 DEF ChildEnds, manager, record
<1>12. ASSUME NEW p \in Proc, Report(p) PROVE ClosedIsEmpty'
  <2>1. UNCHANGED <<state, known, quota, child, lost>> BY <1>12 DEF Report, BeginExit, manager
  <2> QED BY <2>1
<1>13. ASSUME NEW p \in Proc, HostCrashed(p) PROVE ClosedIsEmpty'
  BY <1>13 DEF HostCrashed, Stopped, Fault, Lose, BeginExit, manager
<1>14. ASSUME NEW p \in Proc, VerifiedAgain(p) PROVE ClosedIsEmpty'
  BY <1>14 DEF VerifiedAgain, Fault, manager
<1>15. ASSUME NEW p \in Proc, ExitOver(p) PROVE ClosedIsEmpty'
  BY <1>15 DEF ExitOver, Fault, Answer, Retained, Evictable, HasRoom, Victims,
       ReserveTerminal, Throws, Earned, manager
<1>16. ASSUME NEW p \in Proc, HandleSettled(p) PROVE ClosedIsEmpty'
  BY <1>16 DEF HandleSettled, AfterHandle, manager
<1>17. ASSUME NEW p \in Proc, Killed(p) PROVE ClosedIsEmpty'
  BY <1>17 DEF Killed, Stopped, Fault, NoFault, Lose, manager
<1>18. ASSUME NEW p \in Proc, TermOver(p) PROVE ClosedIsEmpty'
  BY <1>18 DEF TermOver, Fault, Answer, Retained, Evictable, HasRoom, Victims,
       ReserveTerminal, Throws, manager
<1>19. ASSUME NEW p \in Proc, Terminate(p) PROVE ClosedIsEmpty'
  BY <1>19 DEF Terminate, Terminable, BeginTerminate, manager
<1>20. ASSUME NEW p \in Proc, LimitOutput(p) PROVE ClosedIsEmpty'
  BY <1>20 DEF LimitOutput, Terminable, BeginTerminate, LimitOrExpire, manager
<1>21. ASSUME NEW p \in Proc, Expire(p) PROVE ClosedIsEmpty'
  BY <1>21 DEF Expire, Terminable, BeginTerminate, LimitOrExpire, manager
<1>22. ASSUME NEW p \in Proc, Retire(p) PROVE ClosedIsEmpty'
  BY <1>22 DEF Retire, manager
<1>23. ASSUME NEW S \in SUBSET Proc, Drain(S) PROVE ClosedIsEmpty'
  BY <1>23 DEF Drain, Terminable, BeginTerminate, manager
<1>24. ASSUME RevokeAll PROVE ClosedIsEmpty'
  BY <1>24 DEF RevokeAll, Ending, Terminable, BeginTerminate, BeginRevoke
<1>25. ASSUME RevokeOver PROVE ClosedIsEmpty'
  BY <1>25 DEF RevokeOver, record
<1>26. ASSUME Close PROVE ClosedIsEmpty'
  BY <1>26 DEF Close, Ending, Terminable, BeginTerminate, BeginRevoke, FirstClose,
       record
<1>27. ASSUME CloseOver PROVE ClosedIsEmpty'
  BY <1>27 DEF CloseOver
<1>28. ASSUME UNCHANGED vars PROVE ClosedIsEmpty'
  BY <1>28 DEF vars
<1> QED
  BY <1>1, <1>2, <1>3, <1>4, <1>5, <1>6, <1>7, <1>8, <1>9, <1>10, <1>11, <1>12, <1>13,
       <1>14, <1>15, <1>16, <1>17, <1>18, <1>19, <1>20, <1>21, <1>22, <1>23, <1>24,
       <1>25, <1>26, <1>27, <1>28
  DEF Next, StartStep, EndStep

\* Nothing has been started: every part holds.
LEMMA InitIInv == Init => IInv
<1> SUFFICES ASSUME Init PROVE IInv OBVIOUS
<1>1. TypeOK
  <2>1. 0 \in 0..(MaxRevoke + 1) /\ 0 \in 0..MaxRevoke /\ 0 \in 0..MaxFault OBVIOUS
  <2> QED BY <2>1 DEF Init, TypeOK, StartState, Status, ExitState, TermState
<1>2. CallInv /\ EndingInv /\ RecordInv /\ GenerationInv
  BY DEF Init, CallInv, EndingInv, RecordInv, GenerationInv, InCall, Gone, Standing, Settled
<1>3. /\ Accounted /\ ReadyIsRetained /\ OneEnding
      /\ AliveIsCounted /\ RevokedIsGone /\ ClosedIsEmpty
  BY DEF Init, Accounted, ReadyIsRetained, OneEnding, AliveIsCounted, RevokedIsGone, ClosedIsEmpty
<1> QED BY <1>1, <1>2, <1>3 DEF IInv

\* The inductive invariant holds of every behaviour of the manager, whatever the
\* order in which starts, exits, terminations, revocations and answers come.
THEOREM ProcessInvariance == Spec => []IInv
<1>1. Init => IInv BY InitIInv
<1>2. IInv /\ [Next]_vars => IInv'
  BY TypeOKNext, CallInvNext, EndingInvNext, RecordInvNext, GenerationInvNext, AccountedNext,
     ReadyIsRetainedNext, OneEndingNext, AliveIsCountedNext, RevokedIsGoneNext,
     ClosedIsEmptyNext DEF IInv
<1> QED BY <1>1, <1>2, PTL DEF Spec

\* Every variable keeps its type.
THEOREM ProcessTypeCorrect == Spec => []TypeOK
<1>1. IInv => TypeOK BY DEF IInv
<1> QED BY <1>1, ProcessInvariance, PTL

\* A process holds a place of the quota exactly while its start is verified or its
\* record is kept.
THEOREM PlacesAccounted == Spec => []Accounted
<1>1. IInv => Accounted BY DEF IInv
<1> QED BY <1>1, ProcessInvariance, PTL

\* The terminal places are those of the records that can be evicted.
THEOREM RetentionIsExact == Spec => []ReadyIsRetained
<1>1. IInv => ReadyIsRetained BY DEF IInv
<1> QED BY <1>1, ProcessInvariance, PTL

\* No record is ended by an exit and by a termination.
THEOREM EndedOnce == Spec => []OneEnding
<1>1. IInv => OneEnding BY DEF IInv
<1> QED BY <1>1, ProcessInvariance, PTL

\* No child the manager has not lost runs without an active place.
THEOREM ChildrenAreCounted == Spec => []AliveIsCounted
<1>1. IInv => AliveIsCounted BY DEF IInv
<1> QED BY <1>1, ProcessInvariance, PTL

\* After a revocation no child admitted before it runs, unless it was lost.
THEOREM RevocationIsComplete == Spec => []RevokedIsGone
<1>1. IInv => RevokedIsGone BY DEF IInv
<1> QED BY <1>1, ProcessInvariance, PTL

\* A closed manager has no child, no record and no place taken.
THEOREM CloseIsComplete == Spec => []ClosedIsEmpty
<1>1. IInv => ClosedIsEmpty BY DEF IInv
<1> QED BY <1>1, ProcessInvariance, PTL

-----------------------------------------------------------------------------
(* The limits *)

\* Giving places back keeps both limits.
LEMMA BoundKeptByRelease ==
    ASSUME TypeOK, PlacesBounded, \A q \in Proc : quota'[q] \in {quota[q], "none"}
    PROVE  PlacesBounded'
<1> DEFINE A == {q \in Proc : quota[q] = "active"}
<1>1. IsFiniteSet(A) /\ IsFiniteSet(Retained) BY FS_Subset DEF Retained
<1>2. A' \subseteq A /\ Retained' \subseteq Retained BY DEF TypeOK, Retained
<1>3. Cardinality(A) <= MaxActive /\ Cardinality(Retained) <= MaxTerminal BY DEF PlacesBounded
<1>4. Cardinality(A') <= MaxActive BY <1>1, <1>2, <1>3, Shrinks
<1>5. Cardinality(Retained') <= MaxTerminal BY <1>1, <1>2, <1>3, Shrinks
<1> QED BY <1>4, <1>5 DEF PlacesBounded

\* A start takes a place only below the limit.
LEMMA BoundKeptByStart ==
    ASSUME TypeOK, PlacesBounded, NEW p \in Proc, Start(p)
    PROVE  PlacesBounded'
<1> DEFINE A == {q \in Proc : quota[q] = "active"}
<1>1. CASE UNCHANGED quota BY <1>1, BoundKeptByRelease
<1>2. CASE Cardinality(A) < MaxActive /\ quota' = [quota EXCEPT ![p] = "active"]
  <2>1. IsFiniteSet(A) /\ IsFiniteSet(Retained) BY FS_Subset DEF Retained
  <2>2. A' \subseteq A \cup {p} /\ Retained' \subseteq Retained BY <1>2 DEF TypeOK, Retained
  <2>3. Cardinality(A') <= MaxActive BY <1>2, <2>1, <2>2, GrowsBelow
  <2>4. Cardinality(Retained') <= MaxTerminal BY <2>1, <2>2, Shrinks DEF PlacesBounded
  <2> QED BY <2>3, <2>4 DEF PlacesBounded
<1> QED BY <1>1, <1>2 DEF Start

\* When the terminal places are taken, an ending that has room has a victim.
LEMMA VictimFound ==
    ASSUME IInv, NEW p \in Proc, HasRoom(p), Cardinality(Retained) >= MaxTerminal
    PROVE  Victims(p) # {} /\ Victims(p) \subseteq Retained
<1>1. Evictable(p) # {}
  <2>1. IsFiniteSet(Retained) BY FS_Subset DEF Retained
  <2>2. Cardinality(Retained) \in Nat BY <2>1, FS_CardinalityType
  <2> QED BY <2>2 DEF HasRoom
<1>2. Evictable(p) \in SUBSET Nat BY DEF IInv, TypeOK, Evictable
<1>3. PICK q \in Evictable(p) : \A r \in Evictable(p) : q <= r BY <1>1, <1>2, LeastExists
<1>4. q \in Victims(p) BY <1>3 DEF Victims, HasRoom
<1>5. Victims(p) \subseteq Retained
  BY DEF IInv, TypeOK, ReadyIsRetained, Victims, Evictable, Retained
<1> QED BY <1>4, <1>5

\* An ending evicts what it needs.
LEMMA BoundKeptByEnding ==
    ASSUME IInv, PlacesBounded, NEW p \in Proc, ReserveTerminal(p)
    PROVE  PlacesBounded'
<1> DEFINE A == {q \in Proc : quota[q] = "active"}
<1>1. IsFiniteSet(A) /\ IsFiniteSet(Retained) BY FS_Subset DEF Retained
<1>2. /\ A' \subseteq A /\ Retained' \subseteq (Retained \ Victims(p)) \cup {p}
      /\ ~HasRoom(p) => Retained' \subseteq Retained
  BY DEF IInv, TypeOK, ReserveTerminal, Retained
<1>3. Cardinality(A) <= MaxActive /\ Cardinality(Retained) <= MaxTerminal BY DEF PlacesBounded
<1>4. Cardinality(A') <= MaxActive BY <1>1, <1>2, <1>3, Shrinks
<1>5. CASE ~HasRoom(p) BY <1>1, <1>2, <1>3, <1>4, <1>5, Shrinks DEF PlacesBounded
<1>6. CASE Cardinality(Retained) < MaxTerminal
  <2>1. Retained' \subseteq Retained \cup {p} BY <1>2
  <2> QED BY <1>1, <1>4, <1>6, <2>1, GrowsBelow DEF PlacesBounded
<1>7. CASE HasRoom(p) /\ Cardinality(Retained) >= MaxTerminal
  <2>1. PICK v \in Victims(p) : TRUE BY <1>7, VictimFound
  <2>2. v \in Retained BY <1>7, VictimFound
  <2>3. Retained' \subseteq (Retained \ {v}) \cup {p} BY <1>2, <2>1
  <2> QED BY <1>1, <1>3, <1>4, <2>2, <2>3, Replaces DEF PlacesBounded
<1>8. Cardinality(Retained) \in Nat BY <1>1, FS_CardinalityType
<1> QED BY <1>5, <1>6, <1>7, <1>8

\* Every step keeps the limits: an ending by evicting, a start by refusing, all
\* others because they take no place.
LEMMA PlacesBoundedNext ==
    ASSUME IInv, PlacesBounded, [Next]_vars
    PROVE  PlacesBounded'
<1> USE DEF IInv, TypeOK
<1>1. ASSUME NEW p \in Proc, Start(p) PROVE PlacesBounded'
  BY <1>1, BoundKeptByStart
<1>2. ASSUME NEW p \in Proc, VerifyFails(p) PROVE PlacesBounded'
  BY <1>2, BoundKeptByRelease DEF VerifyFails
<1>3. ASSUME NEW p \in Proc, Verified(p) PROVE PlacesBounded'
  BY <1>3, BoundKeptByRelease DEF Verified
<1>4. ASSUME NEW p \in Proc, Launch(p) PROVE PlacesBounded'
  BY <1>4, BoundKeptByRelease DEF Launch
<1>5. ASSUME NEW p \in Proc, StartReturns(p) PROVE PlacesBounded'
  BY <1>5, BoundKeptByRelease DEF StartReturns
<1>6. ASSUME NEW p \in Proc, StartRejects(p) PROVE PlacesBounded'
  BY <1>6, BoundKeptByRelease DEF StartRejects, Abandon
<1>7. ASSUME NEW p \in Proc, Recorded(p) PROVE PlacesBounded'
  BY <1>7, BoundKeptByRelease DEF Recorded
<1>8. ASSUME NEW p \in Proc, RecordFails(p) PROVE PlacesBounded'
  BY <1>8, BoundKeptByRelease DEF RecordFails, Abandon
<1>9. ASSUME NEW p \in Proc, Joined(p) PROVE PlacesBounded'
  BY <1>9, BoundKeptByRelease DEF Joined, Forget
<1>10. ASSUME NEW p \in Proc, CleanedUp(p) PROVE PlacesBounded'
  BY <1>10, BoundKeptByRelease DEF CleanedUp, Forget
<1>11. ASSUME NEW p \in Proc, ChildEnds(p) PROVE PlacesBounded'
  BY <1>11, BoundKeptByRelease DEF ChildEnds
<1>12. ASSUME NEW p \in Proc, Report(p) PROVE PlacesBounded'
  BY <1>12, BoundKeptByRelease DEF Report, BeginExit
<1>13. ASSUME NEW p \in Proc, HostCrashed(p) PROVE PlacesBounded'
  BY <1>13, BoundKeptByRelease DEF HostCrashed, BeginExit
<1>14. ASSUME NEW p \in Proc, VerifiedAgain(p) PROVE PlacesBounded'
  BY <1>14, BoundKeptByRelease DEF VerifiedAgain
<1>15. ASSUME NEW p \in Proc, ExitOver(p) PROVE PlacesBounded'
  BY <1>15, BoundKeptByEnding DEF ExitOver
<1>16. ASSUME NEW p \in Proc, HandleSettled(p) PROVE PlacesBounded'
  BY <1>16, BoundKeptByRelease DEF HandleSettled
<1>17. ASSUME NEW p \in Proc, Killed(p) PROVE PlacesBounded'
  BY <1>17, BoundKeptByRelease DEF Killed
<1>18. ASSUME NEW p \in Proc, TermOver(p) PROVE PlacesBounded'
  BY <1>18, BoundKeptByEnding DEF TermOver
<1>19. ASSUME NEW p \in Proc, Terminate(p) PROVE PlacesBounded'
  BY <1>19, BoundKeptByRelease DEF Terminate
<1>20. ASSUME NEW p \in Proc, LimitOutput(p) PROVE PlacesBounded'
  BY <1>20, BoundKeptByRelease DEF LimitOutput, LimitOrExpire
<1>21. ASSUME NEW p \in Proc, Expire(p) PROVE PlacesBounded'
  BY <1>21, BoundKeptByRelease DEF Expire, LimitOrExpire
<1>22. ASSUME NEW p \in Proc, Retire(p) PROVE PlacesBounded'
  BY <1>22, BoundKeptByRelease DEF Retire
<1>23. ASSUME NEW S \in SUBSET Proc, Drain(S) PROVE PlacesBounded'
  BY <1>23, BoundKeptByRelease DEF Drain
<1>24. ASSUME RevokeAll PROVE PlacesBounded'
  BY <1>24, BoundKeptByRelease DEF RevokeAll, BeginRevoke
<1>25. ASSUME RevokeOver PROVE PlacesBounded'
  BY <1>25, BoundKeptByRelease DEF RevokeOver
<1>26. ASSUME Close PROVE PlacesBounded'
  BY <1>26, BoundKeptByRelease DEF Close, BeginRevoke
<1>27. ASSUME CloseOver PROVE PlacesBounded'
  BY <1>27, BoundKeptByRelease DEF CloseOver
<1>28. ASSUME UNCHANGED vars PROVE PlacesBounded'
  BY <1>28, BoundKeptByRelease DEF vars
<1> QED
  BY <1>1, <1>2, <1>3, <1>4, <1>5, <1>6, <1>7, <1>8, <1>9, <1>10, <1>11, <1>12, <1>13,
     <1>14, <1>15, <1>16, <1>17, <1>18, <1>19, <1>20, <1>21, <1>22, <1>23, <1>24, <1>25,
     <1>26, <1>27, <1>28
  DEF Next, StartStep, EndStep

\* Never more than MaxActive processes that are not over, nor more than MaxTerminal
\* records of processes that are: every place taken at the limit evicts a record.
THEOREM QuotaIsKept == Spec => []PlacesBounded
<1>1. Init => PlacesBounded
  <2> SUFFICES ASSUME Init PROVE PlacesBounded OBVIOUS
  <2>1. {p \in Proc : quota[p] = "active"} = {} /\ Retained = {} BY DEF Init, Retained
  <2> QED BY <2>1, FS_EmptySet DEF PlacesBounded
<1>2. IInv /\ PlacesBounded /\ [Next]_vars => PlacesBounded' BY PlacesBoundedNext
<1> QED BY <1>1, <1>2, ProcessInvariance, PTL DEF Spec

-----------------------------------------------------------------------------
(* What a step never does *)

\* A start returns successfully only if nothing overtook it.
THEOREM SuccessIsTrue == Spec => NoFalseSuccess
<1> DEFINE A == \A p \in Proc : start[p] # "returned" /\ start'[p] = "returned" =>
                  /\ admitted[p] = generation /\ state = "open"
                  /\ exit[p] = "none" /\ term[p] = "none" /\ p \in known
<1>1. ASSUME IInv, Next PROVE A
  <2> SUFFICES ASSUME NEW p \in Proc, start[p] # "returned", start'[p] = "returned"
               PROVE  /\ admitted[p] = generation /\ state = "open"
                      /\ exit[p] = "none" /\ term[p] = "none" /\ p \in known
    OBVIOUS
  <2>1. Recorded(p) /\ ~Overtaken(p)
    <3>1. ASSUME NEW q \in Proc, Start(q) \/ VerifyFails(q) \/ Verified(q) \/ Launch(q)
         PROVE  Recorded(p) /\ ~Overtaken(p)
      BY <1>1, <3>1 DEF IInv, TypeOK, Start, VerifyFails, Verified, Launch, record
    <3>2. ASSUME NEW q \in Proc, StartReturns(q) \/ StartRejects(q) \/ Recorded(q) \/ RecordFails(q)
         PROVE  Recorded(p) /\ ~Overtaken(p)
      BY <1>1, <3>2 DEF IInv, TypeOK, StartReturns, StartRejects, Recorded, RecordFails,
         Abandon
    <3>3. ASSUME NEW q \in Proc, Joined(q) \/ CleanedUp(q)
         PROVE  Recorded(p) /\ ~Overtaken(p)
      BY <1>1, <3>3 DEF IInv, TypeOK, Joined, CleanedUp, Forget
    <3>4. ASSUME NEW q \in Proc, ChildEnds(q) \/ Report(q) \/ HostCrashed(q)
         PROVE  Recorded(p) /\ ~Overtaken(p)
      BY <1>1, <3>4 DEF IInv, TypeOK, ChildEnds, Report, HostCrashed, record, BeginExit
    <3>5. ASSUME NEW q \in Proc, VerifiedAgain(q) \/ ExitOver(q)
         PROVE  Recorded(p) /\ ~Overtaken(p)
      BY <1>1, <3>5 DEF IInv, TypeOK, VerifiedAgain, ExitOver
    <3>6. ASSUME NEW q \in Proc, HandleSettled(q) \/ Killed(q) \/ TermOver(q)
         PROVE  Recorded(p) /\ ~Overtaken(p)
      BY <1>1, <3>6 DEF IInv, TypeOK, HandleSettled, Killed, TermOver
    <3>7. ASSUME NEW q \in Proc, Terminate(q) \/ LimitOutput(q) \/ Expire(q) \/ Retire(q)
         PROVE  Recorded(p) /\ ~Overtaken(p)
      BY <1>1, <3>7 DEF IInv, TypeOK, Terminate, LimitOutput, Expire, Retire,
         BeginTerminate, LimitOrExpire
    <3>8. ASSUME NEW S \in SUBSET Proc, Drain(S)
         PROVE  Recorded(p) /\ ~Overtaken(p)
      BY <1>1, <3>8 DEF IInv, TypeOK, Drain, BeginTerminate
    <3>9. ASSUME RevokeAll
         PROVE  Recorded(p) /\ ~Overtaken(p)
      BY <1>1, <3>9 DEF RevokeAll, BeginRevoke, BeginTerminate
    <3>10. ASSUME RevokeOver
         PROVE  Recorded(p) /\ ~Overtaken(p)
      BY <1>1, <3>10 DEF IInv, TypeOK, RevokeOver, record
    <3>11. ASSUME Close \/ CloseOver
         PROVE  Recorded(p) /\ ~Overtaken(p)
      BY <1>1, <3>11 DEF Close, CloseOver, BeginRevoke, BeginTerminate, record
    <3> QED BY <1>1, <3>1, <3>2, <3>3, <3>4, <3>5, <3>6, <3>7, <3>8, <3>9, <3>10, <3>11
      DEF Next, StartStep, EndStep
  <2>2. Standing(p) /\ ~Settled(p) BY <1>1, <2>1 DEF Recorded, Overtaken, Standing, Settled
  <2>3. p \in known BY <1>1, <2>2 DEF IInv, RecordInv
  <2>4. start[p] = "recording" /\ admitted[p] <= generation
    BY <1>1, <2>1 DEF IInv, GenerationInv, Recorded
  <2>5. ~(admitted[p] < generation)
    BY <1>1, <2>1, <2>2, <2>4
    DEF IInv, GenerationInv, Active, Overtaken, Recorded, TypeOK, Status, Standing
  <2>6. state = "open" BY <1>1, <2>4, <2>5 DEF IInv, GenerationInv
  <2>7. admitted[p] = generation BY <1>1, <2>4, <2>5 DEF IInv, TypeOK
  <2> QED BY <2>1, <2>3, <2>6, <2>7 DEF Overtaken
<1>2. IInv /\ [Next]_vars => [A]_vars BY <1>1
<1> QED BY <1>2, ProcessInvariance, PTL DEF Spec, NoFalseSuccess

\* A receipt is issued only for a process that no revocation has met.
THEOREM ReceiptIsEarned == Spec => NoReceiptAfterRevocation
<1> DEFINE A == \A p \in receipt' \ receipt :
                  admitted[p] = generation
<1>1. ASSUME IInv, Next PROVE A
  <2> SUFFICES ASSUME NEW p \in receipt' \ receipt
               PROVE  admitted[p] = generation
    OBVIOUS
  <2>1. PICK q \in Proc : ExitOver(q)
    <3>1. ASSUME NEW q \in Proc, Start(q) \/ VerifyFails(q) \/ Verified(q) \/ Launch(q)
         PROVE  \E r \in Proc : ExitOver(r)
      BY <1>1, <3>1 DEF IInv, TypeOK, Start, VerifyFails, Verified, Launch, record
    <3>2. ASSUME NEW q \in Proc, StartReturns(q) \/ StartRejects(q) \/ Recorded(q) \/ RecordFails(q)
         PROVE  \E r \in Proc : ExitOver(r)
      BY <1>1, <3>2 DEF IInv, TypeOK, StartReturns, StartRejects, Recorded, RecordFails,
         Abandon
    <3>3. ASSUME NEW q \in Proc, Joined(q) \/ CleanedUp(q)
         PROVE  \E r \in Proc : ExitOver(r)
      BY <1>1, <3>3 DEF IInv, TypeOK, Joined, CleanedUp, Forget
    <3>4. ASSUME NEW q \in Proc, ChildEnds(q) \/ Report(q) \/ HostCrashed(q)
         PROVE  \E r \in Proc : ExitOver(r)
      BY <1>1, <3>4 DEF IInv, TypeOK, ChildEnds, Report, HostCrashed, record, BeginExit
    <3>5. ASSUME NEW q \in Proc, VerifiedAgain(q) \/ ExitOver(q)
         PROVE  \E r \in Proc : ExitOver(r)
      BY <1>1, <3>5 DEF IInv, TypeOK, VerifiedAgain, ExitOver
    <3>6. ASSUME NEW q \in Proc, HandleSettled(q) \/ Killed(q) \/ TermOver(q)
         PROVE  \E r \in Proc : ExitOver(r)
      BY <1>1, <3>6 DEF IInv, TypeOK, HandleSettled, Killed, TermOver
    <3>7. ASSUME NEW q \in Proc, Terminate(q) \/ LimitOutput(q) \/ Expire(q) \/ Retire(q)
         PROVE  \E r \in Proc : ExitOver(r)
      BY <1>1, <3>7 DEF IInv, TypeOK, Terminate, LimitOutput, Expire, Retire,
         BeginTerminate, LimitOrExpire
    <3>8. ASSUME NEW S \in SUBSET Proc, Drain(S)
         PROVE  \E r \in Proc : ExitOver(r)
      BY <1>1, <3>8 DEF IInv, TypeOK, Drain, BeginTerminate
    <3>9. ASSUME RevokeAll
         PROVE  \E r \in Proc : ExitOver(r)
      BY <1>1, <3>9 DEF RevokeAll, BeginRevoke, BeginTerminate
    <3>10. ASSUME RevokeOver
         PROVE  \E r \in Proc : ExitOver(r)
      BY <1>1, <3>10 DEF IInv, TypeOK, RevokeOver, record
    <3>11. ASSUME Close \/ CloseOver
         PROVE  \E r \in Proc : ExitOver(r)
      BY <1>1, <3>11 DEF Close, CloseOver, BeginRevoke, BeginTerminate, record
    <3> QED BY <1>1, <3>1, <3>2, <3>3, <3>4, <3>5, <3>6, <3>7, <3>8, <3>9, <3>10, <3>11
      DEF Next, StartStep, EndStep
  <2>2. p = q /\ exit[p] = "clean" /\ p \notin flagged /\ p \in known
    BY <2>1 DEF ExitOver, Earned
  <2>3. admitted[p] = generation
    BY <1>1, <2>1, <2>2 DEF IInv, TypeOK, GenerationInv
  <2> QED BY <2>3
<1>2. IInv /\ [Next]_vars => [A]_vars BY <1>1 DEF vars
<1> QED BY <1>2, ProcessInvariance, PTL DEF Spec, NoReceiptAfterRevocation

\* An ending of a record that is still kept never lacks a terminal place.
THEOREM RoomIsAlwaysFound == Spec => RoomIsFound
<1> DEFINE A == \A p \in Proc : ~Settled(p) /\ Settled(p)' => HasRoom(p) \/ start[p] = "failed"
<1>1. ASSUME IInv, Next PROVE A
  <2> SUFFICES ASSUME NEW p \in Proc, ~Settled(p), Settled(p)', start[p] # "failed"
               PROVE  HasRoom(p)
    OBVIOUS
  <2>1. exit[p] # "none" \/ term[p] # "none"
    <3>1. ASSUME NEW q \in Proc, Start(q) \/ VerifyFails(q) \/ Verified(q) \/ Launch(q)
         PROVE  exit[p] # "none" \/ term[p] # "none"
      BY <1>1, <3>1 DEF IInv, TypeOK, Settled, Start, VerifyFails, Verified, Launch,
         record
    <3>2. ASSUME NEW q \in Proc, StartReturns(q) \/ StartRejects(q) \/ Recorded(q) \/ RecordFails(q)
         PROVE  exit[p] # "none" \/ term[p] # "none"
      BY <1>1, <3>2 DEF IInv, TypeOK, Settled, StartReturns, StartRejects, Recorded,
         RecordFails, Abandon
    <3>3. ASSUME NEW q \in Proc, Joined(q) \/ CleanedUp(q)
         PROVE  exit[p] # "none" \/ term[p] # "none"
      BY <1>1, <3>3 DEF IInv, TypeOK, Settled, Joined, CleanedUp, Forget
    <3>4. ASSUME NEW q \in Proc, ChildEnds(q) \/ Report(q) \/ HostCrashed(q)
         PROVE  exit[p] # "none" \/ term[p] # "none"
      BY <1>1, <3>4 DEF IInv, TypeOK, Settled, ChildEnds, Report, HostCrashed, record,
         BeginExit
    <3>5. ASSUME NEW q \in Proc, VerifiedAgain(q) \/ ExitOver(q)
         PROVE  exit[p] # "none" \/ term[p] # "none"
      BY <1>1, <3>5 DEF IInv, TypeOK, Settled, VerifiedAgain, ExitOver
    <3>6. ASSUME NEW q \in Proc, HandleSettled(q) \/ Killed(q) \/ TermOver(q)
         PROVE  exit[p] # "none" \/ term[p] # "none"
      BY <1>1, <3>6 DEF IInv, TypeOK, Settled, HandleSettled, Killed, TermOver
    <3>7. ASSUME NEW q \in Proc, Terminate(q) \/ LimitOutput(q) \/ Expire(q) \/ Retire(q)
         PROVE  exit[p] # "none" \/ term[p] # "none"
      BY <1>1, <3>7 DEF IInv, TypeOK, Settled, Terminate, LimitOutput, Expire, Retire,
         BeginTerminate, LimitOrExpire
    <3>8. ASSUME NEW S \in SUBSET Proc, Drain(S)
         PROVE  exit[p] # "none" \/ term[p] # "none"
      BY <1>1, <3>8 DEF IInv, TypeOK, Settled, Drain, BeginTerminate
    <3>9. ASSUME RevokeAll
         PROVE  exit[p] # "none" \/ term[p] # "none"
      BY <1>1, <3>9 DEF Settled, RevokeAll, BeginRevoke, BeginTerminate
    <3>10. ASSUME RevokeOver
         PROVE  exit[p] # "none" \/ term[p] # "none"
      BY <1>1, <3>10 DEF IInv, TypeOK, Settled, RevokeOver, record
    <3>11. ASSUME Close \/ CloseOver
         PROVE  exit[p] # "none" \/ term[p] # "none"
      BY <1>1, <3>11 DEF Settled, Close, CloseOver, BeginRevoke, BeginTerminate, record
    <3> QED BY <1>1, <3>1, <3>2, <3>3, <3>4, <3>5, <3>6, <3>7, <3>8, <3>9, <3>10, <3>11
      DEF Next, StartStep, EndStep
  <2>2. status[p] # "none" BY <1>1, <2>1 DEF IInv, CallInv
  <2>3. p \in known /\ p \notin ready BY <1>1, <2>2 DEF IInv, RecordInv, Standing
  <2>4. quota[p] \notin {"none", "terminal"}
    BY <1>1, <2>3 DEF IInv, Accounted, ReadyIsRetained
  <2> QED BY <1>1, <2>4, RoomForHolder DEF IInv
<1>2. IInv /\ [Next]_vars => [A]_vars BY <1>1
<1> QED BY <1>2, ProcessInvariance, PTL DEF Spec, RoomIsFound

\* Once ended, never active again.
THEOREM EndIsFinal == Spec => NeverRunsAgain
<1> DEFINE A == \A p \in Proc : status[p] # "none" /\ ~Active(p) => ~Active(p)'
<1>1. ASSUME IInv, Next PROVE A
  <2> SUFFICES ASSUME NEW p \in Proc, status[p] # "none", ~Active(p) PROVE ~Active(p)'
    OBVIOUS
  <2>1. status[p] = "ended" BY <1>1 DEF IInv, TypeOK, Status, Active
  <2>2. status'[p] = "ended"
    <3>1. ASSUME NEW q \in Proc, Start(q) \/ VerifyFails(q) \/ Verified(q) \/ Launch(q)
         PROVE  status'[p] = "ended"
      BY <1>1, <2>1, <3>1 DEF IInv, TypeOK, CallInv, Start, VerifyFails, Verified,
         Launch, record, Overtaken, Terminable, Active, InCall
    <3>2. ASSUME NEW q \in Proc, StartReturns(q) \/ StartRejects(q) \/ Recorded(q) \/ RecordFails(q)
         PROVE  status'[p] = "ended"
      BY <1>1, <2>1, <3>2 DEF IInv, TypeOK, CallInv, StartReturns, StartRejects,
         Recorded, RecordFails, Abandon, Overtaken, Terminable, Active, InCall
    <3>3. ASSUME NEW q \in Proc, Joined(q) \/ CleanedUp(q)
         PROVE  status'[p] = "ended"
      BY <1>1, <2>1, <3>3 DEF IInv, TypeOK, CallInv, Joined, CleanedUp, Forget,
         Overtaken, Terminable, Active, InCall
    <3>4. ASSUME NEW q \in Proc, ChildEnds(q) \/ Report(q) \/ HostCrashed(q)
         PROVE  status'[p] = "ended"
      BY <1>1, <2>1, <3>4 DEF IInv, TypeOK, CallInv, ChildEnds, Report, HostCrashed,
         record, BeginExit, Overtaken, Terminable, Active, InCall
    <3>5. ASSUME NEW q \in Proc, VerifiedAgain(q) \/ ExitOver(q)
         PROVE  status'[p] = "ended"
      BY <1>1, <2>1, <3>5 DEF IInv, TypeOK, CallInv, VerifiedAgain, ExitOver, Overtaken,
         Terminable, Active, InCall
    <3>6. ASSUME NEW q \in Proc, HandleSettled(q) \/ Killed(q) \/ TermOver(q)
         PROVE  status'[p] = "ended"
      BY <1>1, <2>1, <3>6 DEF IInv, TypeOK, CallInv, HandleSettled, Killed, TermOver,
         Overtaken, Terminable, Active, InCall
    <3>7. ASSUME NEW q \in Proc, Terminate(q) \/ LimitOutput(q) \/ Expire(q) \/ Retire(q)
         PROVE  status'[p] = "ended"
      BY <1>1, <2>1, <3>7 DEF IInv, TypeOK, CallInv, Terminate, LimitOutput, Expire,
         Retire, BeginTerminate, LimitOrExpire, Overtaken, Terminable, Active, InCall
    <3>8. ASSUME NEW S \in SUBSET Proc, Drain(S)
         PROVE  status'[p] = "ended"
      BY <1>1, <2>1, <3>8 DEF IInv, TypeOK, CallInv, Drain, BeginTerminate, Overtaken,
         Terminable, Active, InCall
    <3>9. ASSUME RevokeAll
         PROVE  status'[p] = "ended"
      BY <1>1, <2>1, <3>9 DEF RevokeAll, BeginRevoke, BeginTerminate, Overtaken,
         Terminable, Active, InCall
    <3>10. ASSUME RevokeOver
         PROVE  status'[p] = "ended"
      BY <1>1, <2>1, <3>10 DEF IInv, TypeOK, CallInv, RevokeOver, record, Overtaken,
         Terminable, Active, InCall
    <3>11. ASSUME Close \/ CloseOver
         PROVE  status'[p] = "ended"
      BY <1>1, <2>1, <3>11 DEF Close, CloseOver, BeginRevoke, BeginTerminate, record,
         Overtaken, Terminable, Active, InCall
    <3> QED BY <1>1, <3>1, <3>2, <3>3, <3>4, <3>5, <3>6, <3>7, <3>8, <3>9, <3>10, <3>11
      DEF Next, StartStep, EndStep
  <2> QED BY <2>2 DEF Active
<1>2. IInv /\ [Next]_vars => [A]_vars BY <1>1
<1> QED BY <1>2, ProcessInvariance, PTL DEF Spec, NeverRunsAgain
=============================================================================
