------------------------- MODULE WorkspaceLockProofs -------------------------
(***************************************************************************)
(* The workspace lock is exclusive for every number of processes and       *)
(* crashes, but for the two windows of a stale-owner judgement.            *)
(***************************************************************************)
EXTENDS WorkspaceLock, TLAPS

\* A process that is about to probe an owner has read the name of one.
ReadInv == \A p \in Proc : pc[p] = "read" => seen[p] \in Proc

(***************************************************************************)
(* While no judgement was overtaken, whoever has a claim on the lock       *)
(* directory is the only one who has, and the directory is as that claim   *)
(* says: a maker's is without an owner, a holder's names it, and the one a *)
(* contender judged stale still names a dead process.                      *)
(***************************************************************************)
ClaimInv ==
    raced \/ \A p \in Proc :
        /\ Holds(p) => lockDirectory = p
        /\ pc[p] = "made" => lockDirectory = Unowned
        /\ pc[p] = "stale" => /\ lockDirectory \in Proc
                              /\ pc[lockDirectory] = "dead"
        /\ \A q \in Proc : pc[p] \in {"made", "stale"} /\ pc[q] = pc[p] => p = q

IInv == TypeOK /\ ReadInv /\ ClaimInv

(***************************************************************************)
(* Every variable keeps its type in every step of acquire and release.     *)
(***************************************************************************)
THEOREM Typing == Spec => []TypeOK
<1>1. Init => TypeOK
  <2>1. MaxAttempts \in Nat BY LockAssumption
  <2>2. ASSUME Init PROVE attempt \in [Proc -> 0..MaxAttempts]
    BY <2>1, <2>2 DEF Init
  <2>3. ASSUME Init PROVE pc \in [Proc -> Phase]
    BY <2>3 DEF Init, Phase
  <2> QED BY <2>2, <2>3 DEF Init, TypeOK
<1>2. TypeOK /\ [Next]_vars => TypeOK'
  <2> SUFFICES ASSUME TypeOK, [Next]_vars PROVE TypeOK'
    OBVIOUS
  <2> USE LockAssumption DEF TypeOK, Phase, Become
  <2>1. ASSUME NEW p \in Proc, Start(p) PROVE TypeOK'
    BY <2>1 DEF Start
  <2>2. ASSUME NEW p \in Proc, MakeDirectory(p) PROVE TypeOK'
    BY <2>2 DEF MakeDirectory
  <2>3. ASSUME NEW p \in Proc, WriteOwner(p) PROVE TypeOK'
    BY <2>3 DEF WriteOwner
  <2>4. ASSUME NEW p \in Proc, ReadOwner(p) PROVE TypeOK'
    BY <2>4 DEF ReadOwner
  <2>10. ASSUME NEW p \in Proc, ProbeOwner(p) PROVE TypeOK'
    BY <2>10 DEF ProbeOwner, Overtaken
  <2>5. ASSUME NEW p \in Proc, Quarantine(p) PROVE TypeOK'
    BY <2>5 DEF Quarantine, NextRound
  <2>6. ASSUME NEW p \in Proc, CheckRelease(p) PROVE TypeOK'
    BY <2>6 DEF CheckRelease
  <2>7. ASSUME NEW p \in Proc, RenameRelease(p) PROVE TypeOK'
    BY <2>7 DEF RenameRelease
  <2>8. ASSUME NEW p \in Proc, Crash(p) PROVE TypeOK'
    BY <2>8 DEF Crash
  <2>9. CASE UNCHANGED vars
    BY <2>9 DEF vars
  <2> QED
    BY <2>1, <2>2, <2>3, <2>4, <2>5, <2>6, <2>7, <2>8, <2>9, <2>10
    DEF Next, Step
<1> QED
  BY <1>1, <1>2, PTL DEF Spec

(***************************************************************************)
(* Every step of acquire, release or a crash keeps the claims consistent.  *)
(***************************************************************************)
LEMMA ClaimStep == IInv /\ [Next]_vars => ClaimInv'
<1> SUFFICES ASSUME IInv, [Next]_vars PROVE ClaimInv'
  OBVIOUS
<1> USE LockAssumption DEF IInv, TypeOK, Phase, ClaimInv, Holds, Become
<1>1. ASSUME NEW p \in Proc, Start(p) PROVE ClaimInv'
  BY <1>1 DEF Start
<1>2. ASSUME NEW p \in Proc, MakeDirectory(p) PROVE ClaimInv'
  BY <1>2 DEF MakeDirectory
<1>3. ASSUME NEW p \in Proc, WriteOwner(p) PROVE ClaimInv'
  BY <1>3 DEF WriteOwner
<1>4. ASSUME NEW p \in Proc, ReadOwner(p) PROVE ClaimInv'
  BY <1>4 DEF ReadOwner
<1>10. ASSUME NEW p \in Proc, ProbeOwner(p) PROVE ClaimInv'
  <2>1. /\ pc[p] = "read" /\ seen[p] \in Proc
        /\ lockDirectory' = lockDirectory
    BY <1>10 DEF ProbeOwner, ReadInv
  <2>2. CASE pc[seen[p]] = "dead" /\ ~raced'
    <3>1. /\ pc' = [pc EXCEPT ![p] = "stale"]
          /\ ~raced
          /\ ~Overtaken(p)
      BY <1>10, <2>2 DEF ProbeOwner
    <3>2. lockDirectory = seen[p] /\ \A q \in Proc : pc[q] # "stale"
      BY <3>1 DEF Overtaken
    <3> QED
      BY <2>1, <2>2, <3>1, <3>2
  <2>3. CASE pc[seen[p]] # "dead"
    <3>1. pc' = [pc EXCEPT ![p] = "idle"] /\ raced' = raced
      BY <1>10, <2>3 DEF ProbeOwner
    <3> QED
      BY <2>1, <3>1
  <2>4. CASE raced'
    BY <2>4
  <2> QED
    BY <2>2, <2>3, <2>4
<1>5. ASSUME NEW p \in Proc, Quarantine(p) PROVE ClaimInv'
  BY <1>5 DEF Quarantine, NextRound
<1>6. ASSUME NEW p \in Proc, CheckRelease(p) PROVE ClaimInv'
  BY <1>6 DEF CheckRelease
<1>7. ASSUME NEW p \in Proc, RenameRelease(p) PROVE ClaimInv'
  BY <1>7 DEF RenameRelease
<1>8. ASSUME NEW p \in Proc, Crash(p) PROVE ClaimInv'
  BY <1>8 DEF Crash
<1>9. CASE UNCHANGED vars
  BY <1>9 DEF vars
<1> QED
  BY <1>1, <1>2, <1>3, <1>4, <1>5, <1>6, <1>7, <1>8, <1>9, <1>10
  DEF Next, Step

(***************************************************************************)
(* Only reading an owner record leads to the probe of an owner.            *)
(***************************************************************************)
LEMMA ReadStep == TypeOK /\ ReadInv /\ [Next]_vars => ReadInv'
<1> SUFFICES ASSUME TypeOK, ReadInv, [Next]_vars PROVE ReadInv'
  OBVIOUS
<1> USE DEF TypeOK, Phase, ReadInv, Become
<1>1. ASSUME NEW p \in Proc, Start(p) PROVE ReadInv'
  BY <1>1 DEF Start
<1>2. ASSUME NEW p \in Proc, MakeDirectory(p) \/ WriteOwner(p) PROVE ReadInv'
  BY <1>2 DEF MakeDirectory, WriteOwner
<1>3. ASSUME NEW p \in Proc, ReadOwner(p) PROVE ReadInv'
  BY <1>3 DEF ReadOwner
<1>4. ASSUME NEW p \in Proc, ProbeOwner(p) PROVE ReadInv'
  BY <1>4 DEF ProbeOwner
<1>5. ASSUME NEW p \in Proc, Quarantine(p) PROVE ReadInv'
  BY <1>5 DEF Quarantine, NextRound
<1>6. ASSUME NEW p \in Proc, CheckRelease(p) \/ RenameRelease(p) PROVE ReadInv'
  BY <1>6 DEF CheckRelease, RenameRelease
<1>7. ASSUME NEW p \in Proc, Crash(p) PROVE ReadInv'
  BY <1>7 DEF Crash
<1>8. CASE UNCHANGED vars
  BY <1>8 DEF vars
<1> QED
  BY <1>1, <1>2, <1>3, <1>4, <1>5, <1>6, <1>7, <1>8 DEF Next, Step

(***************************************************************************)
(* The claims are consistent in every reachable state.                     *)
(***************************************************************************)
LEMMA Claims == Spec => []ClaimInv
<1>1. Init => ReadInv /\ ClaimInv
  BY DEF Init, ReadInv, ClaimInv, Holds
<1>2. TypeOK /\ ReadInv /\ ClaimInv /\ [Next]_vars => ReadInv' /\ ClaimInv'
  BY ClaimStep, ReadStep DEF IInv
<1> QED
  BY <1>1, <1>2, Typing, PTL DEF Spec

(***************************************************************************)
(* At most one process holds the lock, for any set of processes and any    *)
(* crashes, unless an owner was judged dead that was no longer the owner   *)
(* of the directory, or while another such judgement was under way.        *)
(***************************************************************************)
THEOREM Exclusion == Spec => []ExclusiveUnlessRaced
<1>1. ClaimInv => ExclusiveUnlessRaced
  BY DEF ClaimInv, ExclusiveUnlessRaced, MutualExclusion
<1> QED
  BY <1>1, Claims, PTL

(***************************************************************************)
(* Under the same condition the record at the lock's name is the holder's, *)
(* so releasing the lock finds what acquiring it wrote.                    *)
(***************************************************************************)
THEOREM Recorded == Spec => []HolderIsRecorded
<1>1. ClaimInv => HolderIsRecorded
  BY DEF ClaimInv, HolderIsRecorded
<1> QED
  BY <1>1, Claims, PTL
=============================================================================
