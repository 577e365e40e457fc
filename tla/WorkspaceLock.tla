---------------------------- MODULE WorkspaceLock ----------------------------
(***************************************************************************)
(* The cross-process workspace mutation lock: a directory whose creation   *)
(* is the acquisition, and the owner.json inside it.                       *)
(*                                                                         *)
(* Source: src/src/transactions/workspaceLock.ts.  Each process is a       *)
(* process instance; a crashed instance never returns (a restart is        *)
(* another element of Proc).  Each file-system call is one action, because *)
(* the calls of two processes interleave freely.  Every call but mkdir     *)
(* addresses the lock by NAME: it acts on whatever directory is there.     *)
(***************************************************************************)
EXTENDS Naturals, FiniteSets

CONSTANTS
    Proc,        \* process instances contending for one workspace
    Crashable,   \* the instances that may crash
    Unowned,     \* a lock directory that has no owner.json yet
    Missing,     \* no lock directory
    MaxAttempts  \* rounds of the acquisition loop (4 in the code)

ASSUME LockAssumption ==
    /\ Crashable \subseteq Proc
    /\ Unowned \notin Proc /\ Missing \notin Proc /\ Unowned # Missing
    /\ MaxAttempts \in Nat \ {0}

VARIABLES
    lockDirectory,  \* Missing, Unowned, or the process its owner.json names
    pc,             \* where each process is in acquire() or release()
    attempt,        \* rounds of the loop a process has begun
    seen,           \* the owner a process has read and not yet probed
    raced           \* history: an owner judged dead was no longer the owner of
                    \* the directory, or another such judgement was under way

vars == <<lockDirectory, pc, attempt, seen, raced>>

Phase == {"idle", "trying", "made", "collided", "read", "stale",
          "held", "releasing", "dead"}

TypeOK ==
    /\ lockDirectory \in Proc \union {Missing, Unowned}
    /\ pc \in [Proc -> Phase]
    /\ attempt \in [Proc -> 0..MaxAttempts]
    /\ seen \in [Proc -> Proc \union {Missing}]
    /\ raced \in BOOLEAN

Init ==
    /\ lockDirectory = Missing
    /\ pc = [p \in Proc |-> "idle"]
    /\ attempt = [p \in Proc |-> 0]
    /\ seen = [p \in Proc |-> Missing]
    /\ raced = FALSE

Become(p, phase) == pc' = [pc EXCEPT ![p] = phase]

Start(p) ==
    /\ pc[p] = "idle"
    /\ Become(p, "trying")
    /\ attempt' = [attempt EXCEPT ![p] = 1]
    /\ UNCHANGED <<lockDirectory, seen, raced>>

\* mkdirSync succeeds, or reports EEXIST.
MakeDirectory(p) ==
    /\ pc[p] = "trying"
    /\ IF lockDirectory = Missing
         THEN lockDirectory' = Unowned /\ Become(p, "made")
         ELSE UNCHANGED lockDirectory /\ Become(p, "collided")
    /\ UNCHANGED <<attempt, seen, raced>>

\* writeExclusiveJson with flag "wx" creates owner.json in the directory that
\* now has the name.  It fails when that directory is gone or has an owner, or
\* with an I/O error; then the directory of that name is removed, whosever it
\* is, and the acquisition fails.
WriteOwner(p) ==
    /\ pc[p] = "made"
    /\ \/ lockDirectory = Unowned /\ lockDirectory' = p /\ Become(p, "held")
       \/ lockDirectory' = Missing /\ Become(p, "idle")
    /\ UNCHANGED <<attempt, seen, raced>>

TakenUnread(p) ==  \* mutant: an unreadable record counts as a dead owner
    /\ pc[p] = "collided"
    /\ IF lockDirectory \in Proc
         THEN Become(p, "read") /\ seen' = [seen EXCEPT ![p] = lockDirectory]
         ELSE Become(p, "stale") /\ UNCHANGED seen
    /\ UNCHANGED <<lockDirectory, attempt, raced>>

\* The owner record is read.  A record that is missing, not written yet or
\* unreadable ends the acquisition with an error.
ReadOwner(p) ==
    /\ pc[p] = "collided"
    /\ \/ /\ lockDirectory \in Proc
          /\ Become(p, "read")
          /\ seen' = [seen EXCEPT ![p] = lockDirectory]
       \/ Become(p, "idle") /\ UNCHANGED seen
    /\ UNCHANGED <<lockDirectory, attempt, raced>>

ProbeOwnerAgain(p) ==  \* mutant: a live owner is waited for
    /\ pc[p] = "read"
    /\ Become(p, IF pc[seen[p]] = "dead" THEN "stale" ELSE "trying")
    /\ seen' = [seen EXCEPT ![p] = Missing]
    /\ UNCHANGED <<lockDirectory, attempt, raced>>

\* Somebody else has judged an owner dead and not renamed yet, or the
\* directory whose record was read is not the one that has the name now.
Overtaken(p) ==
    \/ lockDirectory # seen[p]
    \/ \E q \in Proc : pc[q] = "stale"

\* The process the record named is probed.  A live owner ends the acquisition
\* with an error; a dead one makes the directory stale, whatever happened to
\* it since it was read.
ProbeOwner(p) ==
    /\ pc[p] = "read"
    /\ IF pc[seen[p]] = "dead"
         THEN Become(p, "stale") /\ raced' = (raced \/ Overtaken(p))
         ELSE Become(p, "idle") /\ UNCHANGED raced
    /\ seen' = [seen EXCEPT ![p] = Missing]
    /\ UNCHANGED <<lockDirectory, attempt>>

\* The loop runs for MaxAttempts rounds and then reports TRANSACTION_BUSY.
NextRound(p) ==
    IF attempt[p] < MaxAttempts
      THEN Become(p, "trying") /\ attempt' = [attempt EXCEPT ![p] = @ + 1]
      ELSE Become(p, "idle") /\ UNCHANGED attempt

\* The directory with the lock's name is renamed away; ENOENT is retried.
Quarantine(p) ==
    /\ pc[p] = "stale"
    /\ lockDirectory' = Missing
    /\ NextRound(p)
    /\ UNCHANGED <<seen, raced>>

\* release() compares the owner record with the handle ...
CheckRelease(p) ==
    /\ pc[p] = "held"
    /\ Become(p, IF lockDirectory = p THEN "releasing" ELSE "idle")
    /\ UNCHANGED <<lockDirectory, attempt, seen, raced>>

\* ... and then renames the directory away and deletes it.
RenameRelease(p) ==
    /\ pc[p] = "releasing"
    /\ lockDirectory' = Missing
    /\ Become(p, "idle")
    /\ UNCHANGED <<attempt, seen, raced>>

Crash(p) ==
    /\ p \in Crashable
    /\ pc[p] # "dead"
    /\ Become(p, "dead")
    /\ seen' = [seen EXCEPT ![p] = Missing]
    /\ UNCHANGED <<lockDirectory, attempt, raced>>

Step(p) == \/ MakeDirectory(p) \/ WriteOwner(p) \/ ReadOwner(p)
           \/ ProbeOwner(p) \/ Quarantine(p) \/ RenameRelease(p)

Next == \E p \in Proc : Start(p) \/ Step(p) \/ CheckRelease(p) \/ Crash(p)

\* acquire() and release() are synchronous, so a process that does not crash
\* finishes the call it is in.  Nothing makes a process start an acquisition
\* or give a lock up.
Spec == Init /\ [][Next]_vars /\ \A p \in Proc : WF_vars(Step(p))

----------------------------------------------------------------------------
Holds(p) == pc[p] \in {"held", "releasing"}

(***************************************************************************)
(* "Only one transaction or recovery operation may mutate a canonical      *)
(* workspace at a time": no two processes hold the lock.                   *)
(***************************************************************************)
MutualExclusion == \A p, q \in Proc : Holds(p) /\ Holds(q) => p = q

(***************************************************************************)
(* The lock is exclusive, whoever crashed and whoever released in the      *)
(* meantime, but for two windows: between reading the owner and probing it *)
(* the owner may have given the lock up and ended, so that the directory   *)
(* is somebody else's, or not there; and another contender may be between  *)
(* its own probe and its rename.                                           *)
(***************************************************************************)
ExclusiveUnlessRaced == raced \/ MutualExclusion

(***************************************************************************)
(* A holder's directory stays in place: outside the two windows the record *)
(* at the lock's name is the holder's own, so that release() never fails   *)
(* with "ownership changed".                                               *)
(***************************************************************************)
HolderIsRecorded == raced \/ \A p \in Proc : Holds(p) => lockDirectory = p

(***************************************************************************)
(* An acquisition ends: the attempt loop cannot keep a caller forever.     *)
(***************************************************************************)
AcquireEnds ==
    \A p \in Proc : pc[p] = "trying" ~> pc[p] \in {"idle", "held", "dead"}
=============================================================================
