----------------------------- MODULE MoveSystem ------------------------------
(***************************************************************************)
(* The moves of one workspace and their undos, on one server: calls and     *)
(* recovery runs on its event loop, its restarts, tools that use the        *)
(* workspace, and programs that change files and know nothing of the lock.  *)
(***************************************************************************)
EXTENDS MoveRecovery

\* server.ts hands ensureWorkspaceReady to beforeWorkspaceUse, whose promise
\* nobody awaits: with a frozen workspace its rejection ends the server.
UseWorkspace ==
    /\ uses > 0 /\ uses' = uses - 1
    /\ IF frozen
         THEN Ends /\ UNCHANGED raced
         ELSE /\ lock = None /\ StartRun
              /\ Goto(Recovery, "choose")
    /\ UNCHANGED <<disk, journal, order, records, crashes, faults, foreign,
                   touched, removed, derailed, misled>>

Busy == \E w \in Workers : pos[w].step \notin {"idle", "over"}

Crash ==
    /\ crashes > 0 /\ crashes' = crashes - 1
    /\ Busy \/ frozen
    /\ Ends
    /\ UNCHANGED <<disk, journal, order, records, faults, uses, foreign, history>>

-----------------------------------------------------------------------------
(* Other programs.  Token f is a new file, a new content or a new directory. *)

Unfinished == \E c \in Present : journal[c].state \notin Final
Touches(P) == touched' = IF Unfinished THEN touched \cup P ELSE touched

Put(f, p) ==
    /\ Stands(p)
    /\ at' = [at EXCEPT ![p] = f]
    /\ \/ bytes' = bytes
       \/ at[p] # None /\ bytes' = [bytes EXCEPT ![f] = bytes[at[p]]]
    /\ removed' = removed \cup ({at[p]} \ {None})
    /\ Touches({p}) /\ UNCHANGED dir

Edit(f, p) ==
    /\ at[p] # None /\ bytes' = [bytes EXCEPT ![at[p]] = f]
    /\ Touches({p}) /\ UNCHANGED <<at, dir, removed>>

Delete(p) ==
    /\ at[p] # None /\ at' = [at EXCEPT ![p] = None]
    /\ removed' = removed \cup {at[p]}
    /\ Touches({p}) /\ UNCHANGED <<bytes, dir>>

ChangeDirectory(f) ==
    /\ IsEmpty /\ dir' = IF dir = None THEN f ELSE None
    /\ Touches(InDir) /\ UNCHANGED <<at, bytes, removed>>

OtherProgram ==
    /\ \E f \in foreign :
         /\ foreign' = foreign \ {f}
         /\ \/ \E p \in Paths : Put(f, p) \/ Edit(f, p) \/ Delete(p)
            \/ ChangeDirectory(f)
    /\ UNCHANGED <<stage, journal, order, records, memory, pos, stale,
                   crashes, faults, uses, derailed, misled, raced>>

-----------------------------------------------------------------------------
Next ==
    \/ \E c \in Calls : Ask(c) \/ CallStep(c)
    \/ RecoveryStep \/ UseWorkspace \/ Crash \/ OtherProgram

\* The event loop goes on with every call and with the run.
Spec ==
    /\ MoveInit /\ [][Next]_vars
    /\ \A c \in Calls : WF_vars(CallStep(c))
    /\ WF_vars(RecoveryStep)

-----------------------------------------------------------------------------
(* A file that a move has planned keeps a name, its own, its new or its     *)
(* stage name, whatever the move, the undo and the recovery do and however  *)
(* they are interrupted, unless another program takes a name away from it.  *)

FilesKept ==
    \A c \in Present : \A p \in Sources(c) :
        LET o == journal[c].object[p] IN
        \/ o \in removed
        \/ \E q \in Paths : at[q] = o
        \/ \E d \in Calls : \E q \in Paths : stage[d][q] = o

(* The same, as long as nobody takes the lock beside a rollback without it  *)
(* and every file a move plans has a name in it that no operation is to     *)
(* give to that file: a rollback that has not staged it takes those names   *)
(* for destinations that were installed, and removes them.                  *)

Anchor(c, p, r) ==
    /\ journal[c].object[r] = journal[c].object[p]
    /\ \A q \in Sources(c) : journal[c].object[q] = journal[c].object[r] => Plan(c)[q] # r
Anchored(c) == \A p \in Sources(c) : \E r \in Sources(c) : Anchor(c, p, r)

NoFileLost == raced \/ (\E c \in Present : ~Anchored(c)) \/ FilesKept

(* A move that becomes committed or rolled back has moved every file or     *)
(* none: each is under its new name, or its old one, where nobody else has  *)
(* changed that path; nothing is left under a stage name, and a directory   *)
(* made for the move, or made by the move that is undone, has gone with it. *)

Hold(c, place) ==
    /\ \A p \in Sources(c) : place[p] \notin touched => at'[place[p]] = journal[c].object[p]
    /\ \A q \in (Targets(c) \cup Sources(c)) \ ({place[p] : p \in Sources(c)} \cup touched) :
         at'[q] = None
EndsWhole ==
    [][ \A c \in Calls :
          ~raced /\ journal[c].state # journal'[c].state =>
            /\ journal'[c].state = "committed" =>
                 Hold(c, Plan(c)) /\ (journal[c].drops # None => dir' # journal[c].drops)
            /\ journal'[c].state = "rolled_back" =>
                 /\ Hold(c, [p \in Sources(c) |-> p])
                 /\ \A p \in Paths : stage'[c][p] = None
                 /\ journal[c].made # None => dir' # journal[c].made
      ]_vars

(* What the stores say of a move fits: a committed one has its change set   *)
(* and its audit event, and a committed undo has ended the change set it    *)
(* reverts, which no second one has; a change set that is undone has an     *)
(* undo that stands or that recovery will complete, unless recovery itself  *)
(* has given up a decided commit, or the undo was told that ending the      *)
(* change set failed when it was ended, and took itself back.               *)

Reverts(c, d) == Original(c) = d
RecordsAgree ==
    /\ \A c \in Calls : journal[c].state = "committed" =>
         /\ changeset[c] # "none" /\ c \in audited
         /\ IsUndo(c) => changeset[Original(c)] = "undone"
    /\ \A d \in Calls : changeset[d] = "undone" =>
         \E c \in Calls :
            /\ Reverts(c, d)
            /\ \/ journal[c].state \in {Pending, "commit_decided", "committed"}
               \/ c \in derailed \cup misled
    /\ \A d \in Calls : Cardinality({c \in Calls : Reverts(c, d) /\ journal[c].state = "committed"}) <= 1

(* No move plans while an earlier one is unfinished: what it inspects is    *)
(* what recovery has left.                                                  *)

RecoveredBeforeMove ==
    \A c \in Calls : pos[c].step = "inspect" => \A d \in Present : journal[d].state \in Final

(* Every call is answered and every recovery run ends.                      *)

AllEnd ==
    /\ \A c \in Calls : pos[c].step # "idle" ~> pos[c].step = "over"
    /\ pos[Recovery].step # "idle" ~> pos[Recovery].step = "idle"
=============================================================================
