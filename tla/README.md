# A formal model of CodexGPT

CodexGPT is a self-hosted MCP server that gives a remote assistant scoped access
to local repositories: files are read and changed, commands and Git operations
run, and every change is meant to be atomic, attributable and undoable even when
a process dies in the middle. This directory holds TLA+ modules that model the
parts of the server where that promise is hard to keep, the TLC configurations
that check them, and proofs for the TLA+ proof system. Paths below are relative
to the repository's root; the code is under `src/src`.

## 1. The system

One or several server processes (`server.ts`, `productionRuntime.ts`, over
`stdio.ts` or `http.ts`) may have the same workspace open. They share nothing
but the disk: the workspace itself and a *state root* with locks, transaction
manifests, change sets, the audit log, the OAuth state and Git journals. Inside
one process everything runs on one event loop, so a step is whatever happens
between two `await`s; between processes every file-system call interleaves.

| Component | State it keeps | Operations | What makes it correct |
|---|---|---|---|
| Workspace lock, `transactions/workspaceLock.ts` | a directory and its `owner.json` | `acquire` (4 rounds, dead owners quarantined), `release` | one holder; an acquisition always returns |
| Transaction engine, `transactions/engine.ts`, `atomicFs.ts` | one manifest per transaction, stage and backup files, operations in memory | `prepare`, `commit`, `commitParticipant`, `finalize`, `rollback` | all or nothing; the journal always suffices to undo; an acknowledged commit stays |
| Recovery, `transactions/recovery.ts`, `participantRecovery.ts` | the runs in flight and the frozen workspaces of a process | `ensureWorkspaceReady`, one run over all manifests | every transaction is brought to an end; nothing of somebody else is removed; the run ends |
| Durable files, `transactions/atomicStateFile.ts`, `stateRoot.ts`, `schemas.ts`, `installation.ts` | JSON files replaced by rename | `create`, `read`, `replace` | a reader sees the old or the new file |
| Moves, `moves/*` | manifests with `commit_decided`, files with two names | stage, install, commit, rollback, finalize, recover | a path is never lost or doubled |
| Change sets, `changesets/*` | a record per change with before and after bytes | record, undo, undo of moves | undo restores exactly; a change set is undone once |
| Mutations, `mutations/*` | counters and waiters of the tool-call lifecycle | `run`, `runExclusive`, `quiesce`, `drain` | exclusive calls are alone; draining ends |
| Audit, `audit/*` | segments of events, a writer lock | `append`, rotation, probe | an event is written once, in order |
| Processes, `process/*` | a record, quota and output ring per child process | start, read, write, terminate, exit, expiry, revoke, close | a revoked or expired process is gone; quotas are returned |
| Git, `git/*` | operation journal, repository and worktree locks | run a mutation, recover at startup | an interrupted operation is decided by evidence |
| Task worktrees, `worktrees/*` | tasks, merge plans, receipts | create, prepare and execute a merge, remove, recover | a plan is executed once |
| Policy and approvals, `policy/*` | pending approvals, grants, reservations | request, decide, reserve, consume, expire, revoke | a grant is used once, and not after revocation |
| Leases, `access/*` | leases of confirmed roots, a tail of revocations | confirm, touch, prune, close | revocation terminates and cleans up |
| OAuth, `auth/*` | clients, authorizations, grants and refresh families under one deployment lock | authorize, exchange, refresh, validate, revoke | a code and a refresh token are used once |
| HTTP, `http.ts`, `http/*` | transports by session | create, evict, close | a session in use is not lost |
| C2C, `c2c/*` | one session file with a revision | advance, start and finish execution | no stale revision is written |
| Local control, `control/*` | one owned child process | start, stop, adopt | only an owned process is stopped |
| Everything else | caches | tools, search, analysis, rendering, configuration | pure functions of their inputs |

How they meet: a tool call passes the lifecycle (`mutations/lifecycle.ts`), the
policy and its approval, then `beforeWorkspaceUse` in `server.ts`, which starts
recovery without waiting for it (the engines' own `prepare` does wait); a change runs in a transaction whose *participants* are the change-set
store and the audit log; a move runs in a transaction of its own kind over the
same lock and the same recovery run; undo is a second transaction; Git and worktrees have
journals of their own but the same pattern (lock, durable intention, effect,
durable outcome).

What is hard: (a) a process may die at any file-system call, (b) two processes
interleave at every call and judge each other's locks by name and process id,
(c) programs that know nothing of the lock change files at any time, (d) any
call may fail with its effect done or not, (e) inside a process, callbacks,
timers and awaited calls overlap on shared records. `PROJECT.json` lists the
places where these bite, each at its line.

## 2. The modules

| Module | What it is |
|---|---|
| `WorkspaceLock` | the lock: one action per file-system call |
| `WorkspaceLockProofs` | its proofs |
| `TransactionState` | the variables, types and initial states that engine and recovery share |
| `AtomicTransaction` | the engine: the life of one request |
| `TransactionRecovery` | the recovery coordinator |
| `TransactionSystem` | both, on several servers, with crashes and foreign writers; the properties |
| `TransactionOutcome` | what a transaction promises its caller; `TransactionSystem` implements it |
| `TransactionInvariant` | the inductive invariant |
| `MCTransactionSystem` | the instances for TLC |
| `TransactionProofs` | proofs about `TransactionSystem` |
| `MoveState` | names of files, move manifests, change sets and the server's memory; how a step of a worker is written |
| `MoveSteps` | what a call and the recovery run do alike: carry a decided commit out, roll back |
| `MoveEngine` | one call of `move_paths` or of the undo of a move |
| `MoveRecovery` | the part of a recovery run that is about moves |
| `MoveSystem`, `MCMoves` | calls, runs, restarts and other programs together; the properties; the workspaces for TLC |
| `MoveInvariant` | the inductive invariants of moves: the files, and what manifests and stores say |
| `MoveProofs`, `MoveRecordProofs` | the proofs about `MoveSystem`, of the files and of the records |
| `ToolLifecycle` | shared and exclusive admission, quiesce and drain (`mutations/lifecycle.ts`) |
| `Approvals` | approvals, session grants, reservations and the owner's decisions |
| `ToolCall` | the Policy Kernel and the handler of one call |
| `ToolCalls`, `MCToolCalls` | calls of several servers with lifecycle, lane, approvals and shutdown; the properties; the calls for TLC |
| `ToolGate` | what the tools are promised; `ToolCalls` implements it |
| `ToolCallsInvariant`, `ToolCallsProofs` | the invariant of the composition; the proofs about it and of the refinement |
| `OAuthState` | the durable state of a deployment, its lock and the one way it changes |
| `OAuthAuthorizations`, `OAuthTokens` | authorization requests up to the code; grants and tokens |
| `OAuthServer`, `MCOAuth` | clients, owner, lifetimes and restarts together; the properties; the deployments for TLC |
| `TokenAuthority` | what clients and owner are promised; `OAuthServer` implements it |
| `OAuthInvariant`, `OAuthProofs` | the invariant of the deployment; the proofs about it and of the refinement |
| `GitJournal` | one Git mutation: its record, the lock of its repository, effect, freeze |
| `GitRecovery`, `MCGit` | the startup of the servers, and crashes; the properties; the instances for TLC |
| `GitProofs` | their proofs |
| `ProcessManager` | the persistent processes of one server and the places of their quota; its properties |
| `ProcessInvariant`, `ProcessProofs` | their inductive invariant and the proofs |

### The workspace lock

`lockDirectory` is what stands under the lock's name: `Missing`, `Unowned` (a
directory without `owner.json`) or the process the record names. `pc[p]` is the
position in `acquire` or `release`: `MakeDirectory` is `mkdirSync`, `WriteOwner`
the exclusive write of the record and the removal when it fails, `ReadOwner` the
read of the record (kept in `seen[p]`), `ProbeOwner` the probe of the process it
named, `Quarantine` the rename of whatever has the name by then, `CheckRelease`
and `RenameRelease` the two calls of `release`. A process instance that has died
never returns; its successor is another element of `Proc`. `raced` is history: a
process was judged dead (`Overtaken`) that no longer owned the directory under
the lock's name, or while another contender was between its own judgement and
its rename. Those are the two windows of the code.

### Transactions

The state has three layers, which crashes treat differently. *Disk*: `target`,
`stage`, `backup`, `dir`. *Journal*: `manifest` and what it carries (`before`,
`recorded`, `made`, `facts`), the participants' durable effects (`effect`) and
`log`, the order in which recovery reads manifests. *Memory*: `pc`, `op` (the
engine's operation list), `need`, `holder`, `frozen` and the recovery run
(`rpc`, `rby`, `rpos`, `rfrom`, `rseen`, `todo`). The rest bounds or records history.

A file is its version, that is, who wrote its bytes: a transaction (`t` itself
is the version it writes), another program (`Ext`), or nobody (`Original`).
The code compares size, digest and identity; two files have one version exactly
when those comparisons take them for the same. A backup is a hard link of the
file it keeps, so `SingleLink` says when `lstat` reports one link, and a program
that writes a file in place (`WriteInPlace`) writes all the names of that version,
the backup among them. The bytes from before are gone then, from the backup as
well; recovery does not prove such a backup and freezes, and a rollback by the
engine itself puts it back as it is.

Each action is one file-system call or manifest write between which something
else can happen, with the checks that precede it and the error path that
follows it:

- `Inspect`, `Acquire`: `prepare` up to the first manifest. The before facts are
  read *before* the lock is taken, as in the code.
- `StageFile`, `LinkBackup`, `LeakArtifact`, `RecordStaged`, `PrepareDone`:
  staging. An artifact exists before the manifest names it.
- `BeginCommit`, `MakeDirectory`, `RecordDirectory`, `CheckTarget`,
  `InstallFile`, `Readback`, `InstallDone`: `commit`.
- `CommitEffect`, `RecordFact`, `ParticipantFails`: the participants; the effect
  is durable before the fact.
- `Finalize`, `FinalizeFails`, `CleanUp`, `Acknowledge`.
- `CallerRollback`, `StepFails`, `BeginRollback`, `Undo` (the comparison) and
  `UndoFile` (the unlink, rename or link after it), `FinalizeUndone`,
  `FinishRollback`, `RollbackFails`.
- Recovery: `EnsureReady` and `UseWorkspace` start or join a run; `Choose` takes
  the next manifest; `Reconcile` decides a pending commit; `BeginRestore`,
  `RestoreTarget` (the comparison) and `RestoreFile` (the change), `DropStage`,
  `DropBackup`, `Verify`, `RemoveDirectory`, `Persist` undo one; `Recheck`, `Rechecked` and `CleanCommitted`, `Cleaned` are
  the two cleanups; `RecordRecovery` goes on; `RecoveryFails` is the catch.
- `Dies`, `Crash`, `Unhandled`: the memory of a server and the locks it held are
  gone, because it was killed or because a recovery that `UseWorkspace` started
  failed: `beforeWorkspaceUse` awaits nothing, so the failure is an unhandled
  rejection, for which Node ends the process.
  `ExternalChange`: another program replaces, deletes or writes a file in place,
  the last also through a handle it has had since before the file was replaced.

Abstractions, and why they are sound for the properties:

- In `TransactionSystem` the lock is exclusive. That is what `WorkspaceLock`
  examines; where it fails there, nothing here is claimed.
- `writeInitial` failing makes `prepare` throw with the lock still held, because
  its rollback fails for the same reason: position `abandoned`. A rollback that
  fails keeps the lock and the evidence: position `retained`, from which the
  caller may try again.
- Manifest writes that change only an operation's state are not actions:
  recovery does not read that state.
- Removing the recorded directory, writing `rolled_back` and releasing the lock
  are one action: no property looks between them.
- Foreign versions are fresh: an editor does not write back the exact bytes,
  size and mtime that were there. Callers always pass the digest they expect,
  so a request is prepared from the file it read.
- The participants' stores are the set `effect`: recovery's probe finds it,
  except for `Unprobeable` participants, where it answers "unknown".
- The comparison and the removal of an artifact are one action, and `Recheck` and
  `CleanCommitted` take both artifacts of an operation together: the names are
  the engine's own, and no property looks between them.
- A failing release, a failing listing of manifests, a `stat` that fails after the
  link that undoes a deletion (`linkVerified`) and the recovery of moves
  (which a run does last) are outside the model.

### Moves

A file is its identity (device and inode), `at` says which file has which name,
`bytes` what it contains, `stage[c][p]` which file has the stage name of an
operation. A move never copies: it links the stage name, removes the old name,
links the new one, records it, removes the stage name. `dir` is the identity of
the one directory that may be missing: the call or program that made it.
`journal` is the manifest of a call with the parts that decisions depend on:
identities and contents found, whether the directory is to be made (`plans`),
was made and recorded (`made`), is to go (`drops`) or has gone (`dropped`), the
operations whose new name is recorded (`shown`), the participants' `facts`.
`changeset` and `audited` are the participants' stores.

A *worker* is a call, on its own manifest, or the recovery run, on the manifest
at the head of `due`. `pos[w]` is where it is and which operations its loop has
still to visit. `MoveSteps` holds what `engine.ts` and `recovery.ts` do alike;
where they differ the difference is in the guard (`SourceStands`, `TargetStands`,
`Intact`). `Blocked` and `CommitBlocked` say when the next step cannot be taken,
and `...Fails` is the catch that follows then, or when a call fails (`Fault`).

- `Ask`: `ensureWorkspaceReady`, waiting for a run or starting one. A lock that
  is held refuses the call. An undo looks its change set up before that.
- `Prepare`, `PrepareFails`: the planner's inspection and the first manifests.
  A file that has been replaced by an equal one is noticed only afterwards
  (`SameObjects`), which leaves manifest and lock behind.
- `Begin`, `MakeDirectory`, `RecordDirectory`, `LinkStage`, `UnlinkSource`, `Link`,
  `Show`, `Settle`, `Pend`; `Effect`, `EffectFails`, `Fact`, `FactFails`, `Failed`,
  `FailedFails`; `Decide`, `Drop`, `Dropped`, `Finish`, `FinalizeFails`. `LinkStage`
  has the check of the source and the link in one step (`moves/engine.ts:698`,
  `:708`): a file that is exchanged between them is staged and then noticed, with
  the outcome of one exchanged before. A failing effect leaves nothing behind, but
  an audit event or the end of the original change set may be durable. Left out:
  a new change set that can neither be read back nor removed
  (`moveStore.ts:149` to `:158`), which takes two failures in a row.
- `BeginRollback`, `Restage`, `Remove`, `Restore`, `Unstage`, `RemoveDirectory`,
  `Conclude`, `RollbackFails`, `Reconcile`: the engine's rollback. When it fails
  the lock is released and the service starts a second one without it
  (`Unproven`); `stale` says which worker has a manifest in hand that was written
  since, for the next write then refuses.
- `Choose` takes the next manifest in the state the run read at its start;
  `Probe`, `Compensate`, `Confirm`, `FinishCommitted`, `Sweep`, `Verify`,
  `RolledBack`, `Recorded`; `RunEnds` hands the lock to one of those who waited,
  `RunFails` freezes the workspace or, when nobody waited, ends the server.

Abstractions. One server, which restarts: a second one would find the lock taken
or be another life of the first. `withTransientRetry` looks again only before it
tries again, which happens on Windows, so a step has the checks that precede its
first try. Manifest writes that change only an operation's state are left out,
except the one that recovery reads (`shown`). Spelling, policy and volume checks
have one outcome here. A workspace with moves alone: version 1 manifests, which
the same run visits first, are in `TransactionSystem`. `touched` collects the
paths other programs have changed while a move was unfinished, `removed` the
files they took a name from, `derailed` decided commits that recovery has given
up, `misled` undos that were told that ending their change set had failed when it
had not (section 4), and `raced` says that somebody took the lock beside a
rollback that goes on without it; the properties use them to say what they do not
claim (`raced` only those about files).

### Tool calls

A call is `waiting` or `running` in the lifecycle of its server (`at`), and
between the lane and its result at `step`. What is resumed and in which order is
the event loop's (`jobs` in the lifecycle: promises are resumed in the order in
which they were settled). `runExclusive` waits once for shared calls and `run`
once for exclusive ones, and neither looks again; `Quiesce`, `IsDrained` and
`MarkDisposed` are the server's end. `Approvals` has two stores: the log on disk
and the queue in memory, whose operations form one promise chain; `Sweep` expires
before each of them. A session grant comes from the owner's decision (`Own`,
`localApprovalServer.ts`) and is taken by a call (`Kernel`), reserved, consumed
when the handler is admitted, burned when it is not used. `Close` closes the
approvals: for stdio and OAuth servers after their calls have drained, for the
plain HTTP server (`http.ts:2209`) once every session has begun to close,
without waiting for them; `Dispose` comes last.

Left out: tools that call other tools inside one request, the audit notes of
risk-free calls, which nobody waits for, and the decoding of stored entries.

### OAuth

`disk` is the deployment state (clients, grants with refresh generation, signing
key), `signer` the key in the memory of the server. Every change goes the same
way (`Change`, `Written`, `NotAudited`, `Unproven`): the deployment lock, which
is refused at once when it is taken; read; decide; audit event, which takes time
and may fail; write, which may be reported as failed although it took effect. A
client cannot tell the two failures apart (`Failed`): both are a 503, or a 401
for an access token at the resource.
`auth` is the authorization store in memory, whose operations queue on `chain`.
A token is a grant and its refresh generation; `given` is what clients hold,
`refused` the negative cache. The owner's decisions come one at a time
(`OwnerFree`), make a backup first (`Backup`), and two of them write twice
(`First`, `Second`). `Lapse`, `Age` and `Forget` are lifetimes; `Restart` loses
the memory and loads the key.

A revocation ends a grant only for the client that owns it (`RevokeFamily`), and
answers 200 whatever it found. With an access token it first verifies the token,
and a failure of that, for whatever reason, is acknowledged as well
(`RevokeVerified`). At the token endpoint a client presents tokens of its own;
those of another are refused there before anything is looked at.

Abstractions: the takeover of a dead process's deployment lock (as in
`WorkspaceLock`), the positive cache, which asks the grant store all the same,
admission and rate limits, the day an unapproved client lives, limits over all
clients of a deployment, status and list requests. Signing after a rotation is
part of `Written`. Client ids are random, so one that is gone is never used
again. The owner picks from what is listed. A deployment starts with grants of
clients that are approved or were removed; no path of the code gives one to a
client whose approval is still to come (`PastApproval`).

### Git mutations

A mutation is an element of `Op`; `Home` is the server that runs it and `In` the
repository it changes. On disk are its record (`rec`), the state of the
repository (`frozen`: `recovery_required`), the directory of its lock (`lock`)
and the effect an external git has produced (`effect`). `pc` is where
`GitMutationJournalV4.run` stands: `Begin` is `registerRepository` and the checks
of `prepareOperation`, before the awaited audit append; `Create`, `Acquire`,
`Prepare` follow it; `BeginEffect`, `Effect`, `EffectReturns`, `EffectThrows`,
`Observe` and `Settle` are the effect and what is recorded of it; `RollBack` is
for an operation whose effect has not begun. Left out: the record that `register`
makes for a repository (`repositoryStore.ts:160`, `:209`), which a second server
that registers it at the same time may write over the first one's, over a freeze
of it too, so that the repository counts as registered here; and a lock directory
that stays behind when the write of its owner and then its removal fail
(`git/locks.ts:317` to `:321`), which keeps later calls out and starts nothing. `CanMove` is the whole check of
`transition`: the state machine, and the record on disk being the one the caller
holds. No state of a record comes twice, so it stands for the generation.

`up[s]` is a server: `Start` lists the incomplete records (`seen`), and for each,
one after the other, `Skip` freezes when the lock is busy, `Take`, `Undo` or
`Require`, and `Leave` recover it under the lock. `Serve` ends the startup: with
any repository frozen the server ends. `Crash` leaves lock directories behind
(`orphan` for one that a recovery held); nothing ever takes one over.

`Provable` are the operations whose participants a probe can tell. The production
server's probe knows the audit log alone (`productionRuntime.ts:630`), so there
it is empty; the coordinator is written for probes that can tell, as its tests
use them, and the instance has one operation of either kind.

Abstractions. Writes with no await between them are one step where no other
process can tell. `completeOperation` is part of `Settle`, and the commit by
recovery, which needs the terminal audit event, is left out: no call gets to
either (finding 4). Locks of linked worktrees are never asked for (the registered
list is empty). An effect that is half done counts as done. `missed` are the
repositories whose freeze could not be written by a call.

### Persistent processes

For each process up to three asynchronous routines share one record, and the
model has one variable for the position of each: `start` (the call), `exit`
(`#exit`, begun by what the host reports) and `term` (`#terminate`, begun by a
user, local control, the lifetime timer, the output limit, a drain or a
revocation). A step is the code between two awaits. `known` is `#records`,
`status` and `handle` are the record's (with `handle` also standing for
`handleReady`), `quota` is the place that `reserveProcess` and `reserveTerminal`
hand out and the record's `release` gives back. `child` is the operating-system
process, which the manager sees only through the backend's answers.

- `Start`, `VerifyFails`, `Verified`: admission, the awaited verification, and
  the second judgement of the admission, which makes the record.
- `Launch`, `StartReturns`, `StartRejects`, `Recorded`, `RecordFails`: the
  backend and the audit of the start; each looks again at what overtook it.
- `Joined`, `CleanedUp`: the two ends of the catch block.
- `ChildEnds`, `Report`, `HostCrashed`, `VerifiedAgain`, `ExitOver`: the exit,
  with the receipt. `ExitOver` and `TermOver` are the tail of the routine: audit,
  flush, `#reserveTerminal` with its eviction, `retentionReady` and settling.
- `Terminate`, `LimitOutput`, `Expire`, `Drain`, `HandleSettled`, `Killed`,
  `TermOver`: a termination, which may have to wait for a handle.
- `Retire`: the timer of `#retainTerminal`.
- `RevokeAll`, `RevokeOver`, `Close`, `CloseOver`: what they wait for is recorded
  in `joined` at the time they begin, as the code does.

Abstractions: the statuses `exited`, `failed` and `terminated` are one value, as
no condition distinguishes them. Of an exit code only what it decides is kept:
`Report` may or may not lead to the second verification. All processes have one context, so the session's
and the server's limit count the same set. Two audit records in a row that
nothing separates are one answer. A receipt that the second verification or its
issue refuses is one outcome (`VerifiedAgain`). A child that the code holds for
ended though it runs (a swallowed failure of a termination, one failed poll, an
answer of the host that is lost) goes into the history set `lost`, and the
properties about children leave those out: they say what the manager achieves
for what it can know. Only the answers of host, audit and verification fail;
`MaxFault` bounds how often.

## 3. What TLC checks

| Run | Instance | What it shows |
|---|---|---|
| `lock` | 4 processes, 2 may die, 2 rounds | exclusive but for the two windows of a judgement (`raced`); every acquisition returns |
| `lock_race` | 3 processes, 1 may die, the code's 4 rounds | the lock can be held twice (finding) |
| `tx_one` | 1 request (a replacement, a creation below a missing directory and a deletion), 2 participants, one of them unprobeable; 2 crashes, 1 failing call, 1 foreign change of any kind | `EvidenceKept`, `AllOrNothing`, `AcknowledgedIsDurable`, `RecoveryRestoresOnlyItsOwn`, the inductive invariant `IInv`, `CallsEnd` |
| `tx_rivals` | 2 servers, the second request deletes what the first one replaces; 1 crash, 1 failing call | `RecoveredBeforeMutation`, `NoLostUpdate`, the refinement `KeepsItsPromise` |
| `tx_later_commit` | 2 requests on one server, 1 crash, no failing call | a rolled-back manifest blocks recovery after a later commit (finding) |
| `moves` | 13 workspaces of up to 3 calls over 3 paths, one of them below a directory that may be missing; up to 2 crashes, 2 failing steps, 1 change by another program | `NoFileLost`, `EndsWhole`, `RecordsAgree`, `RecoveredBeforeMove`, `AllEnd` |
| `moves_own_names` | a new spelling of a name, and an exchange of two hard links of one file; 1 crash, 1 failing step | a file loses its names (finding) |
| `processes` | 2 processes, 1 place for an ended record, a revocation, a close and one fault | places, records and children agree; revocation and close leave nothing; no false success and no receipt across a revocation; nothing hangs |
| `tool_calls` | 6 sets of up to 3 calls on 1 or 2 servers; a tick, a failing write of the log or a shutdown where the set is about it | `CallsInv`, `ExecutionBacked`, `DedupeExact`, `NoOrphanReservation`, the refinement `ImplementsGate`, `ComesToRest` |
| `oauth` | 14 deployments with up to 4 requests, a failing write or lost answer, a restart in five of them | `OAuthInv`, `ConsentBacked`, `RevokedStaysOut`, `AnswersAreHonest`, the refinement `ImplementsAuthority`, `AllAnswered` |
| `git` | 2 servers, 2 mutations of one repository, one of them provable; 2 crashes or failing steps | `UnprovedIsFrozen`, `ReadyMeansSettled`, `EffectsAreSerialized`, `EverythingEnds` |
| `git_reported` | 2 mutations on one server, nothing fails | a mutation whose effect has returned is not reported as done (finding) |

Bounds. Two or three paths give every order of operations the transaction code
distinguishes (first, second and last, with and without directory); the three kinds
all occur, in `tx_one` in one request. One crash lets every recovery path begin, two interrupt a recovery;
`MaxFault = 1` puts one failing call at every place, and one foreign change
comes at every moment. `IInv` was also tried on the rivals with a foreign change
(some 1.9 million states, not to the end). Two servers are the least that compete for the
lock of a dead one. For moves, three paths make an exchange, a chain and a move
below a new directory; a call that follows another one sees its manifest, a third
one sees a move and its undo; one workload has two failing steps, because some
catch blocks write a manifest of their own, and that write may fail too. Two
changes by other programs during one move were tried as well (some 450 000
states) and show nothing more. For the processes, two are the least that compete
for one terminal place, and one fault is put at every answer; close comes on top
of the one revocation, alone, during and after it. A start that is refused for
want of an active place does not occur with two processes (`QuotaIsKept` covers
it for every limit). For tool calls, two shared and one exclusive call, or three
that want one approval, are the least for which an order can go wrong. For OAuth
each deployment starts in a state a fresh one reaches with the calls that came
before, and its four requests are those that meet in one hazard.
For Git, two servers and two mutations are the least that compete for a lock and
meet each other's startup; two troubles put a crash or a failing write at every
point of a mutation and another one into the recovery that follows. Three, of
which one a failing write, were tried as well (some 350 000 states).

Deadlock is checked for the lock only: everywhere else the system may stop,
because nothing has to happen when all calls are answered.

Fairness. `WorkspaceLock`: a live process that is in `acquire` or `release` goes
on: these are straight-line synchronous calls. `TransactionSystem`: weak
fairness of `EngineStep(t)` and of `RecoveryStep`, since the event loop runs
what has been asked for. Nothing is assumed of callers, failures, crashes or
editors: `CallerStep`, `Failure`, `Crash`, `ExternalChange` may never happen.
`MoveSystem`: likewise, weak fairness of `CallStep(c)` for each call that was
made and of `RecoveryStep`; `Ask`, `UseWorkspace`, `Crash` and `OtherProgram` may
never happen.
`ProcessManager`: weak fairness of the one action `Progress`, that is, the host,
the audit and the verification answer, the poll goes on and the lifetime timer
fires. Each of those steps can be taken only finitely often, so the one condition
makes all of them happen.
`ToolCalls`: the event loop resumes a call that is ready, the promise chain of
the approvals goes on and its log answers, a handler ends, a server that is
closing goes on with its shutdown. `OAuthServer`: a call that has begun goes on
(`Going(c)`): the lock is never waited for, the audit log and the disk answer.
`GitRecovery`: a process goes on with the mutation (`JournalStep(o)`) and the
startup (`StartupStep(s)`) it has begun; an external git comes to an end, because
`git/execution.ts` bounds its time.
Nobody has to make a call, decide, terminate, revoke or close.

## 4. Findings

Each of the first four is the counterexample of a run.

1. `lock_race`: `MutualExclusion` is violated. A contender reads the
   record of a live owner (`workspaceLock.ts:209`); the owner releases the lock
   and ends, and another process takes it; the contender probes the process it
   has read (line 213), finds it dead, renames the *new* lock away (line 228) and
   holds it too. The same comes of two contenders that judge one dead owner, the
   slower of which renames the lock of the faster one. `ExclusiveUnlessRaced` says
   that there is no third way.
2. `tx_later_commit`: every run verifies every rolled-back manifest against its
   before facts again (`recovery.ts:618`). Once a later transaction has changed
   the same file, the comparison fails and the workspace is frozen.
3. `moves_own_names`: the rollback of a move unlinks every destination under
   which it finds the object of its operation (`moves/engine.ts:951`, and in a
   recovery run `moves/recovery.ts:473`), whether it was installed or not. A
   case-only rename has its source there, and hard links of one file that exchange
   their names have each other's. A source that was not staged yet is passed over
   just before (`moves/engine.ts:932`), so a failure or a crash between the first
   manifest and the stage name removes the only names of the file; the restore
   then finds nothing to link and freezes the workspace. The plan (line 74) says
   that a failure "removes only authenticated transaction-created names". The
   tests have case-only renames, cycles and hard links, but none of them fails
   before its first stage name. This came out when `NoFileLost` was to be proved;
   it claims nothing where a file has no name that is not also one of its new ones
   (`Anchored`).
4. `git_reported`: after the effect, `observeEffect` writes the private state with
   a transition from `executing` to `executing` (`git/recovery.ts:405`), which the
   state machine (`git/operationStore.ts:161`) does not have. So every Git
   mutation that goes through the journal freezes its repository and is answered
   `GIT_RECOVERY_REQUIRED`, though its effect is there. The journal's test
   (`test/git-mutation-journal.test.mjs:98`) replaces the runtime by a stub.

The following was met while modelling. The models take these steps; the
properties say in their conditions where they claim nothing.

Transactions and processes:

- `beforeWorkspaceUse` starts recovery and awaits nothing (`server.ts:6708`); its
  type says `=> void` and no caller waits, so a tool may be given a workspace
  with a half-made change in it, while `test/workspace-lifecycle.test.mjs:379` is
  named "recovers before issuing a workspace handle". A recovery that fails there
  is an unhandled rejection (`Unhandled`).
- When the bytes just installed cannot be read back, the operation is not marked
  installed, and the rollback leaves the new bytes, drops the backup and reports
  `rolled_back` (`atomicFs.ts:445`; `Torn` in the properties).
- A transaction committed by a recovery run is set to `recovery_required` when
  the same run fails later (`recovery.ts:652`); the next run rolls it back.
- Artifacts written just before a crash are named by no manifest and stay
  (`engine.ts:354`).
- Between a comparison and the unlink or rename that follows it, in a rollback
  (`atomicFs.ts:464`, `:467`) and in a recovery run (`recovery.ts:411`), another
  program's file is taken for the one compared and lost, as in an install.
- A file written in place after its backup was linked loses its bytes from before
  in the backup as well (`atomicFs.ts:378`). When the transaction is undone, the
  engine puts the changed file back unseen; a recovery run freezes the workspace.
  Recovery freezes it too when a file that a committed transaction has created is
  edited in place before its stage name is removed.
- A request that is past `ensureWorkspaceReady` may take the lock of a server
  that died after that and work next to its unfinished transaction
  (`engine.ts:299`), as may one whose own server has meanwhile frozen the
  workspace.
- The output limit and the lifetime timer call `void this.#terminate(...)`
  without a catch (`processManager.ts:160`, `:154`; `uncaught`). If that
  termination fails the rejection is unhandled and Node ends the server.

OAuth:

- A key rotation while the server runs leaves the token service unable to sign
  until it is restarted (`tokenService.ts:492`), where the phase 8 design has it
  sign with the new key. A refresh in that time rotates durably, then answers
  503; the client's retry is a replay and ends the family.
- `register` drops revoked clients (`clientStore.ts:403`); if an active grant of
  one remains, the schema (`stateStore.ts:179`) refuses every later registration.
- Of two concurrent refreshes with one token the second is answered 503 (busy)
  and the family goes on; `test/phase-8-refresh-revoke.test.mjs:103` expects it
  to be revoked.
- A failure while an access token is validated, the lock being busy for example,
  is answered with 401 and puts the valid token into the negative cache
  (`tokenService.ts:426`); the 503 of `resourceMiddleware.ts` is not reached.
- The revocation of an access token that cannot be verified (its lifetime is
  over, its key is retired, the state cannot be read) is acknowledged, and its
  grant goes on (`tokenService.ts:446`). `RevokedStaysOut` claims nothing for such
  an answer.
- Ended grants are never removed although the schema holds at most 4096
  (`stateStore.ts:146`), and an expired grant nobody has touched counts toward
  the limits (`grantStore.ts:124`).
- A redeemed code whose write is reported as failed but took effect leaves a
  grant whose tokens nobody has.

Moves:

- A committed undo requires the directory it removed to be absent for ever
  (`moves/recovery.ts:358`), and a rolled-back move is verified again in every
  run: a later change freezes the workspace, as in finding 2.
- `verifyReverseFacts` (`changesets/moveUndo.ts:461`) runs after `prepareMove`:
  a mismatch leaves a prepared manifest and the lock held, where the phase 3d
  design (line 322) says `UNDO_CONFLICT` "with zero mutation".
- When the manifest write that records a participant fails, the engine releases
  the lock (`moves/engine.ts:1097`) and the service then rolls back without it
  (`moves/service.ts:226`, `:236`). Recovery and a later move of the same file may
  take the lock in between. The first rollback unlinks the later move's
  destination, which it takes for its own, and the later move unlinks its stage
  name: the file has no name left. TLC finds it for two moves of one file and one
  failing step (`raced` in the properties).
- In a chain of moves between hard links of one file the rollback unlinks a name
  the move did not make, and then freezes.
- A decided commit whose recovery fails once is rolled back by the next run,
  though all its participants are recorded; the design (line 429) completes it
  (`derailed`).
- The end of the original change set is written and then read back
  (`moveStore.ts:236`, `:237`). When the read throws, the participant has failed
  (`moves/engine.ts:1104`), the undo is rolled back (`moveUndo.ts:267` to `:282`),
  and the change set it was to revert stays `undone` and cannot be undone any more
  (`misled`: `RecordsAgree` allows that and no more).
- A crash between a rollback and the transition of its change set leaves an
  `active` change set for a move that did not happen; one between a durable
  audit event and its recorded fact, a committed move whose change set says
  `recovery_required`.
- A failed rollback or finalization releases the lock with the manifest
  unfinished, so that a transaction already past `ensureWorkspaceReady` may
  start beside it.

Git:

- Whether a repository is frozen is read before the awaited audit append and the
  lock, and not again (`git/recovery.ts:323`): a call that waited meanwhile goes
  on to change a frozen repository. TLC shows it with two calls on one server,
  without a crash or a failing write, so the properties do not say that a frozen
  repository is left alone.
- The production probe answers "unknown" for every participant but the audit log,
  and the lock of a dead server is never taken over (`git/locks.ts:292`): any
  mutation interrupted by a crash, and any record left `preparing` by a busy
  lock, freezes its repository at the next startup, which is then refused
  (`productionRuntime.ts:851`) and stays so; nothing activates a repository again.
- A server that starts while another one is in a mutation meets a busy lock and
  freezes the repository under it (`git/recovery.ts:67`).
- `requireRecovery` gives the lock back although its freeze could not be written
  (`git/recovery.ts:468`, `:480`): until the next startup the repository takes
  further mutations beside an unproved one (`missed`).
- Any error of `effect`, one that changed nothing included, freezes
  (`git/mutationJournal.ts:103`).

Task worktrees (read, not modelled):

- An expired merge plan is rolled back by recovery, and the reservation it then
  consumes throws, so that the task is `recovery_required` at every restart; so
  is one whose target branch has moved by an ordinary commit.
- Recovery by a second server that is refused the lock of a plan moves the plan
  and its task on without it, under a merge that may be running.

## 5. What is proved

For every value of the constants, with no bound on processes, paths, requests,
crashes or failures:

- `WorkspaceLockProofs`: `Typing`; `Exclusion` (`ExclusiveUnlessRaced`) and
  `Recorded` (`HolderIsRecorded`). Mutual exclusion alone is not inductive; the
  invariant adds what each position says of the directory: whoever holds the
  lock is named by the record, whoever is between `mkdir` and the record finds
  the directory unowned, and a judgement that was not overtaken is about a process
  that is dead and still named by the record.
- `TransactionProofs`: `TypeCorrect` (`TypeOK`), whose substantial part is that a
  recovery run's position lies in the journal, which only grows; `OneWorks` (`LockInv`); `Invariance` (`IInv`); the safety
  properties of the transaction runs, `Evidence`, `Whole` and `Durable`; their
  action properties, `Recovered`, `RestoresOnlyItsOwn` and `NothingLost`; and the
  refinement `Spec => KeepsItsPromise`. Neither `EvidenceKept` nor `AllOrNothing`
  is inductive: that a backup is what it should be at the install depends on what
  was checked before, and that a manifest can be set to `rolled_back` on what the
  run has visited. `IInv` therefore says what each position of the engine means
  for its manifest (`ManifestInv`), what the state of an operation in memory means
  for the backup and the visible steps (`OperationInv`, `AppliedInv`), that only
  one operation at a time is between its check and its readback and that nobody
  but a foreign program changes its file meanwhile (`InstallInv`), that a failed
  readback never leads to a commit (`TornInv`), that no foreign version comes back
  (`FreshInv`), what it has found where it is about to restore a file
  (`RestoringOK`), and what the run has undone when it writes its verdict (`RunInv`:
  whatever it has passed is finished, whatever is visible is still to do, and an
  acknowledged transaction is only ever cleaned up after). All of it except the
  lock and the run speaks of one transaction, so the proof goes per transaction:
  a step touches one, and frame lemmas say that what another one did, work under
  the lock, a decision, a move of the run, leaves it alone. `NothingLost` rests on
  `InstallInv`: between check and install only another program can have written.
  The refinement has one lemma per kind of step: the transaction makes an abstract
  step, the others stutter.
- `ProcessProofs`: every safety invariant and action property the run checks of
  `ProcessManager`, for any number of processes and any limits. `Accounted` or
  `RevokedIsGone` alone is not inductive. `IInv` adds how far each routine has
  come and what it has made by then (`CallInv`, `EndingInv`), that a record stays
  until its ending is settled and only then may be evicted (`RecordInv`), and
  whom a revocation under way waits for (`GenerationInv`): at its end every start
  admitted before it has failed or its ending is settled, and then its child is
  gone. Each part is one lemma with a step per action. `QuotaIsKept` counts
  places on top of it: when the terminal places are all taken there is, by
  `ReadyIsRetained`, an oldest record to evict. `SuccessIsTrue`,
  `ReceiptIsEarned`, `RoomIsAlwaysFound` and `EndIsFinal` are action properties
  that follow from `IInv` at the step.
- `GitProofs`: the safety properties of the Git run. A record alone does not say
  whether its effect is there; `IInv` ties the three stores together: whoever
  works under a lock has it, and an interrupted call keeps it (`LockInv`), so no
  recovery writes the record of a running effect (`PhaseInv`), an effect stands
  in a record that tells of it and, when its call is over, behind a freeze or a
  lock (`EffectInv`), and what a startup has dealt with is rolled back or frozen
  (`StartupInv`). `SettledStaysSettled` needs that a rolled-back record is final,
  `EffectsSerialized` is `LockInv` at the step.

- `OAuthProofs`: `OAuthInv`, the three safety properties of the OAuth run, and
  the refinement `Spec => ImplementsAuthority`, which needs no fairness. None of
  the properties is inductive. `OAuthInv` adds that a change being written is one
  step from what is there, because nobody else has the lock (`JobOK`); that an
  authorization only moves for the call at the head of the promise chain
  (`ChainOK`); that a token stands for a grant there is, in a generation it has
  reached (`TokensOK`), which makes a refresh token one call's (`NoDoubleSpend`), and a
  successor that no client was given the last of its grant;
  and that the owner of a grant is past its approval (`RecordsOK`). The last is
  what keeps a revocation: an approval that came later would otherwise make a
  grant usable that was answered as revoked or refused. The proof goes over what
  steps have in common, a call that is over, goes on, takes the lock, has its
  change written, and shows each action to be one of these; the same lemmas give
  the refinement.
- `ToolCallsProofs`: `CallsInv`, the three safety properties of the run and the
  refinement `Spec => ImplementsGate`. `LifecycleInv` is why the lifecycle need
  not look at its counters again: the turns are the exclusive calls in order and
  only the first one may run (`TurnsExact`); in the queue of the event loop no
  exclusive call is behind a shared one that is about to enter (`OrderKept`); and
  the counters are what they count (`CountersExact`), so that a call resumed at
  zero is alone. `LaneExact` has the writer at the head of its lane from policy to
  result. `ApprovalInv` ties the chain to those who wait for it, one operation per
  call (`AwaitsExact`), an approval to its one grant (`GrantsExact`), a call to the
  grant it took (`TookExact`) and a reserved approval to the call that will
  consume or burn it while the log can be written (`ReservationsKept`).
  `NumbersLeft` counts: there is an approval and a grant left for each that may
  still come, because a call asks once and a decision is repeated only after a
  failed write. The steps are proved per part; what the operations of the chain
  have in common (a sweep, a transition, an answer) are lemmas of their own.

- `MoveProofs`: `NoFileLost`. `MoveInv` says who works on
  the workspace (`LockInv`: the holder of the lock, or one call that rolls back
  without it, as long as nobody takes the lock beside it), that a call has a
  manifest from its planning on and the order has each once (`OrderInv`), that a
  run has still to visit whatever is unfinished and finds it as it read it
  (`RunInv`), and in which state the manifest of a worker is (`PhaseAt`). For the
  files it is not enough that each has a name: a rollback unlinks names, so it
  must be known that another one is left. `LoopAt` says of each loop what it has
  done with the operations behind it: before a rollback removes destinations
  every source it might unlink by accident is under its source name or staged
  (`Safe`), and before it drops stage names every file is back (`Back`); on the
  way forward a stage name is dropped only behind a link (`Show`, `Settle`).
  `StageInv` ties stage names to their operation and has none of them from
  `committed_pending_participants` on. The condition `Anchored` of `NoFileLost`
  came out of this proof, with finding 3.
- `MoveRecordProofs`: `RecordsAgree` and `RecoveredBeforeMove`. Neither has a
  condition on `raced`: they hold beside a rollback that has lost the lock,
  because a write is refused unless the manifest is the one last read. `RecordsInv`
  therefore says what a worker knows while its manifest is `Fresh`. `PhaseInv`: a
  call that has the lock finds every other manifest at its end, and a run goes
  once through each unfinished one, which is in the state it saw unless that was
  written since (`ScanInv`, `HeadAt`). `StoreInv`: a participant that is recorded
  has its effect in its store, the participants come in their order, and a
  decision follows the last of them (`FactsAt`). `UndoInv`: an undo that has ended
  the change set it reverts has its own two participants recorded, is the only
  such one, and stands until it is committed or given up for good, or it was told
  that the end of that change set had failed (`misled`) and then comes to no
  decision before a recovery run has looked again. That there is
  only one rests on `PhaseInv`: a second undo inspects the change set only when
  the first one's manifest is at its end.

TLC has checked `MoveInv` and `RecordsInv` on the workspaces of the `moves` run.

`HolderIsRecorded`, `TypeOK`, `PlacesBounded`, `ReadyIsRetained`, `RoomIsFound`,
`NeverRunsAgain`, `MoveInv`, `RecordsInv` and the `IInv` of processes and Git are
in no run of their own: the theorems cover them, or the invariant a run checks
contains them.

The assumptions are the named `ASSUME`s of `WorkspaceLock`, `TransactionState`,
`MoveState`, `ProcessManager`, `GitJournal`, `OAuthState`, `ToolCall`, `Approvals` and
`ToolCalls`; TLC evaluates them in every run.

Model-checked only:

- `EndsWhole` of `MoveSystem`.
- Liveness under fairness, which is outside what the prover can do.

## 6. What is left

To prove: `EndsWhole` of `MoveSystem`, which needs what each loop has done to every
path and to the directory.

### Not modelled

Components with state and behaviour, each with a hazard of its own:

| Component | Why not | What may go wrong there |
|---|---|---|
| Audit log | its append is modelled as its outcome wherever it is called; its lock is the pattern of `WorkspaceLock`, rotation and probing depend on bytes | the lock of a dead writer and the next one's, as for the workspace lock |
| Git services | commands to an external git; what they guarantee rests on Git's own locks, refs and worktrees, which are outside the repository | `git/locks.ts:160`: a release judges the record and then renames whatever has the name |
| Task worktrees | plans and receipts follow Git's outcome, with the same limit; as long as finding 4 stands no merge gets past its journal | `worktrees/mergeExecute.ts:440`: a crash after the merge and before its plan records the effect |
| Undo of version 1 change sets | a second transaction over the modelled one | `changesets/undo.ts:320`: a crash after the reverse transaction is final leaves the original marked as not undone |
| Root admission and leases | revocation of processes and approvals is modelled at their side | `access/fullAccessLease.ts:164`: after one failed revocation the next one does not isolate its steps |
| HTTP transport, session map | closing is modelled where it meets calls (`Close`); requests arrive as calls | `http.ts:2000`: a session evicted while a request of it is under way |
| C2C sessions | one file with a revision, written by one process | a stale revision |
| Local control | one owned child | `control/runtime.ts:226`: a burn whose audit write fails leaves the approval reserved |
| Process host protocol | its answers are nondeterministic in `ProcessManager` | frames are parsed byte by byte |
| Tool pipeline around a call | abort and result shaping | `tools/runtime/pipeline.ts:112`: an abort after the approval was consumed |
| Disposal of the runtime | one call at the end of the process | `productionRuntime.ts:926`: one `try` around all resources, the first failure skips the rest |

Not planned: policy evaluation, semantic navigation, search, file and shell
tools, analysis, rendering, configuration, command line and user interface. They
are functions of their inputs, or wrappers around other programs, whose
interesting cases are data rather than behaviour. They are also most of the
repository's lines; `PROJECT.json` gives the reason for each.
