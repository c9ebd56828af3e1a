# Omniagent Plus: a TLA+ model of the coordination core

Omniagent Plus runs coding agents side by side. What keeps them from harming
each other is a core of files and services shared by many processes: a ledger
of everything that happened, locks, leases on parts of a repository and on git
worktrees, cooldowns of providers, a planner that sends tasks to accounts, and,
towards the agents' server, a fence that the writers of one session share and
cursors its readers follow. This directory models that core, checks it with
TLC and proves its exclusions, and what it records before it acts, with TLAPS.

Paths below are relative to `src/packages/`.

## 1. Inventory

| Part | State it keeps | Operations | Talks to |
|---|---|---|---|
| Fleet lease store, `worktree-leasing/src/lease-store.ts` | `consiliency-leases.json`: live leases and a capped event history | acquire, renew, release, expire, query | `coordination.lock`, the wall clock |
| Supabase lease store, `supabase-lease-store.ts` and `supabase/migrations/*.sql` | lease tables on a server | the same, as remote calls | network, server time |
| State ledger, `state-ledger/src/append-only-store.ts` | `ledger.jsonl`, `manifest.json`, a record cache per instance | initialize, appendRecord, compactRecords | `store.lock` |
| Snapshot reader, `ledger-snapshot.ts` | none | readLedgerSnapshot | reads the ledger's files without a lock |
| Worktree lease manager, `lease-manager.ts` | registry (records, intents, reclamation, watermarks), active map, ledger rows | acquireLease, renewLease, releaseLease, reconcile, retainHistory, withCleanup | ledger, `coordination.lock`, git |
| Cleanup and stale recovery, `cleanup.ts`, `stale-recovery.ts` | none of their own | cleanupLeasedWorktree, recoverStaleLease | manager, git, process table |
| Filesystem lock, `filesystem-lock.ts` | SQLite lock file, set of paths locked in this process | withFilesystemLock | all stores on files |
| Coordination store and channel, `coordination.ts`, `coordination-channel.ts` | cooldown map, lease map, message file | setProviderCooldown, acquireExclusiveLease, send, list | ledger, lock, the manager's marker |
| Route command and coordinator, `cli/src/commands/route-task.ts`, `coordinator/src` | route decisions, cooldowns, classifications | plan, arbitrate, persist, launch, repeat or pause | ledger, lease store, provider |
| Identity isolation, `identity-isolation/src`, `cli/src/commands/identities.ts` | identity statuses in the ledger | preflight | ledger |
| Rate-limit catalog and failure mapper, `rate-limit-catalog/src`, `omnigent-transport/src/failure-mapper.ts` | none | classify a text, status and headers | classify-limit, retry policy |
| Provider, `omnigent-transport/src/http-provider.ts`, `sse-stream.ts` | sessions, turns, cancellation fences, event numbers | sendTurn, cancelTurn, closeSession, streamEvents, readHistory | server over HTTP and SSE, other instances |
| Event and history mappers, `event-mapper.ts`, `history-mapper.ts` | what one connection has emitted | frames and items to events | provider |
| Contracts, redaction, read models, adapters, argument parsing | none | conversions and checks | |

What is hard here, and hardly reached by tests:

* processes die at any instruction, with the lock released by the operating
  system and files left between two writes;
* the same intent is applied twice, once by the process that made it and once
  by the one that finds it;
* readers without the lock race writers, caches race other instances;
* the lock file itself is removed while somebody is inside;
* the clock is read before a wait and used after it; leases and cooldowns end
  at a boundary;
* worktrees are edited, replaced and removed by agents and users between the
  checks of a cleanup and git's removal;
* ledgers, histories and message files reach their caps in mid-operation;
* remote answers are lost, requests arrive after their caller gave up, and
  evidence changes between the reads of one decision;
* an event reaches a reader as a frame, from the history and once more after a
  reconnection, and the names of a message differ between them.

`PROJECT.json` lists every component with its status and every hazard at its
line with the properties aimed at it; a hazard without one says why.

Correctness, part by part: the lease store excludes overlapping hard leases, in
the file and in what holders believe; the ledger is an append-only log through
crashes; a snapshot is a state the ledger had; a branch and a path belong to
one lease at most, a live holder keeps its lease, git removes nothing in use,
a task goes on where it left off, what was interrupted is finished, and evidence outlives retention; of two calls
that were both inside the lock one answers at most, and map and ledger part in
one direction only; a route is justified by what it read, hard routes exclude
each other, nothing is launched that is not on record, and retries end; no
writer passes a fence, an interrupt should stop the turn it is meant for and a
turn should not be taken for another (section 3 says how far they do); a reader
that follows its cursor misses nothing and is told of a turn's end once.

## 2. Modules

| Module | Models |
|---|---|
| `LeaseService` | abstract lease service: leases change one grant, renewal, release or expiry at a time |
| `LeaseStore` | `LocalLeaseStore`; implements `LeaseService` (`ImplementsService`) |
| `AppendOnlyLog` | abstract log: fresh sequence numbers, pruning |
| `AppendOnlyStore` | `AppendOnlyStore` and `readLedgerSnapshot`; implements `AppendOnlyLog` (`ImplementsLog`) |
| `WorktreeLeaseManager` | `WorktreeLeaseManager`, `cleanupLeasedWorktree`, `recoverStaleLease`, retention of lease rows |
| `FilesystemLock` | `withFilesystemLock`: publication, identity and reservation of the lock file |
| `CoordinationChannel` | the pure part of `LocalCoordinationChannel`, as operators |
| `CoordinationRoot` | one state root: cooldowns, exclusive leases, messages and the manager's claim, inside `FilesystemLock` |
| `LimitClassifier` | `failure-mapper.ts`, rules and classifier of the rate-limit catalog, as operators |
| `RoutePlanner` | pool, cooldowns, portability, `planRoute`, retry guardrails, as operators |
| `IdentityPreflight` | what `identities preflight` finds and records, as operators |
| `RouteTask` | `route-task` with the remote lease store, the launch gate and the failure policy |
| `SseNormalizer` | the part of `OmnigentSseNormalizer` that decides which turn a frame is about, as operators on its state |
| `SessionFence` | `OmnigentHttpProvider`: several providers, one session, the shared fence and lease, the server |
| `EventMapper` | `event-mapper.ts`, `history-mapper.ts` and the numbering of events, as operators |
| `SessionEvents` | `streamEvents` and `readHistory` of one provider, their readers and the server |
| `Subsequence` | the elements of a sequence at some of its positions, without recursion |
| `SubsequenceProofs`, `LeaseStoreProofs`, `LeaseHistoryProofs`, `AppendOnlyStoreProofs`, `WorktreeLeaseManagerProofs`, `CoordinationRootProofs`, `RouteTaskProofs`, `SessionFenceProofs` | TLAPS proofs |
| `MC...` | requests, initial states, model values and symmetry for TLC |

They compose by EXTENDS: `FilesystemLock` and `CoordinationChannel` into
`CoordinationRoot`; `LimitClassifier` into `RoutePlanner` into
`IdentityPreflight` into `RouteTask`; `SseNormalizer` into `SessionFence`;
`EventMapper` into `SessionEvents`. `LeaseStore`, `AppendOnlyStore`,
`AppendOnlyLog`, `WorktreeLeaseManager` and `CoordinationChannel` extend
`Subsequence`. The lease store, the ledger and the manager take the lock for mutual exclusion; `CoordinationRoot` shows what the lock
gives when its file is left alone and what is left when it is not.

Definitions whose comment begins "As X, ..." are faulty variants of X. No
specification uses them; they are there to show that the properties notice the
fault.

### LeaseStore

State: the file (`leases`, `events`), `lock`, the wall `clock`, and per process
its `phase`, `call`, the clock value it uses (`now`), what it read (`snap`) and
what it was told it holds (`belief`, history only). A call is `Begin`, `Enter`
(the lock, the clock, the file), and one committing action per answer:
`AcquireGranted`, `AcquireConflict`, `RenewGranted`, `RenewNotFound`,
`NotHolder`, `ReleaseGranted`, `ReleaseNotFound`, `Expire`. `Commit` is
`writeState` with its capacity checks and `Trim`. `Crash` may strike anywhere.

* `acquire`, `renew` and `release` read their clock inside the lock; `expire`
  takes it as a default argument, before the wait. The model keeps the
  difference.
* `toContractTimestamp` cuts every clock value to whole seconds before it is
  compared or stored. The unit of the model's clock is that second.
* After `expireState` at the same `now`, renew's own expiry test
  (lease-store.ts:263) can no longer succeed; it has no action.
* The not-holder answers return without writing, so the expirations found on
  the way are not persisted; `NotHolder` does the same.
* Callers that inject `now` (tests do) are left out. `query` has no effect.
* A path selector is the sequence of its segments, which is what trailing
  slash removal and the prefix test with "/" amount to.

### AppendOnlyStore

State: `lines` and `tail` of the ledger, the manifest, a version for each file
that every change moves on (for dev, inode, size and times), the lock, and per
instance its program counter, working data and cache. Every durable effect is
a step: repair, write, manifest, high-water mark, replacement, final manifest.
`Fail` is an I/O call that throws and leaves the instance alive, `Crash` the
death of the process; either may leave the write of the ledger at nothing, a
fragment, or everything but the newline. A reader is `ReadStart` (stat of the
manifest), `ReadOpen` (open, stat), `ReadBytes`, and `ReadReturn` or
`ReadRetry` after the second stats. `acked`, `pruned` and `base` are history.

Left out: index files and the repair counter (never read to decide),
`resetForTests`, record contents. The size limit counts records, so the one
case where a newline alone exceeds the limit is not told apart from a full
ledger.

### WorktreeLeaseManager

State: the registry (`records`, `pending`, `reclamation`, `reclaimedThrough`),
the active map, the ledger's lease rows, the clock, the running processes, what
is at each path (`tree`), the lock with the program counter of its owner, and
`belief`, `finished` and `work.seen` as history. Every call is `Enter` (with the check of
`ensureManagedStore`), `Reclaim` (`finishReclamation`), the replay of pending
intents, then its own step; `applyIntent` is `AppendRow`, `WriteRecord`,
`WriteMap`, `ClearPending`, each a durable write. Cleanup is a first round of
checks with `StageRemoval`, a second round (`Recheck`), git (`RemoveWorktree`)
and `MarkRemovalDone`. Retention is `SelectReclamation`, `Compact` and
`Reclaim` again, then the replay.

* A lease id stands for the id and its fencing token, both drawn afresh.
* One host, no reuse of process ids; callers pass the holder, token and host
  they read, so that the option checks of cleanup pass. A managed root is
  configured and `repoRoot` known (without them cleanup is always blocked).
* A round of checks is one look at the worktree; the worktree may change
  between the rounds and before git runs. `git worktree remove` without
  `--force` refuses a dirty worktree whatever cleanup has found (`GitRemoves`),
  so `RemovalSafe` does not claim that as cleanup's merit.
* `leasePath` is the path the caller names, for any mode: a write always has
  one (named, or the default), a continuation may, and goes on elsewhere then.
* `recoverStaleLease` judges expiry by the time of its caller's inspection,
  which may be any earlier one.
* The ledger append is atomic: that is `AppendOnlyStore`'s promise. A full
  ledger (`AppendLimit`) and a throwing call (`Fail`) are kept.
* Pending intents are replayed in any order; the code's is insertion order.
* The active map is the set of the ids it lists. Its keys (repository, branch,
  mode) differ for different active leases by `ClaimsExclude`.
* Rows of other kinds appear only as `named`, the leases that a kept session
  refers to. `branchHead` is not supplied. The marker file is left out, and so
  is `intent_payload_mismatch`, which fresh record ids make unreachable.
* Read-only leases are left out: they differ in one option check of cleanup.

### SessionFence and SseNormalizer

State: the shared `fence` and `lease`; the server (`server`, `kind`, `backlog`,
`log`, `stopped`); per provider what it remembers (`lo[p]`, a field for each map
or set of the class, with the normalizer of its open stream as `lo[p].n`) and
the stream being read (`stream[p]`); and the calls under way (`calls`). `quota`
bounds the calls; `returned` and `proved` are history.

A call is one action per stretch between two awaits. `sendTurn` is `SendEnter`,
`GetSession`, `SendChecks`, `PostMessage` (the server), `SendAnswer` and, where
a rejection is persisted, `SendRejected`; `cancelTurn` is `CancelTurn` (the
reservation), `CancelEnter`, `GetSession`, `CancelChecks` (which writes the
fence), `PostInterrupt`, `CancelAnswer`, what follows its write
(`CancelWritten`, `CancelRestored`) and, the lease given back (`Leave`),
`CancelFinally`. A stream is `Connect`, `StreamEnter` (the fence is read under
the lease), `StreamInstall` (and installed without it), `StreamItems`, `StreamSnapshot`, `StreamSync` and then
`Deliver` per frame, with `ReopenFence` and `ResolveFence` where a frame waits
for the lease.

A turn goes by the provider's key, the id of the server's acknowledgement and
the response id. Nothing the server sends ties the first to the last, which is
why most of the class is bookkeeping about names, and most of the model too.

* The server starts turns in the order it accepted them, one at a time, reports
  `session.input.consumed` for pending inputs before `response.created`, and
  answers an interrupt with `session.interrupted` even if nothing runs. These
  are read off the provider's tests; the server itself is not in the repository.
* An answer is `ok`, `denied` (not handled), `malformed` (a failure that is
  final, handled or not), or an `error` or `lost` answer (handled or not). To an
  interrupt or a stop all but the first two are alike (`Outcome`).
* The fence store is a register and the lease mutual exclusion: both are the
  caller's. Reading the fence and installing it is one step where both are done
  under the lease, and writing the fence one step with what precedes it; what follows the write is another step only where
  the code looks at something that may have changed meanwhile.
* One stream per provider at a time; a consumer opens the next after it ends.
* Left out: `createSession`, failed and incomplete responses, tool calls,
  retries of an idempotency key, a provider without lease and store (which may
  send, but neither cancel nor close). Text and event cursors are in
  `SessionEvents`.

### FilesystemLock, CoordinationChannel and CoordinationRoot

The lock's state: the file the path names (`lockFile`), how many were ever
linked there, who has `reserved` each, the processes that have the path in
their `activePaths`, each call's `stage` and the file it has `opened`. A call is
`Claim`, `Publish` and `Link` (a new file is linked into place, or the other's
is taken), `Open`, `Reserve` (with the first `SamePath` check) and, after the
callback, `SamePath` again and `Finally`. A process that closes any handle on a
file gives up every POSIX lock it has on it (`ClosedBy`); `activePaths` is what
makes that harmless. `LockDies` ends a process anywhere; `RemoveLock` is
somebody who deletes the file.

`CoordinationRoot` runs four callbacks under it. `Steps` gives the order of the
reads and writes of each: a cooldown is read, written to the map and then to
the ledger, an exclusive lease to the ledger and then to the map. Each is a step
of its own (`ReadCooldowns`, `WriteCooldowns`, `JournalCooldown`, `ReadLeases`,
`JournalLease`, `WriteLeases`, `ReadInbox`, `WriteInbox`, `ReadManaged`,
`WriteMarker`); `LedgerFails` and `Die` may come between any two. `List` is the
consumer that pages without the lock: a page is the set of the `PageLimit`
earliest messages behind the cursor, which moves to the `LatestOf` them.
`acked`, `overlaps`, `delivered`, `used` and the seconds of the cursors the
reader had are history.

* Inode and `instance_id` of a lock file are one number; its SQLite content is
  not modelled beyond the reservation.
* Initial roots are a fresh one and one of an older version, with a released
  lease and messages from the future.
* The cursor is time and id, a send dates its message by a clock of whole
  seconds, and ids are random: a message of the cursor's own second may come
  before it, is missed then and stays missed when the cursor has moved on.
  `PagesMissOnlyTies` says that nothing else is.
* Properties but `OneAnswers` speak of roots whose lock file was not removed:
  when it was, two callbacks do run at once, and what the code promises then is
  that one of them throws.
* A refused send may still make corrected times durable (`Sent`), and does here.
* The remote channel is two calls of a server; `RouteTask` has its yield request.

### LimitClassifier, RoutePlanner, IdentityPreflight and RouteTask

The first three are operators over what a call has read. A text is the set of
telling phrases in it, a signal that set with status and headers; the families
of patterns and the order in which they are tried are the code's. A snapshot
is `[statuses, cooldowns, classes]`; `Plan` is `planRoute` over the pool made
of it. `Score` and the slots are computed as in the code, in hundredths where
that uses fractions. The pool and the fallbacks are sets; the code sorts them
and takes the first, `Best` is the profile that none is `Better` than, and that
there is one such profile is proved.

`RouteTask`'s state: each task's `job` (its step, request, reading and
decision), the `ledger` (statuses and classifications in order, cooldowns), the
recorded `routes`, the requests on the `wire` to the remote store, its `table`,
the `clock`, the provider's `sessions` and the turns `posted` to them. A call is
`Begin`, three reads, `Preliminary` (the first plan, which alone may refuse
without a record), the server's `Acquire` or `Query` with the answer and the
second plan (`Told`), `Arbitrated` (with the request to yield), `Persist` and
`Return`. The launch gate is `CheckSession` or `CheckTurn`, `PersistLaunch`, and
`CreateSession` or `SendTurn`; the caller repeats, pauses the provider family
or ends in `TurnFails`.

* `Unanswered` is a lost or unusable answer, a timeout or an error: the
  request may have been served, may still be on the wire and be served later.
* The SQL functions run one after the other under the server's advisory lock
  and on its clock, which here is the hosts' too; nothing compares the two.
* A scope's path is the sequence of its names. A lease's history tables, which
  decide nothing, are left out.
* `RecordPreflight` reads a prefix of a profile's statuses and appends at the
  end: two preflights of one profile are a read and a write without a lock
  (`identities.ts:101-118`), and the later one carries over counts it read
  before the earlier one wrote.
* `preflight.ts:119-125` looks at the profile's own cooldown, without its reset
  time, before it looks for missing credentials. A profile whose own cooldown
  is over and whose credentials are missing is recorded as cooling down, and a
  route may take it. `Unfit` says so rather than hide it.
* route-task goes by the status recorded last, preflight by the one checked
  last; the model keeps the difference.
* Health and capabilities of providers, which route-task never supplies, delays
  between attempts, and the counters of `active-turns.ts`, which nothing
  increments, are left out.

### SessionEvents and EventMapper

State: the server (`items` it persisted, the `outcome` of each turn, the one
that is `active`, the `message` in the making); the provider's numbering of
events (`filed`, `next`) and its record of delivered text (`delivered`); each
reader's stream or request with its cursor; and `got`, what a reader received.
`Open` opens the stream, with a replay of the response in flight or without;
`Replay` reads the history and makes a mapper that knows it; `TakeReplayed`
and `TakeFrame` give the reader what it asks for; `Drop` breaks the connection;
`ReadHistory` answers a page.

* Deltas name their message by its item id, by the stream's own, or not at all,
  as the provider's tests have them.
* One text block per message; frames carry sequence numbers; a call and its
  result are persisted and said in one step; the pages of one `getHistory` are
  one snapshot. The pass of the trimming that pairs by time is left out, and so
  are `turnAliasId` and the ends `timed_out` and `incomplete` of the mapper.
* The provider lives throughout: its numbering is in memory, and a cursor of an
  earlier process means nothing to the next.
* A turn that completes leaves no item, so a completion missed while
  disconnected does not come back; `NothingLost` asks for failures and
  cancellations, which do leave one.
* `readHistory` pages in the order of the history while numbers are given in the
  order of first sight, so that a second reader, or one that starts over with a
  limit, may be given a `nextCursor` beyond an event it has not seen. The run
  has one reader who follows its cursor. `state-ledger/src/replay.ts:503` makes
  its cursor differently, one past the greatest number.

## 3. Runs

| Run | Question | Properties | Bounds |
|---|---|---|---|
| `lease_store` | exclusion under races, waits, crashes; full history | `TypeOK`, `HardExclusion`, `HoldersExclude`, `HistoryInTimeOrder`, `HistoryProvesLeases`, `ReleaseAlwaysFits`, `ImplementsService` | 2 processes, 2 ids, overlapping hard scopes, 2 lifetimes, clock 0 to 2, 2 live leases, 3 events, 3 calls |
| `ledger` | two writers, caches, torn writes, a reader without the lock | `TypeOK`, `SnapshotLinearizable`, `NoFalseCorruption`, `Recoverable`, `AckedSurvives`, `CacheSound`, `ImplementsLog` | 2 instances, 1 reader with 2 attempts, 3 ids, 2 records, 5 operations |
| `worktree_claims` | interrupted mutations and retention, nested paths, continuation | `TypeOK`, `ClaimsExclude`, `FilesAgree`, `NoLegacyConflict`, `EvidenceKept`, `NeverRevived`, `ContinuesOnLatest` | 1 process, 1 branch, a path and one below it, 5 mutations, 3 rows, 1 failure, clock 0 to 1 |
| `worktree_cleanup` | cleanup and recovery against a changing worktree; intents are resolved | `HolderKeepsLease`, `RemovalSafe`, `IntentsResolve` | 2 processes, 2 mutations, 3 rows, 1 failure, 2 worktrees made, waits of 1 |
| `coordination` | calls interrupted between map and ledger, a removed lock file, a full inbox, a paging reader | `OneAnswers`, `CooldownsJournaled`, `LeasesStand`, `InboxKept`, `PagesMissOnlyTies` | 2 processes with 2 calls at a time, 2 lock files, 2 calls in all, clock 0 to 3, 2 messages, pages of 1, 2 faults |
| `route_task` | routes over changing evidence, leases over lost answers, launches, retries | `RoutesJustified`, `HardRoutesExclude`, `LaunchesRecorded`, `RetriesBounded` | 2 tasks, one of which launches, 3 profiles with two accounts of one provider, 6 requests, 8 failures, 2 calls, clock 0 to 1, 1 fault or new record |
| `fence_writers` | several writers and one fence | `WritersFenced`, `FencesExclusive`, `CancelledStaysRejected` | 2 providers, one of which streams, 2 turns acknowledged as pending, 1 call at a time, 1 cancellation, 1 close, 1 connection, answers denied, malformed or, of an interrupt or a stop, lost |
| `fence_binding` | whose response a turn takes | `RightResponse` | 1 provider, 2 turns, 2 calls at a time, 1 read, 1 close, 2 connections, no cancellation |
| `fence_interrupt` | whose turn an interrupt stops | `InterruptHitsOwnTurn` (violated) | 2 providers, one of which streams, 2 turns acknowledged as pending, 1 call at a time, 1 cancellation, every answer ok |
| `fence_proof` | proof during a write | `ProofLiftsFence` (violated) | 1 provider, 2 turns, 1 cancellation |
| `session_events` | what a reader is given over frames, history, breaks | `NothingLost`, `OneTerminal` | 1 turn, 2 messages that share no letters, 1 call, 1 reader, deltas named in 3 ways, 2 requests, pages of 2, 2 frames waiting when more are said |
| `session_text` | the same with texts that begin alike | `NothingLost` (violated) | the same without the call |

The bounds are the smallest in which the case occurs: two holders and a third
call to meet them; a history that must trim while a lease is live; a compaction
that drops the newest record followed by an append; a writer that completes,
tears and completes again while another holds a cache; a mutation interrupted
and replayed with a further acquisition to meet it; an acquisition, release,
second acquisition and release, a retention and a continuation (5 mutations);
a call that dies between map and ledger and another that reads what it left; a
second send that finds an older message and the first, and so a full inbox; a
lock file removed under one call, linked again by the next, both inside; two
hard requests whose paths meet in one of their two names, one whose answer is
lost and whose request is served after the other's; a turn that fails often
enough to use up the greatest budget; a turn that is cancelled, another that
comes after or before it, and a stream that is opened in the middle of either;
a stream that breaks in the middle of a message and another that is opened
before the message is persisted. A faulty variant of an operation, one or more
for each property, makes TLC find the property violated within them.

Deadlock is checked in the manager's runs. The other models stop when their
bound on calls or requests is used up, so their runs do not check it.

Processes are interchangeable for the lease store and the ledger, processes and
slots for `CoordinationRoot`, and the slots of calls for `SessionFence`; those
runs use that symmetry. No run with a liveness property uses any.

Fairness is used in `worktree_cleanup` alone: weak fairness of the steps of the
process inside the lock (its continuation is not blocked by any other: the code
awaits nothing but I/O there), and of calls being made. The second is an
assumption on the deployment and not on the code: nothing resolves an intent
until somebody calls. Failures are bounded there, for a disk that always fails
resolves nothing. A prepared removal whose worktree stands, or whose holder
lives, stays by design, and so does an intent while the ledger is full.

`HoldersExclude` assumes a clock that is not set back (`Rewinds = FALSE`): the
store takes the wall clock as it comes, and a clock set back prolongs what a
holder believes. `HardExclusion` does not need the assumption and is proved
without it, and for scopes of every granularity.

### Where the fence's properties stop

`RightResponse` and `InterruptHitsOwnTurn` are not true of every instance:

* `fence_writers` leaves out answers to a message that are lost. With them the
  three invariants hold too, in 3.1 million states, too many for a run of five
  minutes.
* `InterruptHitsOwnTurn` is violated with two writers and pending
  acknowledgements, queueing off: `fence_interrupt`, below. It needs such an
  answer: with item ids the stream waits for no consumed input.
* `RightResponse` holds for one writer that does not cancel or queue, whose
  answers carry an id and arrive. The pairing of history items with waiting
  turns is by position, and the stream's by order of arrival.
* With `AllowQueuedTurns = TRUE`, turn 1 acknowledged as pending is taken off
  the stream's waiting ids, turn 2 is put on them before turn 1's
  `session.input.consumed` is read, and `response.created` of turn 1 is bound to
  the first in line: handle 2 carries the response of turn 1, passes every
  check of `cancelTurn`, and interrupts turn 1 (http-provider.ts:2057).
* A fence may also stay because a stream or a read installs what it read under
  the lease when the lease is gone (http-provider.ts:649-653, 1286-1289): a
  turn quarantined meanwhile is quarantined no more, and its proof settles
  nothing. `ProofLiftsFence` speaks of proof read while `cancelTurn` holds the
  lease, which leaves this case out.

### The three violations

Each is a disagreement of the code with what the repository says of it;
`PROJECT.json` quotes both.

* `fence_interrupt`: provider p opens its stream just before its turn 1 starts,
  reads an empty history and, after the start, a snapshot with response 1
  active. So response 1 is known to the stream and its `response.created` is
  bound to no waiting turn, while `session.input.consumed` puts the pending id
  of turn 1 among those that wait. Turn 1 completes; the server is idle, and
  q's turn 2 is admitted and started. Its `response.created` is bound to the id
  that waits, turn 1's, which p is cancelling: response 2 counts as one of that
  turn's, the snapshot's active response is attributed to it, and the interrupt
  stops q's turn.
* `fence_proof`: `cancelTurn` has its acknowledgement, knows a response id of
  the turn, looks for proof, finds none and awaits the write of the fence. The
  stream reads `session.interrupted` during that write: there is no quarantine
  yet that it could settle. The quarantine comes after, and its proof is not due
  twice. The fence stays, and no writer sends, cancels or closes, unless the
  server sends a further terminal frame of that turn.
* `session_text`: a stream opened with a cursor passes live text through
  `trimDeliveredHistoryText`. Its last pass pairs an event whose message has an
  id with text that was delivered under another message's id, so the live text
  of a new message that is a prefix of the old one's is dropped. A reader that
  has read every frame lacks it. A later read of the history gives it: there
  the old message pairs with its own text by id, and the new one gets a number
  beyond the cursor.

## 4. Proofs

For every value of the constants that the named assumptions admit:

| Theorem | States |
|---|---|
| `LeaseStoreProofs!TypeCorrect` | `Spec => []TypeOK` |
| `LeaseStoreProofs!HardExclusionHolds` | `Spec => []HardExclusion` |
| `LeaseStoreProofs!HoldersExcludeHolds` | `Spec => []HoldersExclude`, if the clock is never set back |
| `LeaseStoreProofs!StoreImplementsService` | `Spec => ImplementsService`, if the clock is never set back |
| `LeaseHistoryProofs!HistoryProvesLeasesHolds` | `Spec => []HistoryProvesLeases` |
| `LeaseHistoryProofs!ReleaseAlwaysFitsHolds` | `Spec => []ReleaseAlwaysFits` |
| `LeaseHistoryProofs!HistoryInTimeOrderHolds` | `Spec => []HistoryInTimeOrder`, if the clock is never set back |
| `AppendOnlyStoreProofs!TypeCorrect` | `Spec => []TypeOK` |
| `AppendOnlyStoreProofs!RecoverableHolds` | `Spec => []Recoverable` |
| `AppendOnlyStoreProofs!AckedSurvivesHolds` | `Spec => []AckedSurvives` |
| `AppendOnlyStoreProofs!CacheSoundHolds` | `Spec => []CacheSound` |
| `AppendOnlyStoreProofs!SnapshotLinearizableHolds` | `Spec => []SnapshotLinearizable` |
| `AppendOnlyStoreProofs!NoFalseCorruptionHolds` | `Spec => []NoFalseCorruption` |
| `AppendOnlyStoreProofs!LedgerImplementsLog` | `Spec => ImplementsLog` |
| `WorktreeLeaseManagerProofs!TypeCorrect` | `Spec => []TypeOK` |
| `WorktreeLeaseManagerProofs!ClaimsExcludeHolds` | `Spec => []ClaimsExclude` |
| `WorktreeLeaseManagerProofs!HolderKeepsLeaseHolds` | `Spec => []HolderKeepsLease` |
| `WorktreeLeaseManagerProofs!FilesAgreeHolds` | `Spec => []FilesAgree` |
| `WorktreeLeaseManagerProofs!NoLegacyConflictHolds` | `Spec => []NoLegacyConflict` |
| `WorktreeLeaseManagerProofs!EvidenceKeptHolds` | `Spec => []EvidenceKept` |
| `WorktreeLeaseManagerProofs!NeverRevivedHolds` | `Spec => NeverRevived` |
| `WorktreeLeaseManagerProofs!RemovalSafeHolds` | `Spec => RemovalSafe` |
| `WorktreeLeaseManagerProofs!ContinuesOnLatestHolds` | `Spec => ContinuesOnLatest` |
| `CoordinationRootProofs!OneAnswersHolds` | `Spec => []OneAnswers` |
| `CoordinationRootProofs!LeasesStandHolds` | `Spec => []LeasesStand` |
| `CoordinationRootProofs!CooldownsJournaledHolds` | `Spec => []CooldownsJournaled` |
| `CoordinationRootProofs!InboxKeptHolds` | `Spec => []InboxKept` |
| `CoordinationRootProofs!PagesMissOnlyTiesHolds` | `Spec => []PagesMissOnlyTies` |
| `RouteTaskProofs!LaunchesRecordedHolds` | `Spec => []LaunchesRecorded` |
| `RouteTaskProofs!HardRoutesExcludeHolds` | `Spec => []HardRoutesExclude` |
| `RouteTaskProofs!RetriesBoundedHolds` | `Spec => []RetriesBounded` |
| `RouteTaskProofs!RoutesJustifiedHolds` | `Spec => []RoutesJustified` |
| `SessionFenceProofs!WritersFencedHolds` | `Spec => []WritersFenced` |
| `SessionFenceProofs!FencesExclusiveHolds` | `Spec => []FencesExclusive` |
| `SessionFenceProofs!CancelledStaysRejectedHolds` | `Spec => []CancelledStaysRejected` |

**Lease store.** `HardExclusion` is not inductive: a commit writes what it
computed from what it read at `Enter`. `StoreInv` adds `TypeOK` and
`SnapshotCurrent`: whoever is in the locked phase owns the lock and its snapshot
is the file. A commit is then seen as a *proposal* built from the file
(`LiveLeasesShape`, `GrantIsProposal`, `RenewIsProposal`, `ReleaseIsProposal`):
it keeps, drops, or replaces leases without changing mode or scope, or adds one
that rivals none, and `CommitKeepsStoreInv` does the rest once for all
operations. For holders, `BeliefInv` adds `BeliefBacked` (a lease its holder may
still rely on is in the file exactly as the holder knows it), `ReleasingGaveUp`
(a process that is releasing relies on the lease no more) and `ClockAhead` (no
call uses a clock value ahead of the wall clock, so what a sweep finds over is
over for its holder too). Exclusion of beliefs follows from exclusion in the
file. That the store implements `LeaseService` needs no more: a commit is one
change of the service, and a clock value that is not ahead of the wall clock
expires nothing the service would keep. Assumed: natural bounds and lifetimes,
well-formed requests, `NoProc` and `NoLease` distinct from processes and leases.

**History of the lease store.** A kept history is the old one at some of its
positions (`TrimShape`): the protected ones, and of the others those that the
cap leaves room for, which is a count of ranks. `FileOK` says of a file that
every live lease is proved by it (`Proves`: an acquisition, and a latest event
that carries the lease) and that both caps hold; what protects those two events
now protects them in every later file, and releasing one lease never needs more
room than its two events gave. `HistoryInTimeOrder` needs that a call's clock
value is behind no event already in the file.

**Subsequences.** `RankOrder`, `NthCounts` and `SubsequenceProperties`: the
elements at the chosen positions, each once, in their order. `Subsequence` is
defined by ranks for their sake, for nothing can be proved of a recursive filter
here. Trimming, both compactions and the pruning of the inbox are instances. A
sorted page is replaced by its members: of a finite set in an order (`IsOrder`)
the last of the first n has all of them before it (`LaterHasMoreBelow`,
`LastOfOrder`), which is all a reader of the page relies on.

**Ledger.** `Increasing(lines)` alone survives neither a repair nor a
compaction. `FilesOK` adds that what a torn write left after the last newline,
if it is a whole record, is `Fresh`: one the next append could write, so a
repair that completes it keeps the order; `HistoryOK`, that what was dropped is
behind the high-water mark, so its number is never given again; `WorkOK`, what
the store inside the lock knows at each of its effects (`Selected` for a
compaction); `CacheOK`, that a cache is of this file and true of it, or of an
earlier one. Versions only grow (`LedgerStep`), which makes an unchanged version
proof of an unchanged file, for caches and for the second look of a reader
(`ReaderOK`). `LogStep` shows at each effect which step of `AppendOnlyLog` it is.
Assumed: natural limits, `NoStore` and `NoManifest` distinct from stores and
manifests.

**Worktree manager.** None of its invariants is inductive: between an intent and
its clearing the files disagree. `IInv` says how far they may. `FilesInv`: of a
lease whose intent has no row yet, records, lease map and rows `Agree` as if
there were no intent; once the row is there (`Begun`), the intent is never taken
back, and the record it is to become is the one it claims with (`IntentOK`). A
replay may drop an intent for one reason, a worktree that stands where its
removal was prepared; a removal that has begun was of a worktree that is `Gone`,
and a directory that is gone does not come back with the same identity
(`WorldStep`), so what is dropped never began. `WorkInv` is what the process in
the lock knows at each step: an applying one has done the effects before it, a
removing one still has its intent, what a compacting one has announced is
a selection from these rows (`SelectedOK`), so selecting again it drops only rows
of leases it announced, or rows that are neither the last nor pinned.
Of a removal, `SeenOK` adds what is at its path if it is not what was last
looked at: something put there since, which is what `RemovalSafe` excepts.
`BeliefInv` says who may rely on a lease and that a call to give it up comes from
one that no longer does. `HistoryInv` is for `ContinuesOnLatest`: a released
record that retention has deleted is `Lost`, and a later one of its key or the
watermark (`reclaimedThrough`) tells of it (`Later`). For that, whatever is lost
was over (`Over`: when a record was released or may be recovered) before now and
before a lease that is being acquired can end (`Before`, the one place where
`WaitAssumption` is needed), and no lease is over before it was last written
(`Lives`). The action properties
follow from `IInv`. Assumed: `BoundsAssumption` (natural bounds and lifetimes),
`RequestAssumption` (a write names its path, a continuation may),
`WaitAssumption` (nobody waits for the lock longer than a lease lives),
`DirtyAssumption`, `NoProcAssumption` and `NothingAssumption` (what is absent is
none of the things that may be there).

**Coordination root.** `LockInv` is the lock's own: one call of a process gets
past the wait (`activePaths`), so closing a handle frees nobody else's
reservation; whoever is inside holds the reservation of the file it has open;
a file that was replaced is never linked again. `CallInv` adds that ids are
fresh and which calls may still answer (`Answerable`): of two that overlap, one
has a file open that the path no longer names, and never will again. That is
`OneAnswers`. While the file stays, callbacks run alone, so what one has read is
still what is there: `RootInv` says so of leases (`LeaseCallSound`), `CooldownInv`
of cooldowns, with how far the call is between map and ledger, and `SendInv` of
messages. What a send leaves is the file with times corrected, what has expired
dropped, and its message unless the file is full (`NormalizedSound`,
`SentSound`). A send inside the lock has a clock value that no message of a call
and no cursor is past (`DatedBy`), because it looked at the clock after it had
the lock; so its message is behind no cursor, but for a tie, and dates no other
message back. Assumed:
`LockAssumption` (nobody is a caller), `CoordinationAssumption` (the calls are
the four kinds) and `RootAssumption` (a lease map of an older version has one
owner per branch and path, its messages have ids of their own, which no call
draws: `randomUUID`).

**Routes.** `JobInv` says whose an id is: of one call under way, or of one
answer. `LaunchInv` adds what the gate has made sure of at each of its steps; a
step that is none of the gate's leaves it alone (`Elsewhere`). `LeaseInv` is
about the remote store: requests on the wire have ids of their own that are not
in the table yet (`AskInv`), active hard rows do not overlap (`RowsInv`), and a
decision that is allowed under a hard lease names a row that is the call's own
(`Backed`), from the answer to the record. That the second plan takes the
arbitration over and refuses where it must (`ReplanHonours`) needs that it still
has a profile to go to, which the first plan showed over the same reading
(`Placed`). What the pool and the order of profiles compute is not needed.
`RetryInv` carries, from a failure to the next turn of the call, that its
repetitions are three at most and allowed, and that the failure before it was
not final (`Repeats`). The rest is in the policy: `RetriesAreSound` says what a
repetition granted by `MayRetry` implies, and for the catalog rests on the order
of its rules (`FirstMatchApplies`): a text of policy meets the first one, and one
of nothing but caps meets a hard stop unless the status speaks of load
(`StopsAreHard`). `RouteInv` is for `RoutesJustified`: the ledger is sound
(`IsLedger`: a status is its profile's, a reset is a time or absent), what a call
has read by each step is (`Informed`), and what it has decided is justified by
that. Steps of others leave a reading alone, so it remains to show that a plan
made of a sound reading is justified (`PlanIsJustified`): the best candidate is a
candidate (`BestIsOne`), the candidate stands for its profile's newest status and
classification and for the pauses that are active (`CandidateSays`), and each way
to a decision, the profile preferred or a fallback, has asked for what its kind
of move needs (`GateSays`, `FallbacksAreFit`, `SwitchAllowed`). That there is a
best candidate is that `Better` is an order (`BetterIsOrder`); the share of slots
in use compares products, so its transitivity is not linear (`ShareOrder`).
Assumed: `NothingAssumption` (an absent mode is not "hard", an absent
classification is none that the catalog gives), `ProfilesAssumption` (profiles
differ in id and name; limits are natural numbers, as the contracts' schemas
have them, 0 included), `InputsAssumption` and `LedgersAssumption` (requests,
preflights, failures and ledgers have the fields they are said to have, and a
reset is a time or absent).

**Session fence.** `FenceInv` is about who may write it. A call of a writing
kind that has entered the lease and not left it holds it (`CallOK`), and whoever writes
without a call, a stream that reopens or resolves a cancellation, does so while
nobody holds it; so what a call read at its entry is what it overwrites. A send
has seen the fence admit it, which depends on the quarantine that installing the
fence leaves (`AdmitsUnfenced`) and on nothing else a provider remembers; a
cancellation and a close write back a fence without a cancellation, with all
ids that were ever returned as cancelled (`Remembers`); a cancellation has its
own among them before it asks the server. Assumed: `FenceAssumption`.

Only model-checked: liveness (`IntentsResolve`); `RightResponse`, which holds
for the instance named above and not for all; `NothingLost`, which does not hold for all either, and `OneTerminal`, whose
mapper and trimming are folds over sequences, and what a fold computes is
induction over data.

## 5. Not modelled

* **Hazards without a property.** A worktree replaced by another clean one
  between the last identity check and git (cleanup.ts:64): git removes by
  path and the code holds no handle on the directory; the model lets it happen,
  and `RemovalSafe` excepts what was put there after cleanup last looked. A fence
  that a stream or a read installs after it gave the lease back
  (http-provider.ts:653): the model has it, and `ProofLiftsFence` keeps to proof
  that is read inside the lease (section 3). A call that throws after its intent is
  durable and is replayed into an active lease (lease-manager.ts:119): the
  models do it, and nothing says it may not. Queued turns (http-provider.ts:2057):
  see above. The retry of an idempotency key (http-provider.ts:454): keys
  end with the process, and the server has none to know a message by.
* **Read models and projections** (`state-ledger/src/replay.ts`,
  `coordinator/src/replay.ts`, `ui-read-model.ts`): one pass over the ledger for
  the user interface; no modelled code reads them back.
* **Contracts, redaction, handoff packets and their renderer**: schemas and
  conversions of text, without state.
* **Command line parsing and printing**, and the commands that call one modelled
  operation.
* **Harness and pipeline adapters**: schemas of other products.
* **HTTP and CLI clients, process manager, hybrid provider**: request building,
  parsing and the start of a server process; of the clients only what their
  errors mean is modelled.
* **Provider**: `createSession`, failed turns in `SessionFence`, approvals and
  session events, which the mappers pass on one to one; framing of the byte
  stream.
* **Remote coordination channel**: two calls of a server.
* **Identity isolation**: the policy of a shared server, process profiles and
  the loader of profiles, which check and keep nothing.
* **Evidence store, mounted workspaces, diff summary, heartbeat**: files written
  once, path names, formatting and one `renewLease`.
* **Retention of rows that are not leases**: a closure over kinds of rows the
  manager's model does not have.
* **Regular expressions of the rate-limit catalog**, and the hints of its
  provider and harness files: a text is the set of phrases in it.
