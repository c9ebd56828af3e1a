------------------------ MODULE WorktreeLeaseManager ------------------------
(***************************************************************************)
(* WorktreeLeaseManager (packages/worktree-leasing/src/lease-manager.ts)     *)
(* with the cleanup and stale recovery built on it.  A mutation of a lease   *)
(* is a write-ahead protocol over three files: the intent goes into the      *)
(* registry, its row into the state ledger, the record into the registry,    *)
(* the active map is rewritten, and the intent is cleared.  Every operation  *)
(* runs inside coordination.lock and begins by finishing what earlier ones   *)
(* left: a reclamation, then the pending intents.  Between any two writes    *)
(* the process may die or an I/O call may throw, and worktrees come, go,     *)
(* and change hands outside the lock.                                        *)
(*                                                                         *)
(* A lease id stands for the id with its fencing token, both drawn afresh    *)
(* at acquisition.  All processes are on one host; a process id is never     *)
(* reused.  The ledger appends atomically or not at all, which is what       *)
(* module AppendOnlyStore shows of it; only its lease rows are modelled.     *)
(***************************************************************************)
EXTENDS Integers, Sequences, FiniteSets, FiniteSetsExt, Subsequence

CONSTANTS
  Procs,         \* processes that call the manager
  Branches, Paths,
  Requests,      \* what acquireLease may ask: [task, branch, mode, path]
  Ops,           \* the operations callers use
  DirtyStates,   \* the dirty states callers report
  Ttl,           \* lifetime of a lease
  MaxTime,       \* bound on the clock
  MaxWait,       \* longest wait for the lock, in ticks
  MaxMutations,  \* bound on the intents issued
  MaxRows,       \* maxSnapshotBytes of the ledger, in lease rows
  MaxFaults,     \* bound on the I/O calls that throw
  MaxTrees,      \* bound on the worktrees added
  NoProc, NoPath, NoBranch, NoRecord, NoIntent, NoReclamation, NoWork

LeaseIds == 1..MaxMutations
Times    == 0..MaxTime
None     == -1                \* no watermark

ASSUME BoundsAssumption ==
  /\ Ttl \in Nat /\ MaxTime \in Nat /\ MaxWait \in Nat /\ MaxMutations \in Nat /\ MaxRows \in Nat
  /\ MaxFaults \in Nat /\ MaxTrees \in Nat

\* A write is at the path its caller names, or else at the default one; a
\* continuation may name one or leave it to the candidate.
ASSUME RequestAssumption ==
  \A r \in Requests : /\ r.branch \in Branches
                      /\ r.mode \in {"write", "sequential_continue"}
                      /\ r.path \in Paths \cup {NoPath}
                      /\ r.mode = "write" => r.path # NoPath

\* Nobody waits for the lock (2 s unless configured) for longer than the lease
\* lives that is granted then (300 s unless asked otherwise).
ASSUME WaitAssumption == MaxWait <= Ttl

ASSUME DirtyAssumption == DirtyStates \subseteq {"clean", "dirty", "unknown"}

ASSUME NoProcAssumption == NoProc \notin Procs

VARIABLES
  records,      \* registry.records: lease id to stored record
  pending,      \* registry.pending: lease id to intent
  reclamation,  \* registry.reclamation
  reclaimedThrough, \* registry.reclaimedThrough: key to time
  activeMap,    \* worktree-leases.json: ids of the leases it lists
  rows,         \* the worktree_lease rows of the ledger
  clock,        \* the wall clock
  alive,        \* the processes that run
  tree,         \* what is at each path
  trees,        \* worktrees added so far; the last one's identity
  lock,         \* the process inside coordination.lock, or NoProc
  pc, work,     \* what it is doing; work.seen is history: how many worktrees
                \* there had been when cleanup last looked
  belief,       \* what each process takes a lease for: "none", "held"
                \* from the answer of acquireLease, "given" up after that
  finished,     \* history: every record ever released
  issued, faults

registry == <<records, pending, reclamation, reclaimedThrough>>
files    == <<registry, activeMap, rows>>
world    == <<clock, alive, tree, trees>>
vars == <<files, world, lock, pc, work, belief, finished, issued, faults>>

-----------------------------------------------------------------------------
(* Records, intents, rows *)

Key(r) == <<r.task, r.branch>>            \* continuationKey
Keys == {Key(r) : r \in Requests}

Record == [task: {r.task : r \in Requests}, branch: Branches,
           mode: {"write", "sequential_continue"}, path: Paths, holder: Procs,
           renewedAt: Times, expiresAt: 0..(MaxTime + Ttl),
           dirty: {"clean", "dirty", "unknown"}, status: {"active", "released"},
           updatedAt: Times, identity: 0..MaxTrees]

IntentRecord ==
  [recordId: LeaseIds, record: Record, identity: 0..MaxTrees,
   operation: {"acquire", "renew", "release", "remove"},
   removal: {"none", "prepared", "removal_done"}]

Reclamation == [recordIds: SUBSET LeaseIds, leaseIds: SUBSET LeaseIds,
                watermarks: [Keys -> Times \cup {None}]]

ASSUME NothingAssumption ==    \* what is absent is none of the things that may be there
  NoRecord \notin Record /\ NoIntent \notin IntentRecord /\ NoReclamation \notin Reclamation

Active   == {l \in LeaseIds : records[l] # NoRecord /\ records[l].status = "active"}
Released == {l \in LeaseIds : records[l] # NoRecord /\ records[l].status = "released"}
Pending  == {l \in LeaseIds : pending[l] # NoIntent}

Present(path) == tree[path].there
Missing(p) == p \notin alive              \* checkProcessLiveness

\* What git says of a path: readGitWorktreeRegistration with readGitBranch, and
\* inspectWorktreeDirtyState.
Registered(path, branch) == tree[path].branch = branch
Clean(path) == tree[path].clean

RowsOf(l) == {k \in DOMAIN rows : rows[k].lease = l}
HasRow(recordId) == \E k \in DOMAIN rows : rows[k].recordId = recordId

Intent(recordId, operation, record) ==
  [recordId |-> recordId, operation |-> operation, record |-> record,
   removal |-> "none", identity |-> 0]

\* releaseIntent
ReleaseIntent(l, operation, now) ==
  Intent(issued + 1, operation,
         [records[l] EXCEPT !.status = "released", !.updatedAt = now])

NoBelief == [l \in LeaseIds |-> "none"]

Init ==
  /\ records = [l \in LeaseIds |-> NoRecord]
  /\ pending = [l \in LeaseIds |-> NoIntent]
  /\ reclamation = NoReclamation
  /\ reclaimedThrough = [k \in Keys |-> None]
  /\ activeMap = {} /\ rows = <<>>
  /\ clock = 0 /\ alive = Procs
  /\ tree = [p \in Paths |-> [there |-> FALSE, id |-> 0, clean |-> TRUE,
                              branch |-> NoBranch]]
  /\ trees = 0
  /\ lock = NoProc /\ pc = "idle" /\ work = NoWork
  /\ belief = [p \in Procs |-> NoBelief]
  /\ finished = {}
  /\ issued = 0 /\ faults = 0

-----------------------------------------------------------------------------
(* The lock, and what every operation does first *)

\* The arguments of a call.  acquireLease and retainHistory read their clock
\* before they wait for the lock; recoverStaleLease goes by the time of its
\* caller's inspection, whenever that was.
Calls ==
  [op: {"acquire"} \cap Ops, request: Requests, dirty: DirtyStates,
   now: Times \cap ((clock - MaxWait)..clock)]
    \cup [op: {"renew"} \cap Ops, lease: LeaseIds, dirty: DirtyStates]
    \cup [op: {"release", "cleanup"} \cap Ops, lease: LeaseIds]
    \cup [op: {"recover"} \cap Ops, lease: LeaseIds, now: 0..clock]
    \cup [op: {"retain"} \cap Ops, cutoff: 0..clock]
    \cup [op: {"reconcile"}]

\* Renewals and releases come from the process that was granted the lease;
\* cleanup and recovery from any that read the lease in the registry.
MayCall(p, c) ==
  CASE c.op \in {"renew", "release"} -> belief[p][c.lease] # "none"
    [] c.op \in {"cleanup", "recover"} -> c.lease <= issued
    [] OTHER -> TRUE

\* A caller that releases or cleans up its lease has stopped relying on it.
Enter(p, c) ==
  /\ lock = NoProc
  /\ p \in alive
  /\ MayCall(p, c)
  /\ activeMap \subseteq {l \in LeaseIds : records[l] # NoRecord} \cup Pending
  /\ c.op \notin {"retain", "reconcile"} => issued < MaxMutations
  /\ lock' = p
  /\ pc' = "reclaim"
  /\ work' = [call |-> c, todo |-> {}, lease |-> 0, from |-> "none", seen |-> 0]
  /\ belief' = IF c.op \in {"release", "cleanup"}
               THEN [belief EXCEPT ![p][c.lease] = IF @ = "held" THEN "given" ELSE @]
               ELSE belief
  /\ UNCHANGED <<files, world, finished, issued, faults>>

Leave ==
  /\ lock' = NoProc /\ pc' = "idle" /\ work' = NoWork

\* What finishReclamation deletes, and the watermarks it leaves.
Reclaimed ==
  IF reclamation = NoReclamation THEN {}
  ELSE {l \in reclamation.leaseIds \cap Released : l \notin Pending /\ RowsOf(l) = {}}
RaisedNever(k) == reclaimedThrough[k]   \* as Raised, forgetting what goes
Raised(k) ==
  IF \E l \in Reclaimed : Key(records[l]) = k
  THEN Max({reclaimedThrough[k], reclamation.watermarks[k]})
  ELSE reclaimedThrough[k]
StillNeeded(k) ==
  \/ \E l \in (Active \cup Released) \ Reclaimed :
       Key(records[l]) = k /\ records[l].updatedAt <= Raised(k)
  \/ \E l \in Pending :
       Key(pending[l].record) = k /\ pending[l].record.updatedAt <= Raised(k)

FinishReclamation ==
  /\ records' = [l \in LeaseIds |-> IF l \in Reclaimed THEN NoRecord ELSE records[l]]
  /\ reclaimedThrough' = IF reclamation = NoReclamation THEN reclaimedThrough
                         ELSE [k \in Keys |-> IF StillNeeded(k) THEN Raised(k) ELSE None]
  /\ reclamation' = NoReclamation
  /\ UNCHANGED <<pending, activeMap, rows, world, lock, belief, finished,
                 issued, faults>>

\* As Reclaim, with no replay after it.
ReclaimWithoutReplay ==
  /\ pc \in {"reclaim", "reclaim_after"}
  /\ FinishReclamation
  /\ pc' = IF pc = "reclaim" /\ work.call.op = "retain" THEN "select" ELSE "replay"
  /\ UNCHANGED work

Reclaim ==
  /\ pc \in {"reclaim", "reclaim_after"}
  /\ FinishReclamation
  /\ pc' = IF pc = "reclaim" /\ work.call.op = "retain" THEN "select" ELSE "replay"
  /\ work' = [work EXCEPT !.todo = Pending]

-----------------------------------------------------------------------------
(* applyIntent, for the intent of lease work.lease *)

Apply(l, from) ==
  /\ pc' = "append"
  /\ work' = [work EXCEPT !.lease = l, !.from = from]
  /\ UNCHANGED lock

\* The intent is dealt with: the next one, or the end of the call.
Applied ==
  IF work.from = "replay"
  THEN /\ pc' = "replay"
       /\ work' = [work EXCEPT !.todo = @ \ {work.lease}]
       /\ UNCHANGED lock
  ELSE Leave

\* As AppendRow, again for a row that an earlier attempt appended.
AppendRowAgain ==
  LET i == pending[work.lease]
  IN  /\ pc = "append"
      /\ HasRow(i.recordId) \/ Len(rows) < MaxRows
      /\ rows' = Append(rows, [recordId |-> i.recordId, lease |-> work.lease,
                               status |-> i.record.status])
      /\ pc' = "record"
      /\ UNCHANGED <<registry, activeMap, world, lock, work, belief, finished,
                     issued, faults>>

\* As AppendRow, at any size of the ledger.
AppendRowUnbounded ==
  LET i == pending[work.lease]
  IN  /\ pc = "append"
      /\ rows' = IF HasRow(i.recordId) THEN rows
                 ELSE Append(rows, [recordId |-> i.recordId, lease |-> work.lease,
                                    status |-> i.record.status])
      /\ pc' = "record"
      /\ UNCHANGED <<registry, activeMap, world, lock, work, belief, finished,
                     issued, faults>>

\* The row is appended, unless an earlier attempt did.
AppendRow ==
  LET i == pending[work.lease]
  IN  /\ pc = "append"
      /\ HasRow(i.recordId) \/ Len(rows) < MaxRows
      /\ rows' = IF HasRow(i.recordId) THEN rows
                 ELSE Append(rows, [recordId |-> i.recordId, lease |-> work.lease,
                                    status |-> i.record.status])
      /\ pc' = "record"
      /\ UNCHANGED <<registry, activeMap, world, lock, work, belief, finished,
                     issued, faults>>

\* The ledger is full.  An acquisition or a renewal takes its intent back
\* and throws; any other intent, and any that is replayed, stays.
AppendLimit ==
  LET i == pending[work.lease]
  IN  /\ pc = "append"
      /\ ~HasRow(i.recordId) /\ Len(rows) >= MaxRows
      /\ pending' = IF work.from = "publish" /\ i.operation \in {"acquire", "renew"}
                    THEN [pending EXCEPT ![work.lease] = NoIntent]
                    ELSE pending
      /\ Applied
      /\ UNCHANGED <<records, reclamation, reclaimedThrough, activeMap, rows, world,
                     belief, finished, issued, faults>>

\* As WriteRecord, with the active map left as it is by a release.
WriteReleaseOnly ==
  LET r == pending[work.lease].record
  IN  /\ pc = "record"
      /\ records' = [records EXCEPT ![work.lease] = r]
      /\ finished' = IF r.status = "released" THEN finished \cup {r} ELSE finished
      /\ pc' = IF r.status = "released" THEN "clear" ELSE "map"
      /\ UNCHANGED <<pending, reclamation, reclaimedThrough, activeMap, rows, world,
                     lock, work, belief, issued, faults>>

WriteRecord ==
  LET r == pending[work.lease].record
  IN  /\ pc = "record"
      /\ records' = [records EXCEPT ![work.lease] = r]
      /\ finished' = IF r.status = "released" THEN finished \cup {r} ELSE finished
      /\ pc' = "map"
      /\ UNCHANGED <<pending, reclamation, reclaimedThrough, activeMap, rows, world,
                     lock, work, belief, issued, faults>>

WriteMap ==
  /\ pc = "map"
  /\ activeMap' = Active
  /\ pc' = "clear"
  /\ UNCHANGED <<registry, rows, world, lock, work, belief, finished, issued, faults>>

\* The intent is cleared; an acquisition answers with the lease.
ClearPending ==
  /\ pc = "clear"
  /\ pending' = [pending EXCEPT ![work.lease] = NoIntent]
  /\ belief' = IF work.from = "publish" /\ pending[work.lease].operation = "acquire"
               THEN [belief EXCEPT ![lock][work.lease] = "held"]
               ELSE belief
  /\ Applied
  /\ UNCHANGED <<records, reclamation, reclaimedThrough, activeMap, rows, world,
                 finished, issued, faults>>

\* publishMutation: the intent is written, then applied.
Publish(l, intent) ==
  /\ issued' = issued + 1
  /\ pending' = [pending EXCEPT ![l] = intent]
  /\ Apply(l, "publish")
  /\ UNCHANGED <<records, reclamation, reclaimedThrough, activeMap, rows, world,
                 belief, finished, faults>>

\* The call answers, or throws, without a change.
Answer ==
  /\ Leave
  /\ UNCHANGED <<files, world, belief, finished, issued, faults>>

-----------------------------------------------------------------------------
(* replayPending *)

\* A prepared removal had no effect: the very worktree is still there,
\* registered and clean.
NoEffect(l) ==
  LET i == pending[l] IN
    /\ Present(i.record.path)
    /\ tree[i.record.path].id = i.identity
    /\ Registered(i.record.path, i.record.branch)
    /\ Clean(i.record.path)

\* It took effect: nothing is there, git knows of no other branch there and
\* the holder is gone.
TookEffect(l) ==
  LET i == pending[l] IN
    /\ ~Present(i.record.path)
    /\ tree[i.record.path].branch \in {NoBranch, i.record.branch}
    /\ Missing(i.record.holder)

Prepared(l) == pending[l].removal = "prepared"

Replaying(l) == pc = "replay" /\ l \in work.todo

ReplayApply(l) ==
  /\ Replaying(l)
  /\ Prepared(l) => TookEffect(l)
  /\ Apply(l, "replay")
  /\ UNCHANGED <<files, world, belief, finished, issued, faults>>

ReplayDrop(l) ==
  /\ Replaying(l)
  /\ Prepared(l) /\ NoEffect(l)
  /\ pending' = [pending EXCEPT ![l] = NoIntent]
  /\ work' = [work EXCEPT !.todo = @ \ {l}]
  /\ UNCHANGED <<records, reclamation, reclaimedThrough, activeMap, rows, world, lock, pc,
                 belief, finished, issued, faults>>

ReplayQuarantine(l) ==
  /\ Replaying(l)
  /\ Prepared(l) /\ ~NoEffect(l) /\ ~TookEffect(l)
  /\ work' = [work EXCEPT !.todo = @ \ {l}]
  /\ UNCHANGED <<files, world, lock, pc, belief, finished, issued, faults>>

\* The replay is over and the operation proper begins.
Ready(op) == pc = "replay" /\ work.todo = {} /\ work.call.op = op

Reconciled == (Ready("reconcile") \/ Ready("retain")) /\ Answer

-----------------------------------------------------------------------------
(* acquireLease *)

\* getSequentialCandidate and the rules of evaluateBranchCollision: the
\* latest released records of the task on the branch agree on a path and
\* were clean, and none later was reclaimed.
Candidates(request) == {l \in Released : Key(records[l]) = Key(request)}
LatestCandidates(request) ==
  {l \in Candidates(request) :
     \A m \in Candidates(request) : records[m].updatedAt <= records[l].updatedAt}
Continues(request) ==
  /\ LatestCandidates(request) # {}
  /\ \A l, m \in LatestCandidates(request) : records[l].path = records[m].path
  /\ \A l \in LatestCandidates(request) :
       /\ records[l].dirty = "clean"
       /\ records[l].updatedAt > reclaimedThrough[Key(request)]

\* leasePath, or else the path to be reused.
LeasePath(request, path) ==
  IF request.path # NoPath THEN path = request.path
  ELSE \A l \in LatestCandidates(request) : path = records[l].path

Collides(request) == \E l \in Active : records[l].branch = request.branch

\* As Quarantined, for the path alone.
QuarantinedPath(request, path) == \E l \in Pending : pending[l].record.path = path

\* An unresolved intent keeps its branch and its path out of reach.
Quarantined(request, path) ==
  \E l \in Pending : \/ pending[l].record.branch = request.branch
                     \/ pending[l].record.path = path

Free(request, path) ==
  /\ ~Collides(request)
  /\ request.mode = "sequential_continue" => Continues(request)
  /\ LeasePath(request, path)
  /\ ~Quarantined(request, path)
  /\ \A l \in Active : records[l].path # path

NewRecord(path) ==
  LET c == work.call
  IN  [task |-> c.request.task, branch |-> c.request.branch, mode |-> c.request.mode,
       path |-> path, holder |-> lock, renewedAt |-> c.now,
       expiresAt |-> c.now + Ttl, dirty |-> c.dirty, status |-> "active",
       updatedAt |-> c.now,
       identity |-> IF Present(path) THEN tree[path].id ELSE 0]

Acquire ==
  /\ Ready("acquire")
  /\ \E path \in Paths :
       /\ Free(work.call.request, path)
       /\ Publish(issued + 1, Intent(issued + 1, "acquire", NewRecord(path)))

AcquireRefused ==
  /\ Ready("acquire")
  /\ \A path \in Paths : ~Free(work.call.request, path)
  /\ Answer

-----------------------------------------------------------------------------
(* renewLease, releaseLease *)

\* requireOwner
Owned(l) == l \in Active /\ l \notin Pending

\* As Renew, of any record, which it makes active.
RenewAnyRecord ==
  LET l == work.call.lease
  IN  /\ Ready("renew")
      /\ records[l] # NoRecord /\ l \notin Pending
      /\ clock >= records[l].renewedAt
      /\ Publish(l, Intent(issued + 1, "renew",
                           [records[l] EXCEPT !.renewedAt = clock, !.updatedAt = clock,
                                              !.expiresAt = clock + Ttl,
                                              !.status = "active"]))

Renew ==
  LET l == work.call.lease
  IN  /\ Ready("renew")
      /\ Owned(l)
      /\ clock >= records[l].renewedAt
      /\ Publish(l, Intent(issued + 1, "renew",
                           [records[l] EXCEPT !.renewedAt = clock, !.updatedAt = clock,
                                              !.expiresAt = clock + Ttl,
                                              !.dirty = work.call.dirty]))

RenewRefused ==
  LET l == work.call.lease
  IN  /\ Ready("renew")
      /\ ~(Owned(l) /\ clock >= records[l].renewedAt)
      /\ Answer

Release ==
  /\ Ready("release")
  /\ Owned(work.call.lease)
  /\ Publish(work.call.lease, ReleaseIntent(work.call.lease, "release", clock))

\* Nothing to release, or an unresolved intent.
ReleaseRefused ==
  /\ Ready("release")
  /\ ~Owned(work.call.lease)
  /\ Answer

-----------------------------------------------------------------------------
(* recoverStaleLease *)

\* As Stale, on expiry and the worktree alone.
StaleByExpiry(l) ==
  /\ RowsOf(l) # {}
  /\ records[l].expiresAt <= work.call.now
  /\ Present(records[l].path)
  /\ Clean(records[l].path) /\ records[l].dirty = "clean"
  /\ Registered(records[l].path, records[l].branch)

\* evaluateStaleLeaseRecovery on what is read inside the lock, but for the
\* time, which is the inspection's.
Stale(l) ==
  /\ RowsOf(l) # {}
  /\ records[l].expiresAt <= work.call.now
  /\ Missing(records[l].holder)
  /\ Present(records[l].path)
  /\ Clean(records[l].path) /\ records[l].dirty = "clean"
  /\ Registered(records[l].path, records[l].branch)

Recover ==
  /\ Ready("recover")
  /\ Owned(work.call.lease) /\ Stale(work.call.lease)
  /\ Publish(work.call.lease, ReleaseIntent(work.call.lease, "release", work.call.now))

RecoverRefused ==
  /\ Ready("recover")
  /\ ~(Owned(work.call.lease) /\ Stale(work.call.lease))
  /\ Answer

-----------------------------------------------------------------------------
(* cleanupLeasedWorktree.  A round of checks is one look at the worktree;   *)
(* it may change between the first round, the second and the removal.       *)

\* The worktree of lease l as it was acquired: there, the same directory,
\* on its branch and clean.
Intact(l) ==
  LET path == records[l].path
  IN  /\ Present(path)
      /\ tree[path].id = records[l].identity
      /\ Registered(path, records[l].branch)
      /\ Clean(path)

\* Nothing is at the path and the holder is gone, or is the caller: only the
\* lease is left to release.
NothingThere(l) ==
  LET t == tree[records[l].path]
  IN  /\ ~t.there
      /\ t.branch \in {NoBranch, records[l].branch}
      /\ Missing(records[l].holder) \/ records[l].holder = lock

Removable(l) == Intact(l) /\ Missing(records[l].holder)

CleanupAbsent ==
  /\ Ready("cleanup")
  /\ Owned(work.call.lease) /\ NothingThere(work.call.lease)
  /\ Publish(work.call.lease, ReleaseIntent(work.call.lease, "release", clock))

CleanupBlocked ==
  LET l == work.call.lease
  IN  /\ Ready("cleanup")
      /\ ~(Owned(l) /\ (NothingThere(l) \/ Removable(l)))
      /\ Answer

\* stageRemoval: the intent is durable before git is asked.
StageRemoval ==
  LET l == work.call.lease
  IN  /\ Ready("cleanup")
      /\ Owned(l) /\ Removable(l)
      /\ pending' = [pending EXCEPT ![l] =
                       [ReleaseIntent(l, "remove", clock) EXCEPT !.removal = "prepared",
                                                                 !.identity = tree[records[l].path].id]]
      /\ issued' = issued + 1
      /\ pc' = "recheck"
      /\ UNCHANGED <<records, reclamation, reclaimedThrough, activeMap, rows, world,
                     lock, work, belief, finished, faults>>

\* As Recheck, on the strength of the first round.
RecheckSkipped ==
  /\ pc = "recheck"
  /\ pc' = "remove"
  /\ work' = [work EXCEPT !.seen = trees]
  /\ UNCHANGED <<files, world, lock, belief, finished, issued, faults>>

Recheck ==
  /\ pc = "recheck"
  /\ Removable(work.call.lease)
  /\ pc' = "remove"
  /\ work' = [work EXCEPT !.seen = trees]
  /\ UNCHANGED <<files, world, lock, belief, finished, issued, faults>>

\* The second round fails, or git does: the intent stays.
RecheckFailed ==
  /\ pc = "recheck"
  /\ ~Removable(work.call.lease)
  /\ Answer

\* git worktree remove, without --force: a registered worktree goes, and that
\* it is clean is git's own condition.
GitRemoves(path) == Present(path) /\ ~Registered(path, NoBranch) /\ Clean(path)

RemoveWorktree ==
  LET path == records[work.call.lease].path
  IN  /\ pc = "remove"
      /\ GitRemoves(path)
      /\ tree' = [tree EXCEPT ![path] = [@ EXCEPT !.there = FALSE, !.branch = NoBranch]]
      /\ pc' = "removed"
      /\ UNCHANGED <<files, clock, alive, trees, lock, work, belief, finished, issued, faults>>

RemoveRefused ==
  /\ pc = "remove"
  /\ ~GitRemoves(records[work.call.lease].path)
  /\ Answer

\* markRemovalDone, then the release of the same intent.
MarkRemovalDone ==
  /\ pc = "removed"
  /\ pending' = [pending EXCEPT ![work.call.lease].removal = "removal_done"]
  /\ Apply(work.call.lease, "publish")
  /\ UNCHANGED <<records, reclamation, reclaimedThrough, activeMap, rows, world,
                 belief, finished, issued, faults>>

-----------------------------------------------------------------------------
(* retainHistory *)

FirstRow(k) == \A j \in RowsOf(rows[k].lease) : k <= j
LastRow(k)  == \A j \in RowsOf(rows[k].lease) : j <= k

\* As Pinned, without the rows of active leases.
PinnedReleased(k, cutoff) ==
  LET l == rows[k].lease
  IN  \/ records[l] = NoRecord /\ l \notin Pending
      \/ l \in Pending /\ pending[l].recordId = rows[k].recordId
      \/ l \in Released /\ LastRow(k) /\ records[l].updatedAt >= cutoff

\* retentionSelection: the rows that are pinned, and with a kept row the
\* latest of its lease.  A kept session keeps the latest row of the lease it
\* names.
Pinned(k, cutoff) ==
  LET l == rows[k].lease
  IN  \/ records[l] = NoRecord /\ l \notin Pending
      \/ l \in Pending /\ pending[l].recordId = rows[k].recordId
      \/ l \in Active \cup Pending /\ (FirstRow(k) \/ LastRow(k))
      \/ l \in Released /\ LastRow(k) /\ records[l].updatedAt >= cutoff
Selected(cutoff, named) ==
  {k \in DOMAIN rows :
     \/ Pinned(k, cutoff)
     \/ LastRow(k) /\ \/ rows[k].lease \in named
                      \/ \E j \in RowsOf(rows[k].lease) : Pinned(j, cutoff)}

\* The reclamation intent, durable before the compaction.
SelectReclamation(named) ==
  LET kept == Selected(work.call.cutoff, named)
      ids  == {l \in Released \ Pending : RowsOf(l) # {} /\ RowsOf(l) \cap kept = {}}
  IN  /\ pc = "select"
      /\ reclamation' =
           [recordIds  |-> {rows[k].recordId : k \in DOMAIN rows \ kept},
            leaseIds   |-> ids,
            watermarks |-> [k \in Keys |-> Max({None} \cup
                              {records[l].updatedAt : l \in {m \in ids : Key(records[m]) = k}})]]
      /\ pc' = "compact"
      /\ UNCHANGED <<records, pending, reclaimedThrough, activeMap, rows, world, lock, work,
                     belief, finished, issued, faults>>

\* compactRecords selects again, on the ledger as it is by then, and never
\* drops a lease row that was not a candidate.
Compact(named) ==
  LET kept == {k \in DOMAIN rows : \/ k \in Selected(work.call.cutoff, named)
                                   \/ rows[k].recordId \notin reclamation.recordIds}
  IN  /\ pc = "compact"
      /\ rows' = Subsequence(rows, kept)
      /\ pc' = "reclaim_after"
      /\ UNCHANGED <<registry, activeMap, world, lock, work, belief, finished, issued, faults>>

-----------------------------------------------------------------------------
(* The environment *)

\* An I/O call throws: the operation ends where it is.
Fail ==
  /\ lock # NoProc
  /\ faults < MaxFaults
  /\ faults' = faults + 1
  /\ Leave
  /\ UNCHANGED <<files, world, belief, finished, issued>>

\* A process dies, and its lock with it.  One process always survives.
Crash(p) ==
  /\ p \in alive /\ alive # {p}
  /\ alive' = alive \ {p}
  /\ belief' = [belief EXCEPT ![p] = NoBelief]
  /\ IF lock = p THEN Leave ELSE UNCHANGED <<lock, pc, work>>
  /\ UNCHANGED <<files, clock, tree, trees, finished, issued, faults>>

Tick ==
  /\ clock < MaxTime
  /\ clock' = clock + 1
  /\ UNCHANGED <<files, alive, tree, trees, lock, pc, work, belief, finished, issued, faults>>

TreeIs(path, t) ==
  /\ tree' = [tree EXCEPT ![path] = t]
  /\ UNCHANGED <<files, clock, alive, lock, pc, work, belief, finished, issued, faults>>

\* ensureGitWorktree, or git itself; a path in use is reused or refused, neither a step.
TreeAdded(path, branch) ==
  /\ ~Present(path)
  /\ trees < MaxTrees
  /\ trees' = trees + 1
  /\ TreeIs(path, [there |-> TRUE, id |-> trees + 1, clean |-> TRUE, branch |-> branch])

\* Removed by someone else, with or without git knowing.
TreeGone(path, branch) ==
  /\ Present(path)
  /\ branch \in {NoBranch, tree[path].branch}
  /\ TreeIs(path, [tree[path] EXCEPT !.there = FALSE, !.branch = branch])
  /\ UNCHANGED trees

TreeEdited(path) ==
  /\ Present(path)
  /\ TreeIs(path, [tree[path] EXCEPT !.clean = ~@])
  /\ UNCHANGED trees

-----------------------------------------------------------------------------
EnterSome == \E p \in Procs : \E c \in Calls : Enter(p, c)

\* A step of the process inside the lock.
Step ==
  \/ Reclaim
  \/ \E l \in LeaseIds : ReplayApply(l) \/ ReplayDrop(l) \/ ReplayQuarantine(l)
  \/ Reconciled
  \/ AppendRow \/ AppendLimit \/ WriteRecord \/ WriteMap \/ ClearPending
  \/ Acquire \/ AcquireRefused
  \/ Renew \/ RenewRefused
  \/ Release \/ ReleaseRefused
  \/ Recover \/ RecoverRefused
  \/ CleanupAbsent \/ CleanupBlocked
  \/ StageRemoval \/ Recheck \/ RecheckFailed
  \/ RemoveWorktree \/ RemoveRefused \/ MarkRemovalDone
  \/ \E named \in SUBSET Released : SelectReclamation(named) \/ Compact(named)

Environment ==
  \/ Fail
  \/ \E p \in Procs : Crash(p)
  \/ Tick
  \/ \E path \in Paths :
       \/ \E b \in Branches : TreeAdded(path, b)
       \/ \E b \in Branches \cup {NoBranch} : TreeGone(path, b)
       \/ TreeEdited(path)

Next == EnterSome \/ Step \/ Environment

Spec == Init /\ [][Next]_vars

\* The process inside the lock goes on, and calls keep being made: a
\* deployment in which nobody calls the manager any more resolves nothing.
FairSpec == Spec /\ WF_vars(Step) /\ WF_vars(EnterSome)

-----------------------------------------------------------------------------
(* Properties *)

\* Type invariant of the three files, the worktrees and the lock.
TypeOK ==
  /\ records \in [LeaseIds -> Record \cup {NoRecord}]
  /\ pending \in [LeaseIds -> IntentRecord \cup {NoIntent}]
  /\ reclamation \in Reclamation \cup {NoReclamation}
  /\ reclaimedThrough \in [Keys -> Times \cup {None}]
  /\ activeMap \subseteq LeaseIds
  /\ Len(rows) <= MaxRows
  /\ clock \in Times /\ alive \subseteq Procs /\ issued \in 0..MaxMutations
  /\ lock \in alive \cup {NoProc}
  /\ (lock = NoProc) <=> (pc = "idle")

\* A lease claims its branch and its path while it is active or any intent
\* of it is unresolved.
Claims == Active \cup Pending
RecordOf(l) == IF l \in Pending THEN pending[l].record ELSE records[l]

\* No two leases claim one branch or one path, whatever was interrupted in
\* the middle of acquireLease, releaseLease or cleanup (the collision, owner
\* and quarantine checks of acquireLease, after replayPending).
ClaimsExclude ==
  \A l, m \in Claims : l # m =>
    /\ RecordOf(l).branch # RecordOf(m).branch
    /\ RecordOf(l).path # RecordOf(m).path

\* A running process that was granted a lease and has not given it up still
\* has it: no replay, cleanup, recovery or reclamation takes it away.
HolderKeepsLease ==
  \A p \in Procs : \A l \in LeaseIds : belief[p][l] = "held" =>
    /\ l \in Active /\ records[l].holder = p
    /\ l \in Pending => pending[l].record.status = "active"

\* Once no intent is unresolved the three files agree: the active map lists
\* the active records, the latest row of every lease has the status of its
\* record, and no replay appended a row twice.
FilesAgree ==
  /\ \A j, k \in DOMAIN rows : rows[j].recordId = rows[k].recordId => j = k
  /\ Pending = {} => /\ activeMap = Active
                     /\ \A k \in DOMAIN rows :
                          LastRow(k) /\ records[rows[k].lease] # NoRecord
                            => rows[k].status = records[rows[k].lease].status

\* The store never takes its own leases for those of another version: every
\* lease of the active map has a record or an intent when the next operation
\* looks (the legacy_lease_conflict check of ensureManagedStore).
NoLegacyConflict ==
  activeMap \subseteq Active \cup Released \cup Pending

\* Retention keeps the evidence: a record has a row in the ledger unless a
\* reclamation of that released lease is under way, and an active one has
\* the row of its acquisition.
EvidenceKept ==
  /\ \A l \in Active : HasRow(l) /\ l \in {rows[k].lease : k \in DOMAIN rows}
  /\ \A l \in Released :
       RowsOf(l) # {} \/ (reclamation # NoReclamation /\ l \in reclamation.leaseIds)

\* A lease that was released is never active again, and one whose record was
\* reclaimed never comes back (stale intents, late renewals, replays).
NeverRevived ==
  [][\A l \in LeaseIds :
       /\ l \in Released => l \notin Active'
       /\ l <= issued /\ records[l] = NoRecord /\ l \notin Pending
            => records'[l] = NoRecord /\ l \notin Pending']_vars

\* git is only asked to remove a worktree whose holder is gone, under a
\* durable intent of the only lease that claims the path; and what it removes
\* is what the lease was acquired for, on its branch, unless that was put there
\* after cleanup last looked (the checks before the intent and those repeated
\* after it).
RemovalSafe ==
  [][pc = "remove" /\ pc' = "removed" =>
       LET l == work.call.lease
           path == records[l].path
       IN  /\ l \in Active \cap Pending /\ Prepared(l)
           /\ Missing(records[l].holder)
           /\ \A m \in Claims : m # l => RecordOf(m).path # path
           /\ \/ tree[path].id = records[l].identity /\ Registered(path, records[l].branch)
              \/ tree[path].id > work.seen]_vars

\* A task continues in a worktree only on the latest evidence there ever was
\* of it: the records of that task and branch that were released last, even if
\* retention has reclaimed them since, were clean and on one path, where the
\* task goes on unless its caller named another.
ContinuesOnLatest ==
  [][\A l \in LeaseIds :
       l \notin Pending \cup Active /\ l \in Pending'
         /\ pending'[l].operation = "acquire"
         /\ pending'[l].record.mode = "sequential_continue"
       => LET r == pending'[l].record
              past == {f \in finished : Key(f) = Key(r)}
              last == {f \in past : \A g \in past : g.updatedAt <= f.updatedAt}
          IN  \A f \in last :
                /\ f.dirty = "clean"
                /\ \A g \in last : f.path = g.path
                /\ work.call.request.path = NoPath => f.path = r.path]_vars

\* Whatever a crash or a failed call left unresolved is resolved by later
\* calls, unless the ledger is full or a worktree stands where the removal
\* was prepared.
IntentsResolve ==
  \A l \in LeaseIds :
    l \in Pending ~>
      \/ l \notin Pending
      \/ Len(rows) >= MaxRows
      \/ pending[l].removal = "prepared" /\ ~TookEffect(l)

=============================================================================
