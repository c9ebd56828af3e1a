-------------------------- MODULE CoordinationRoot --------------------------
(***************************************************************************)
(* One state root as its coordination.lock sees it.  CoordinationStore     *)
(* (coordination.ts: setProviderCooldown, acquireExclusiveLease),          *)
(* LocalCoordinationChannel.send and WorktreeLeaseManager's claim of the   *)
(* root run as callbacks of FilesystemLock; every read, and every write of *)
(* a file, is a step of its own.  LocalCoordinationChannel.list reads      *)
(* without the lock.                                                       *)
(***************************************************************************)
EXTENDS FilesystemLock, CoordinationChannel

CONSTANTS
    Providers,      \* provider families a cooldown is about
    Ops,            \* the calls that may be made, see Operations
    InitialRoots,   \* what message file and lease map may hold at the start
    ReaderScope,    \* the scope of the reader's query
    MaxCalls, MaxTime, MaxFaults   \* bounds: calls, clock, faults injected

(***************************************************************************)
(* A lease names its branch and its path; released tells whether the entry *)
(* carries a release, which only older versions of the store wrote.        *)
(***************************************************************************)
Operations ==
    [kind : {"cooldown"}, provider : Providers]
    \cup [kind : {"send"}, scope : {o.scope : o \in {x \in Ops : x.kind = "send"}}]
    \cup [kind : {"lease"}, branch : {o.branch : o \in {x \in Ops : x.kind = "lease"}},
          path : {o.path : o \in {x \in Ops : x.kind = "lease"}}]
    \cup {[kind |-> "manage"]}
ASSUME CoordinationAssumption ==
    /\ Ops \subseteq Operations
    /\ {MaxCalls, MaxTime, MaxFaults, InboxTtl, Capacity, PageLimit} \subseteq Nat

Ids == 1..MaxCalls

(***************************************************************************)
(* What older versions left: a lease map with one owner per branch and     *)
(* path, and messages of any time, whose ids, random ones, are not those   *)
(* that calls will draw.                                                   *)
(***************************************************************************)
IsMessage(m) == DOMAIN m = {"id", "at", "scope"} /\ m.id \in Nat /\ m.at \in Nat
ASSUME RootAssumption ==
    \A root \in InitialRoots :
      /\ \A l, m \in root.leases :
           ~l.released /\ ~m.released /\ l # m => l.branch # m.branch /\ l.path # m.path
      /\ root.inbox \in Seq(ToSet(root.inbox))
      /\ \A m \in ToSet(root.inbox) : IsMessage(m) /\ m.id \notin Ids
      /\ \A m, n \in ToSet(root.inbox) : m.id = n.id => m = n

VARIABLES
    call,        \* call[c]: the operation, what it has read and how far it is
    cooldowns,   \* provider-cooldowns.json: provider -> the call that set it, or 0
    journal,     \* the ledger's records: cooldowns in order, per provider
    leases,      \* worktree-leases.json
    leaseIds,    \* ids of the ledger's worktree_lease records
    managed,     \* worktree-coord-root.json is there
    inbox,       \* coordination-inbox.json
    clock,       \* the host's clock
    used,        \* ids given to calls; a call's message, lease or cooldown has its id
    faults,      \* faults injected so far
    reader,      \* the lock-free reader: its cursor, the seconds of all it had,
                 \* and whether it was given a message nobody here sent
    delivered,   \* ids the reader was given
    acked,       \* calls that answered success, with what they answered
    overlaps     \* pairs of calls that were inside their callbacks together

storeVars == <<cooldowns, journal, leases, leaseIds, managed, inbox>>
ghostVars == <<delivered, acked, overlaps>>
vars == <<lockVars, storeVars, ghostVars, call, clock, used, faults, reader>>

NoCall == [kind |-> "none"]
Start == [at |-> 0, id |-> 0]

Init ==
    /\ LockInit
    /\ \E root \in InitialRoots : leases = root.leases /\ inbox = root.inbox
    /\ call = [c \in Callers |-> NoCall]
    /\ cooldowns = [p \in Providers |-> 0]
    /\ journal = [p \in Providers |-> <<>>]
    /\ leaseIds = {l.id : l \in leases}
    /\ managed = FALSE
    /\ clock = 1
    /\ used = {}
    /\ faults = 0
    /\ reader = [cursor |-> Start, seconds |-> {Start.at}, foreign |-> FALSE]
    /\ delivered = {}
    /\ acked = {}
    /\ overlaps = {}

-----------------------------------------------------------------------------
(* Calls *)

(* What a call carries besides its operation. *)
Fresh(op, id) ==
    [op |-> op, id |-> id, seen |-> {}, step |-> "read",
     now |-> IF op.kind = "send" THEN clock ELSE 0]
NextIds(op) == IF op.kind = "send" THEN Ids \ used
               ELSE {i \in Ids \ used : \A j \in Ids \ used : i <= j}

(* The marker is looked at before the wait for the lock, too. *)
Begin(c, op, id) ==
    /\ stage[c] = "idle"
    /\ op.kind = "lease" => ~managed
    /\ MoveTo(c, "waiting")
    /\ call' = [call EXCEPT ![c] = Fresh(op, id)]
    /\ used' = used \cup {id}
    /\ UNCHANGED <<lockFile, linked, reserved, activePaths, opened, removed,
                   storeVars, ghostVars, clock, faults, reader>>

Lock(c) ==
    /\ LockStep(c)
    /\ UNCHANGED <<storeVars, ghostVars, call, clock, used, faults, reader>>

Enter(c) ==
    /\ Reserve(c)
    /\ overlaps' = overlaps \cup {{call[c].id, call[d].id} :
                                  d \in {d \in Callers \ {c} : stage[d] = "inside"}}
    /\ UNCHANGED <<storeVars, delivered, acked, call, clock, used, faults, reader>>

(***************************************************************************)
(* The order of each callback's reads and writes.                          *)
(***************************************************************************)
\* As Steps, with the ledger always written before the map.
StepsLedgerFirst(kind) ==
    CASE kind \in {"cooldown", "lease"} -> <<"read", "ledger", "map", "done">>
      [] kind = "send"   -> <<"read", "inbox", "done">>
      [] kind = "manage" -> <<"read", "marker", "done">>

Steps(kind) ==
    CASE kind = "cooldown" -> <<"read", "map", "ledger", "done">>
      [] kind = "lease"    -> <<"read", "ledger", "map", "done">>
      [] kind = "send"     -> <<"read", "inbox", "done">>
      [] kind = "manage"   -> <<"read", "marker", "done">>

Follows(kind, step) ==
    LET s == Steps(kind) IN s[1 + CHOOSE i \in DOMAIN s : s[i] = step]

At(c, kind, step) ==
    stage[c] = "inside" /\ call[c].op.kind = kind /\ call[c].step = step
Goes(c) == call' = [call EXCEPT ![c].step = Follows(call[c].op.kind, @)]
Sees(c, what) ==
    call' = [call EXCEPT ![c].seen = what, ![c].step = Follows(call[c].op.kind, @)]
Only(others) == UNCHANGED <<lockVars, ghostVars, others, clock, used, faults, reader>>

(* A callback throws: finally runs, and nothing is answered. *)
Refuse(c) ==
    /\ Finally(c)
    /\ call' = [call EXCEPT ![c] = NoCall]
    /\ UNCHANGED <<ghostVars, clock, used, reader>>

-----------------------------------------------------------------------------
(* setProviderCooldown *)

ReadCooldowns(c) ==
    /\ At(c, "cooldown", "read")
    /\ Sees(c, cooldowns)
    /\ Only(storeVars)

WriteCooldowns(c) ==
    /\ At(c, "cooldown", "map")
    /\ cooldowns' = [call[c].seen EXCEPT ![call[c].op.provider] = call[c].id]
    /\ Goes(c)
    /\ Only(<<journal, leases, leaseIds, managed, inbox>>)

JournalCooldown(c) ==
    /\ At(c, "cooldown", "ledger")
    /\ journal' = [journal EXCEPT ![call[c].op.provider] = Append(@, call[c].id)]
    /\ Goes(c)
    /\ Only(<<cooldowns, leases, leaseIds, managed, inbox>>)

-----------------------------------------------------------------------------
(* acquireExclusiveLease *)

(* Only a release frees a branch or a path; the clock does not. *)
Conflicts(op, l) == l.branch = op.branch \/ l.path = op.path
Unreleased(map) == {l \in map : ~l.released}
Taken(op, map) == \E l \in Unreleased(map) : Conflicts(op, l)
LeaseOf(x) == [id |-> x.id, branch |-> x.op.branch, path |-> x.op.path, released |-> FALSE]

(* assertStandaloneRoot again, now under the lock, and the map. *)
\* The marker is read before the wait for the lock only.
StandaloneAssumed == TRUE
Standalone == ~managed

ReadLeases(c) ==
    /\ At(c, "lease", "read")
    /\ Standalone
    /\ Sees(c, leases)
    /\ Only(storeVars)

ManagedByNow(c) ==
    /\ At(c, "lease", "read")
    /\ ~Standalone
    /\ Refuse(c)
    /\ UNCHANGED <<storeVars, faults>>

(* Somebody owns the branch or the path: the call answers "not acquired". *)
AlreadyTaken(c) ==
    /\ At(c, "lease", "ledger")
    /\ Taken(call[c].op, call[c].seen)
    /\ IF SamePath(c) THEN acked' = acked \cup {[id |-> call[c].id, kind |-> "taken"]}
                      ELSE UNCHANGED acked
    /\ Finally(c)
    /\ call' = [call EXCEPT ![c] = NoCall]
    /\ UNCHANGED <<storeVars, delivered, overlaps, clock, used, faults, reader>>

JournalLease(c) ==
    /\ At(c, "lease", "ledger")
    /\ ~Taken(call[c].op, call[c].seen)
    /\ leaseIds' = leaseIds \cup {call[c].id}
    /\ Goes(c)
    /\ Only(<<cooldowns, journal, leases, managed, inbox>>)

WriteLeases(c) ==
    /\ At(c, "lease", "map")
    /\ leases' = Unreleased(call[c].seen) \cup {LeaseOf(call[c])}
    /\ Goes(c)
    /\ Only(<<cooldowns, journal, leaseIds, managed, inbox>>)

-----------------------------------------------------------------------------
(* LocalCoordinationChannel.send *)

(* The message is dated when the lock is held, not when the call arrived. *)
\* The clock is read before the wait.
SendTimeAtArrival(x) == x.now
SendTime(x) == clock

ReadInbox(c) ==
    /\ At(c, "send", "read")
    /\ call' = [call EXCEPT ![c].seen = inbox, ![c].now = SendTime(call[c]),
                            ![c].step = Follows("send", @)]
    /\ Only(storeVars)

MessageOf(x) == [id |-> x.id, at |-> x.now, scope |-> x.op.scope]

WriteInbox(c) ==
    /\ At(c, "send", "inbox")
    /\ inbox' = Sent(call[c].seen, MessageOf(call[c]), call[c].now)
    /\ IF Full(call[c].seen, call[c].now)
       THEN Refuse(c) /\ UNCHANGED <<cooldowns, journal, leases, leaseIds, managed, faults>>
       ELSE Goes(c) /\ Only(<<cooldowns, journal, leases, leaseIds, managed>>)

-----------------------------------------------------------------------------
(* The first mutation of a WorktreeLeaseManager claims the root for COORD   *)
(* (lease-manager.ts, ensureManagedStore); its later ones are modelled in   *)
(* WorktreeLeaseManager.                                                    *)

ReadManaged(c) ==
    /\ At(c, "manage", "read")
    /\ IF leases = {} THEN Sees(c, {}) /\ Only(storeVars)
                      ELSE Refuse(c) /\ UNCHANGED <<storeVars, faults>>

WriteMarker(c) ==
    /\ At(c, "manage", "marker")
    /\ managed' = TRUE
    /\ Goes(c)
    /\ Only(<<cooldowns, journal, leases, leaseIds, inbox>>)

-----------------------------------------------------------------------------
(* The end of a call, faults and the environment *)

Answer(x) ==
    CASE x.op.kind = "cooldown" -> [id |-> x.id, kind |-> "cooldown", provider |-> x.op.provider]
      [] x.op.kind = "lease"    -> [id |-> x.id, kind |-> "lease", lease |-> LeaseOf(x)]
      [] x.op.kind = "send"     -> [id |-> x.id, kind |-> "send", message |-> MessageOf(x)]
      [] x.op.kind = "manage"   -> [id |-> x.id, kind |-> "manage"]

(* The callback is done: an answer, or an error if the path was replaced. *)
Return(c) ==
    /\ stage[c] = "inside"
    /\ call[c].step = "done"
    /\ IF SamePath(c) THEN acked' = acked \cup {Answer(call[c])} ELSE UNCHANGED acked
    /\ Finally(c)
    /\ call' = [call EXCEPT ![c] = NoCall]
    /\ UNCHANGED <<storeVars, delivered, overlaps, clock, used, faults, reader>>

Throw(c) ==
    /\ Throws(c) \/ GivesUp(c)
    /\ call' = [call EXCEPT ![c] = NoCall]
    /\ UNCHANGED <<storeVars, ghostVars, clock, used, faults, reader>>

Fault == faults < MaxFaults /\ faults' = faults + 1

(* appendRecord of the ledger throws: its capacity, its own lock, a full disk. *)
LedgerFails(c) ==
    /\ Fault
    /\ stage[c] = "inside"
    /\ call[c].step = "ledger"
    /\ Refuse(c)
    /\ UNCHANGED storeVars

Die(p) ==
    /\ Fault
    /\ \E s \in Slots : stage[<<p, s>>] # "idle"
    /\ LockDies(p)
    /\ call' = [c \in Callers |-> IF c[1] = p THEN NoCall ELSE call[c]]
    /\ UNCHANGED <<storeVars, ghostVars, clock, used, reader>>

Removed ==
    /\ Fault
    /\ RemoveLock
    /\ UNCHANGED <<storeVars, ghostVars, call, clock, used, reader>>

Tick ==
    /\ clock < MaxTime
    /\ clock' = clock + 1
    /\ UNCHANGED <<lockVars, storeVars, ghostVars, call, used, faults, reader>>

(***************************************************************************)
(* A consumer asks for the page after the last message it was given.       *)
(***************************************************************************)
List ==
    LET page == Page(inbox, ReaderScope, reader.cursor, clock)
        last == LatestOf(page)
    IN
    /\ page # {}
    /\ delivered' = delivered \cup {m.id : m \in page}
    /\ reader' = [cursor  |-> [at |-> last.at, id |-> last.id],
                  seconds |-> reader.seconds \cup {last.at},
                  foreign |-> reader.foreign \/ \E m \in page : m.id \notin Ids]
    /\ UNCHANGED <<lockVars, storeVars, call, clock, used, faults, acked, overlaps>>

Next ==
    \/ \E c \in Callers, op \in Ops : \E id \in NextIds(op) : Begin(c, op, id)
    \/ \E c \in Callers :
          \/ Lock(c) \/ Enter(c) \/ Return(c) \/ Throw(c) \/ LedgerFails(c)
          \/ ReadCooldowns(c) \/ WriteCooldowns(c) \/ JournalCooldown(c)
          \/ ReadLeases(c) \/ ManagedByNow(c) \/ AlreadyTaken(c) \/ JournalLease(c) \/ WriteLeases(c)
          \/ ReadInbox(c) \/ WriteInbox(c)
          \/ ReadManaged(c) \/ WriteMarker(c)
    \/ \E p \in Procs : Die(p)
    \/ Removed \/ Tick \/ List

Spec == Init /\ [][Next]_vars

-----------------------------------------------------------------------------
(* Properties *)

Acked(kind) == {a \in acked : a.kind = kind}

(***************************************************************************)
(* Of two calls whose callbacks ran at the same time at most one answers   *)
(* success (filesystem-lock.ts, checkPath): it takes a lock file that was  *)
(* removed meanwhile, and the call on the old file throws.                 *)
(***************************************************************************)
OneAnswers == \A pair \in overlaps : ~(pair \subseteq {a.id : a \in acked})

(***************************************************************************)
(* While the lock file stays, cooldown map and ledger part in one way      *)
(* only: the map is ahead by calls that were interrupted between the two.  *)
(* The ledger never tells of a cooldown the map has not had, and keeps     *)
(* every acknowledged one (coordination.ts, setProviderCooldown).          *)
(***************************************************************************)
CooldownsJournaled ==
    ~removed =>
      /\ \A p \in Providers :
           /\ cooldowns[p] = 0 => journal[p] = <<>>
           /\ cooldowns[p] \in ToSet(journal[p]) => cooldowns[p] = Last(journal[p])
      /\ \A a \in Acked("cooldown") : a.id \in ToSet(journal[a.provider])

(***************************************************************************)
(* While the lock file stays, the lease map never holds two owners of a    *)
(* branch or a path, keeps every lease it acknowledged, holds none the     *)
(* ledger lacks, and is empty on a root that COORD has claimed             *)
(* (coordination.ts, acquireExclusiveLease; lease-manager.ts,              *)
(* ensureManagedStore).                                                    *)
(***************************************************************************)
LeasesStand ==
    ~removed =>
      /\ \A l, m \in Unreleased(leases) : l # m => l.branch # m.branch /\ l.path # m.path
      /\ \A a \in Acked("lease") : a.lease \in leases
      /\ \A l \in leases : l.id \in leaseIds
      /\ managed => leases = {}

(***************************************************************************)
(* While the lock file stays, a message whose sending was acknowledged is  *)
(* in the message file until it expires, whoever else sends, at capacity   *)
(* too (coordination-channel.ts, send).                                    *)
(***************************************************************************)
InboxKept ==
    ~removed => \A a \in Acked("send") :
        Unexpired(a.message, clock) => a.message \in ToSet(inbox)

(***************************************************************************)
(* A consumer that pages by cursor misses a message only if it is of the   *)
(* very second of a cursor it had: a send that waited for the lock is not  *)
(* dated before one.  Said of a consumer that was given no legacy message, *)
(* whose time a send may still correct (coordination-channel.ts, send and  *)
(* list).                                                                  *)
(***************************************************************************)
PagesMissOnlyTies ==
    ~removed /\ ~reader.foreign =>
      \A m \in ToSet(inbox) :
        (/\ Unexpired(m, clock)
         /\ ScopeMatches(m, ReaderScope)
         /\ ~Before(reader.cursor, m)
         /\ m.id \notin delivered)
          => m.at \in reader.seconds
=============================================================================
