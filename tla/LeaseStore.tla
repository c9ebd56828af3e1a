----------------------------- MODULE LeaseStore -----------------------------
(***************************************************************************)
(* LocalLeaseStore (packages/worktree-leasing/src/lease-store.ts): the      *)
(* file-backed fleet lease store.  Several processes share one state file   *)
(* (the leases and their event history, replaced atomically) and one        *)
(* filesystem lock.  An operation is three steps: the call, which reads a   *)
(* clock that only expire uses; entry into the lock, which reads the clock  *)
(* for the others and reads the file; and the commit, which                 *)
(* expires, decides, writes the file, leaves the lock and answers.  A       *)
(* process may die at any of these points: the operating system frees the   *)
(* lock, and whatever the process believed it held is gone with it.         *)
(*                                                                         *)
(* A unit of time is the second: toContractTimestamp cuts every clock value *)
(* down to whole seconds before the store compares or keeps it.             *)
(***************************************************************************)
EXTENDS Integers, Sequences, FiniteSets, SequencesExt, Subsequence

CONSTANTS
  Procs,      \* processes; a process uses its own name as the lease holder
  LeaseIds,   \* lease identifiers callers may pick
  Requests,   \* what an acquire may ask for: [mode, scope, ttl]
  Ttls,       \* lifetimes a renewal may ask for
  MaxTime,    \* bound on the clock
  MaxCalls,   \* bound on the number of calls
  LeaseCap,   \* live leases the file may hold (10000 in the code)
  EventCap,   \* events the file may hold (10000 in the code)
  Rewinds,    \* whether the wall clock may be set back
  NoLease, NoProc, NoCall

ASSUME BoundsAssumption ==
  /\ MaxTime \in Nat /\ MaxCalls \in Nat
  /\ LeaseCap \in Nat /\ EventCap \in Nat
  /\ \A t \in Ttls : t \in Nat

ASSUME ClockAssumption == Rewinds \in BOOLEAN

ASSUME RequestAssumption ==
  \A r \in Requests :
    /\ r.mode \in {"soft", "hard"}
    /\ r.ttl \in Ttls
    /\ r.scope.granularity \in {"repo", "path-set", "symbol"}

ASSUME NoProcAssumption == NoProc \notin Procs

Times == 0..MaxTime

Lease == [lease_id: LeaseIds, holder: Procs, acquired_at: Times,
          ttl: Ttls, heartbeat_at: Times,
          mode: {"soft", "hard"}, scope: {r.scope : r \in Requests}]

ASSUME NoLeaseAssumption == NoLease \notin Lease

Call == [op: {"acquire"}, id: LeaseIds, req: Requests]
          \cup [op: {"renew"}, id: LeaseIds, ttl: Ttls]
          \cup [op: {"release"}, id: LeaseIds]
          \cup [op: {"expire"}]

VARIABLES
  clock,    \* the host's wall clock
  lock,     \* the process inside coordination.lock, or NoProc
  leases,   \* the file: lease per id, or NoLease
  events,   \* the file: event history, oldest first
  phase,    \* what each process is doing
  call,     \* its current call
  now,      \* the clock value its current call uses
  snap,     \* the file as it read it inside the lock
  belief,   \* the leases each process was told it holds
  calls     \* calls made so far

vars == <<clock, lock, leases, events, phase, call, now, snap, belief, calls>>

NoLeases == [i \in LeaseIds |-> NoLease]
NoSnap   == [leases |-> NoLeases, events |-> <<>>]

-----------------------------------------------------------------------------
(* Scopes.  A selector is a set of paths, a path the sequence of its        *)
(* segments: what is left once trailing slashes are dropped.                *)

\* pathOverlaps: equal, or one is a directory above the other.
PathOverlaps(left, right) == IsPrefix(left, right) \/ IsPrefix(right, left)

\* leaseScopesOverlap
LeaseScopesOverlap(left, right) ==
  \/ left.granularity = "repo"
  \/ right.granularity = "repo"
  \/ /\ left.granularity = "symbol"
     /\ right.granularity = "symbol"
     /\ left.selector \cap right.selector # {}
  \/ /\ left.granularity = "path-set"
     /\ right.granularity = "path-set"
     /\ \E l \in left.selector, r \in right.selector : PathOverlaps(l, r)

-----------------------------------------------------------------------------
(* Expiry and the event history *)

\* isLeaseExpired, expiresAtForLease
ExpiresAt(l) == l.heartbeat_at + l.ttl
IsLeaseExpired(l, t) == t >= ExpiresAt(l)

Live(ls) == {i \in LeaseIds : ls[i] # NoLease}

\* As ExpiredIds, one tick early.
ExpiredIdsTooSoon(ls, t) == {i \in Live(ls) : IsLeaseExpired(ls[i], t + 1)}

ExpiredIds(ls, t) == {i \in Live(ls) : IsLeaseExpired(ls[i], t)}

Event(type, l, t) ==
  [type |-> type, leaseId |-> l.lease_id, holder |-> l.holder,
   lease |-> l, recordedAt |-> t]

\* expireState: what it leaves in the projection, and the events it adds.
AfterExpire(ls, t) ==
  [i \in LeaseIds |-> IF i \in ExpiredIds(ls, t) THEN NoLease ELSE ls[i]]
ExpireEvents(ls, t) ==
  LET ids == SetToSeq(ExpiredIds(ls, t))
  IN  [k \in DOMAIN ids |-> Event("expire", ls[ids[k]], t)]

\* The events writeState may not drop: of each live lease the latest event
\* and the latest acquisition of this very tenure.
EventsOf(ev, l) == {k \in DOMAIN ev : ev[k].leaseId = l.lease_id}
AcquisitionsOf(ev, l) ==
  {k \in EventsOf(ev, l) : /\ ev[k].type = "acquire"
                           /\ ev[k].lease.acquired_at = l.acquired_at
                           /\ ev[k].holder = l.holder}
Latest(ks) == {k \in ks : \A j \in ks : j <= k}

\* As ProtectedIndices, without the acquisitions.
LatestIndices(ls, ev) ==
  UNION {Latest(EventsOf(ev, ls[i])) : i \in Live(ls)}

ProtectedIndices(ls, ev) ==
  UNION {Latest(EventsOf(ev, ls[i])) \cup Latest(AcquisitionsOf(ev, ls[i]))
            : i \in Live(ls)}

\* As Fits, counting the events that trimming would drop.
FitsUntrimmed(ls, ev) ==
  /\ Cardinality(Live(ls)) <= LeaseCap
  /\ Len(ev) <= EventCap

\* The capacity checks of writeState.
Fits(ls, ev) ==
  /\ Cardinality(Live(ls)) <= LeaseCap
  /\ Cardinality(ProtectedIndices(ls, ev)) <= EventCap

\* The trimming of writeState: oldest unprotected events go first, as many
\* as the history is over its cap.
Trim(ls, ev) ==
  LET free    == DOMAIN ev \ ProtectedIndices(ls, ev)
      dropped == {k \in free : Rank(free, k) < Len(ev) - EventCap}
  IN  Subsequence(ev, DOMAIN ev \ dropped)

-----------------------------------------------------------------------------
(* The lock and the file *)

Init ==
  /\ clock  = 0
  /\ lock   = NoProc
  /\ leases = NoLeases
  /\ events = <<>>
  /\ phase  = [p \in Procs |-> "idle"]
  /\ call   = [p \in Procs |-> NoCall]
  /\ now    = [p \in Procs |-> 0]
  /\ snap   = [p \in Procs |-> NoSnap]
  /\ belief = [p \in Procs |-> NoLeases]
  /\ calls  = 0

\* A call is made.  A holder that releases has stopped relying on the lease.
Begin(p, c) ==
  /\ phase[p] = "idle"
  /\ calls < MaxCalls
  /\ calls' = calls + 1
  /\ phase' = [phase EXCEPT ![p] = "waiting"]
  /\ call'  = [call EXCEPT ![p] = c]
  /\ now'   = [now EXCEPT ![p] = clock]
  /\ belief' = IF c.op = "release"
               THEN [belief EXCEPT ![p][c.id] = NoLease]
               ELSE belief
  /\ UNCHANGED <<clock, lock, leases, events, snap>>

\* As Enter, with the clock value the caller brought.
EnterWithStaleClock(p) ==
  /\ phase[p] = "waiting"
  /\ lock = NoProc
  /\ lock'  = p
  /\ phase' = [phase EXCEPT ![p] = "locked"]
  /\ snap'  = [snap EXCEPT ![p] = [leases |-> leases, events |-> events]]
  /\ UNCHANGED <<clock, leases, events, call, belief, calls, now>>

\* The lock is obtained, the clock is read again, except by expire, then the
\* file is read.
Enter(p) ==
  /\ phase[p] = "waiting"
  /\ lock = NoProc
  /\ lock'  = p
  /\ phase' = [phase EXCEPT ![p] = "locked"]
  /\ now'   = [now EXCEPT ![p] = IF call[p].op = "expire" THEN @ ELSE clock]
  /\ snap'  = [snap EXCEPT ![p] = [leases |-> leases, events |-> events]]
  /\ UNCHANGED <<clock, leases, events, call, belief, calls>>

\* The wait for the lock gives up: the call fails without effect.
LockTimeout(p) ==
  /\ phase[p] = "waiting"
  /\ lock # NoProc
  /\ phase' = [phase EXCEPT ![p] = "idle"]
  /\ call'  = [call EXCEPT ![p] = NoCall]
  /\ now'   = [now EXCEPT ![p] = 0]
  /\ UNCHANGED <<clock, lock, leases, events, snap, belief, calls>>

\* The process is back to idle and out of the lock.
Leave(p) ==
  /\ lock'  = NoProc
  /\ phase' = [phase EXCEPT ![p] = "idle"]
  /\ call'  = [call EXCEPT ![p] = NoCall]
  /\ now'   = [now EXCEPT ![p] = 0]
  /\ snap'  = [snap EXCEPT ![p] = NoSnap]
  /\ UNCHANGED <<clock, calls>>

\* writeState and the answer: over capacity nothing is written and the
\* call throws, otherwise the file is replaced and told is what the caller
\* knows to hold afterwards.
Commit(p, ls, ev, told) ==
  /\ IF Fits(ls, ev)
     THEN /\ leases' = ls
          /\ events' = Trim(ls, ev)
          /\ belief' = [belief EXCEPT ![p] = told]
     ELSE UNCHANGED <<leases, events, belief>>
  /\ Leave(p)

\* The state after expireState inside the lock.
LiveLeases(p) == AfterExpire(snap[p].leases, now[p])
LiveEvents(p) == snap[p].events \o ExpireEvents(snap[p].leases, now[p])

Calling(p, op) == phase[p] = "locked" /\ call[p].op = op

-----------------------------------------------------------------------------
(* acquire *)

NewLease(p) ==
  [lease_id |-> call[p].id, holder |-> p, acquired_at |-> now[p],
   ttl |-> call[p].req.ttl, heartbeat_at |-> now[p],
   mode |-> call[p].req.mode, scope |-> call[p].req.scope]

\* As HardConflict, with overlap taken for equality.
HardConflictOnEqualScope(ls, l) ==
  \E i \in Live(ls) : /\ ls[i].mode = "hard"
                      /\ l.mode = "hard"
                      /\ ls[i].scope = l.scope

HardConflict(ls, l) ==
  \E i \in Live(ls) : /\ ls[i].mode = "hard"
                      /\ l.mode = "hard"
                      /\ LeaseScopesOverlap(ls[i].scope, l.scope)

AcquireGranted(p) ==
  LET l == NewLease(p)
  IN  /\ Calling(p, "acquire")
      /\ LiveLeases(p)[l.lease_id] = NoLease
      /\ ~HardConflict(LiveLeases(p), l)
      /\ Commit(p, [LiveLeases(p) EXCEPT ![l.lease_id] = l],
                Append(LiveEvents(p), Event("acquire", l, now[p])),
                [belief[p] EXCEPT ![l.lease_id] = l])

AcquireConflict(p) ==
  LET l == NewLease(p)
  IN  /\ Calling(p, "acquire")
      /\ \/ LiveLeases(p)[l.lease_id] # NoLease
         \/ HardConflict(LiveLeases(p), l)
      /\ Commit(p, LiveLeases(p), LiveEvents(p), belief[p])

-----------------------------------------------------------------------------
(* renew *)

\* As Renewed, adding to the lifetime instead of replacing it.
RenewedAccumulating(p) ==
  [LiveLeases(p)[call[p].id] EXCEPT !.ttl = @ + call[p].ttl,
                                    !.heartbeat_at = now[p]]

Renewed(p) ==
  [LiveLeases(p)[call[p].id] EXCEPT !.ttl = call[p].ttl,
                                    !.heartbeat_at = now[p]]

RenewGranted(p) ==
  /\ Calling(p, "renew")
  /\ LiveLeases(p)[call[p].id] # NoLease
  /\ LiveLeases(p)[call[p].id].holder = p
  /\ Commit(p, [LiveLeases(p) EXCEPT ![call[p].id] = Renewed(p)],
            Append(LiveEvents(p), Event("renew", Renewed(p), now[p])),
            [belief[p] EXCEPT ![call[p].id] = Renewed(p)])

RenewNotFound(p) ==
  /\ Calling(p, "renew")
  /\ LiveLeases(p)[call[p].id] = NoLease
  /\ Commit(p, LiveLeases(p), LiveEvents(p),
            [belief[p] EXCEPT ![call[p].id] = NoLease])

\* renew and release: the answer to someone else's lease leaves the file as
\* it is, the expirations found on the way included.
NotHolder(p) ==
  /\ Calling(p, "renew") \/ Calling(p, "release")
  /\ LiveLeases(p)[call[p].id] # NoLease
  /\ LiveLeases(p)[call[p].id].holder # p
  /\ belief' = [belief EXCEPT ![p][call[p].id] = NoLease]
  /\ Leave(p)
  /\ UNCHANGED <<leases, events>>

-----------------------------------------------------------------------------
(* release and expire *)

\* As ReleaseGranted, for any caller.
ReleaseGrantedToAnyone(p) ==
  LET l == LiveLeases(p)[call[p].id]
  IN  /\ Calling(p, "release")
      /\ l # NoLease
      /\ Commit(p, [LiveLeases(p) EXCEPT ![call[p].id] = NoLease],
                Append(LiveEvents(p), Event("release", l, now[p])),
                belief[p])

ReleaseGranted(p) ==
  LET l == LiveLeases(p)[call[p].id]
  IN  /\ Calling(p, "release")
      /\ l # NoLease
      /\ l.holder = p
      /\ Commit(p, [LiveLeases(p) EXCEPT ![call[p].id] = NoLease],
                Append(LiveEvents(p), Event("release", l, now[p])),
                belief[p])

ReleaseNotFound(p) ==
  /\ Calling(p, "release")
  /\ LiveLeases(p)[call[p].id] = NoLease
  /\ Commit(p, LiveLeases(p), LiveEvents(p), belief[p])

Expire(p) ==
  /\ Calling(p, "expire")
  /\ Commit(p, LiveLeases(p), LiveEvents(p), belief[p])

-----------------------------------------------------------------------------
(* The environment *)

\* The process dies: the lock is freed if it had it, nothing is written.
Crash(p) ==
  /\ phase[p] # "idle" \/ belief[p] # NoLeases
  /\ lock'   = IF lock = p THEN NoProc ELSE lock
  /\ phase'  = [phase EXCEPT ![p] = "idle"]
  /\ call'   = [call EXCEPT ![p] = NoCall]
  /\ now'    = [now EXCEPT ![p] = 0]
  /\ snap'   = [snap EXCEPT ![p] = NoSnap]
  /\ belief' = [belief EXCEPT ![p] = NoLeases]
  /\ UNCHANGED <<clock, leases, events, calls>>

Tick(t) ==
  /\ t > clock \/ Rewinds
  /\ clock' = t
  /\ UNCHANGED <<lock, leases, events, phase, call, now, snap, belief, calls>>

Next ==
  \/ \E p \in Procs :
       \/ \E c \in Call : Begin(p, c)
       \/ Enter(p) \/ LockTimeout(p)
       \/ AcquireGranted(p) \/ AcquireConflict(p)
       \/ RenewGranted(p) \/ RenewNotFound(p) \/ NotHolder(p)
       \/ ReleaseGranted(p) \/ ReleaseNotFound(p) \/ Expire(p)
       \/ Crash(p)
  \/ \E t \in Times : Tick(t)

Spec == Init /\ [][Next]_vars

-----------------------------------------------------------------------------
(* Properties *)

\* Type invariant of the file, the lock and the calls in progress.
TypeOK ==
  /\ clock \in Times
  /\ lock \in Procs \cup {NoProc}
  /\ leases \in [LeaseIds -> Lease \cup {NoLease}]
  /\ phase \in [Procs -> {"idle", "waiting", "locked"}]
  /\ call \in [Procs -> Call \cup {NoCall}]
  /\ now \in [Procs -> Times]
  /\ belief \in [Procs -> [LeaseIds -> Lease \cup {NoLease}]]
  /\ DOMAIN snap = Procs
  /\ \A p \in Procs : snap[p].leases \in [LeaseIds -> Lease \cup {NoLease}]
  /\ \A p \in Procs : phase[p] # "idle" => call[p] \in Call
  /\ \A i \in Live(leases) : leases[i].lease_id = i

\* Two leases are rivals when both are hard and their scopes overlap.
Rivals(l, m) ==
  l.mode = "hard" /\ m.mode = "hard" /\ LeaseScopesOverlap(l.scope, m.scope)

\* No interleaving of acquire, renew, release, expire and process death puts
\* two overlapping hard leases in the file, expired ones included
\* (LocalLeaseStore.acquire's conflict search under coordination.lock).
HardExclusion ==
  \A i, j \in Live(leases) : i # j => ~Rivals(leases[i], leases[j])

\* The exclusion that callers rely on: two processes are never both inside
\* the lifetime of overlapping hard leases they were granted.  It needs the
\* clock of the locked section, the holder checks and the expiry boundary to
\* agree with the file all along, and a clock that is never set back.
HoldersExclude ==
  \A p, q \in Procs : \A i, j \in LeaseIds :
    /\ p # q
    /\ belief[p][i] # NoLease /\ ~IsLeaseExpired(belief[p][i], clock)
    /\ belief[q][j] # NoLease /\ ~IsLeaseExpired(belief[q][j], clock)
    => ~Rivals(belief[p][i], belief[q][j])

\* Trimming keeps the proof of every live lease (writeState's protected
\* indices): its acquisition is in the history and its latest event carries
\* the lease exactly as the projection has it; and the history stays under
\* its cap whatever it had to keep.
HistoryProvesLeases ==
  /\ Len(events) <= EventCap
  /\ \A i \in Live(leases) :
       /\ AcquisitionsOf(events, leases[i]) # {}
       /\ \E k \in Latest(EventsOf(events, leases[i])) :
            events[k].lease = leases[i]

\* A full history or a full projection never keeps a holder from giving a
\* lease back: the release of any live lease passes writeState's checks.
ReleaseAlwaysFits ==
  \A i \in Live(leases) :
    Fits([leases EXCEPT ![i] = NoLease],
         Append(events, Event("release", leases[i], clock)))

\* The history is in the order of its timestamps, although callers read a
\* clock before they wait for the lock (acquire re-reads it inside).
HistoryInTimeOrder ==
  \A k, m \in DOMAIN events :
    k < m => events[k].recordedAt <= events[m].recordedAt

-----------------------------------------------------------------------------
(* What the file promises, as the atomic service of module LeaseService. *)

Service == INSTANCE LeaseService

\* The store implements the lease service: every write of the file is one
\* grant, renewal, release or expiry of that service.
ImplementsService == Service!Spec

=============================================================================
