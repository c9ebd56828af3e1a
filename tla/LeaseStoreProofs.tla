-------------------------- MODULE LeaseStoreProofs --------------------------
(***************************************************************************)
(* Proofs about LeaseStore for any number of processes, leases and scopes.  *)
(* The invariant is inductive together with two facts: what a process read  *)
(* inside the lock is still what the file holds, and a lease its holder may *)
(* still rely on is in the file exactly as the holder knows it.             *)
(***************************************************************************)
EXTENDS LeaseStore, TLAPS

\* A process between Enter and its commit is alone in the lock, so what it
\* read is what the file holds.
SnapshotCurrent ==
  \A p \in Procs : phase[p] = "locked" => /\ lock = p
                                          /\ snap[p].leases = leases

StoreInv == TypeOK /\ SnapshotCurrent /\ HardExclusion

\* A lease a process may still rely on is in the file as it knows it.
BeliefBacked ==
  \A p \in Procs : \A i \in LeaseIds :
    belief[p][i] # NoLease =>
      /\ belief[p][i].holder = p
      /\ ~IsLeaseExpired(belief[p][i], clock) => leases[i] = belief[p][i]

\* A process that asked for a release no longer relies on the lease.
ReleasingGaveUp ==
  \A p \in Procs : phase[p] # "idle" /\ call[p].op = "release"
                     => belief[p][call[p].id] = NoLease

ClockAhead == \A p \in Procs : now[p] <= clock

BeliefInv == StoreInv /\ BeliefBacked /\ ReleasingGaveUp /\ ClockAhead

-----------------------------------------------------------------------------
(* Lemmas on the operators *)

\* Overlap does not depend on the order in which acquire compares scopes.
LEMMA OverlapSymmetric ==
  \A s, t : LeaseScopesOverlap(s, t) <=> LeaseScopesOverlap(t, s)
BY DEF LeaseScopesOverlap, PathOverlaps

LEMMA RivalsSymmetric == \A l, m : Rivals(l, m) <=> Rivals(m, l)
BY OverlapSymmetric DEF Rivals

\* expireState only removes, and only what is over.
LEMMA AfterExpireShape ==
  ASSUME NEW ls \in [LeaseIds -> Lease \cup {NoLease}], NEW t
  PROVE  /\ AfterExpire(ls, t) \in [LeaseIds -> Lease \cup {NoLease}]
         /\ \A i \in LeaseIds :
              \/ AfterExpire(ls, t)[i] = ls[i]
              \/ /\ AfterExpire(ls, t)[i] = NoLease
                 /\ ls[i] # NoLease
                 /\ IsLeaseExpired(ls[i], t)
         /\ \A i \in LeaseIds : AfterExpire(ls, t)[i] # NoLease
              => /\ AfterExpire(ls, t)[i] = ls[i]
                 /\ ~IsLeaseExpired(ls[i], t)
BY DEF AfterExpire, ExpiredIds, Live

\* What each call carries.
LEMMA CallFields ==
  ASSUME NEW c \in Call
  PROVE  /\ c.op = "acquire" => c.id \in LeaseIds /\ c.req \in Requests
         /\ c.op = "renew"   => c.id \in LeaseIds /\ c.ttl \in Ttls
         /\ c.op = "release" => c.id \in LeaseIds
BY DEF Call

-----------------------------------------------------------------------------
(* A commit, whichever operation it ends *)

\* The leases a committing process may put in the file.
Proposal(p, ls) ==
  /\ ls \in [LeaseIds -> Lease \cup {NoLease}]
  /\ \A i \in Live(ls) : ls[i].lease_id = i
  /\ \A i, j \in Live(ls) : i # j => ~Rivals(ls[i], ls[j])

LEMMA LiveLeasesShape ==
  ASSUME StoreInv, NEW p \in Procs, phase[p] = "locked"
  PROVE  /\ LiveLeases(p) \in [LeaseIds -> Lease \cup {NoLease}]
         /\ \A i \in LeaseIds : LiveLeases(p)[i] # NoLease
              => /\ LiveLeases(p)[i] = leases[i]
                 /\ ~IsLeaseExpired(leases[i], now[p])
         /\ \A i \in LeaseIds : LiveLeases(p)[i] # leases[i]
              => /\ LiveLeases(p)[i] = NoLease
                 /\ leases[i] # NoLease
                 /\ IsLeaseExpired(leases[i], now[p])
         /\ Proposal(p, LiveLeases(p))
<1>1. snap[p].leases = leases /\ leases \in [LeaseIds -> Lease \cup {NoLease}]
  BY DEF StoreInv, SnapshotCurrent, TypeOK
<1>2. LiveLeases(p) = AfterExpire(leases, now[p])
  BY <1>1 DEF LiveLeases
<1>3. /\ LiveLeases(p) \in [LeaseIds -> Lease \cup {NoLease}]
      /\ \A i \in LeaseIds : LiveLeases(p)[i] # NoLease
           => /\ LiveLeases(p)[i] = leases[i]
              /\ ~IsLeaseExpired(leases[i], now[p])
      /\ \A i \in LeaseIds : LiveLeases(p)[i] # leases[i]
           => /\ LiveLeases(p)[i] = NoLease
              /\ leases[i] # NoLease
              /\ IsLeaseExpired(leases[i], now[p])
  BY <1>1, <1>2, AfterExpireShape
<1>4. Proposal(p, LiveLeases(p))
  BY <1>3 DEF Proposal, StoreInv, TypeOK, HardExclusion, Live
<1>5. QED
  BY <1>3, <1>4

\* Committing a proposal keeps the store invariant, over capacity or not.
LEMMA CommitKeepsStoreInv ==
  ASSUME StoreInv, NEW p \in Procs, phase[p] = "locked",
         NEW ls, NEW ev, NEW told,
         Proposal(p, ls), told \in [LeaseIds -> Lease \cup {NoLease}],
         Commit(p, ls, ev, told)
  PROVE  StoreInv'
<1>1. lock = p /\ snap[p].leases = leases
  BY DEF StoreInv, SnapshotCurrent
<1>2. \A q \in Procs : phase'[q] = "locked" => FALSE
  <2> SUFFICES ASSUME NEW q \in Procs, phase'[q] = "locked" PROVE FALSE
    OBVIOUS
  <2>1. phase' = [phase EXCEPT ![p] = "idle"] /\ phase \in [Procs -> {"idle", "waiting", "locked"}]
    BY DEF Commit, Leave, StoreInv, TypeOK
  <2>2. q # p /\ phase[q] = "locked"
    BY <2>1
  <2>3. QED
    BY <1>1, <2>2 DEF StoreInv, SnapshotCurrent
<1>3. /\ leases' = leases \/ leases' = ls
      /\ belief' = belief \/ belief' = [belief EXCEPT ![p] = told]
  BY DEF Commit
<1>4. Proposal(p, leases')
  BY <1>3 DEF Proposal, StoreInv, TypeOK, HardExclusion
<1>5. belief' \in [Procs -> [LeaseIds -> Lease \cup {NoLease}]]
  BY <1>3 DEF StoreInv, TypeOK
<1>6. /\ DOMAIN snap' = Procs
      /\ \A q \in Procs : snap'[q].leases \in [LeaseIds -> Lease \cup {NoLease}]
  <2>1. snap' = [snap EXCEPT ![p] = NoSnap]
    BY DEF Commit, Leave
  <2>2. NoSnap.leases \in [LeaseIds -> Lease \cup {NoLease}]
    BY DEF NoSnap, NoLeases
  <2>3. /\ DOMAIN snap' = Procs
        /\ \A q \in Procs : snap'[q] = NoSnap \/ snap'[q] = snap[q]
    BY <2>1 DEF StoreInv, TypeOK
  <2>4. QED
    BY <2>2, <2>3 DEF StoreInv, TypeOK
<1>7. TypeOK'
  <2>1. /\ clock' \in Times
        /\ lock' \in Procs \cup {NoProc}
        /\ phase' \in [Procs -> {"idle", "waiting", "locked"}]
        /\ call' \in [Procs -> Call \cup {NoCall}]
        /\ now' \in [Procs -> Times]
        /\ \A q \in Procs : phase'[q] # "idle" => call'[q] \in Call
    BY BoundsAssumption DEF Commit, Leave, StoreInv, TypeOK, Times
  <2>2. QED
    BY <1>4, <1>5, <1>6, <2>1 DEF TypeOK, Proposal, Live
<1>8. QED
  BY <1>2, <1>4, <1>7 DEF StoreInv, SnapshotCurrent, HardExclusion, Proposal, Live

\* Adding a lease that conflicts with none of the live ones is a proposal.
LEMMA GrantIsProposal ==
  ASSUME StoreInv, NEW p \in Procs, phase[p] = "locked",
         NEW l \in Lease, ~HardConflict(LiveLeases(p), l)
  PROVE  Proposal(p, [LiveLeases(p) EXCEPT ![l.lease_id] = l])
<1> DEFINE ls == LiveLeases(p)
           new == [ls EXCEPT ![l.lease_id] = l]
<1>1. Proposal(p, ls)
  BY LiveLeasesShape
<1>2. l.lease_id \in LeaseIds /\ l # NoLease
  BY NoLeaseAssumption DEF Lease
<1>3. \A i \in Live(ls) : ~Rivals(ls[i], l) /\ ~Rivals(l, ls[i])
  BY RivalsSymmetric DEF HardConflict, Rivals
<1>4. \A i \in LeaseIds : new[i] = IF i = l.lease_id THEN l ELSE ls[i]
  BY <1>1, <1>2 DEF Proposal
<1>5. \A i \in Live(new) : i = l.lease_id \/ i \in Live(ls)
  BY <1>4 DEF Live
<1>6. new \in [LeaseIds -> Lease \cup {NoLease}]
  BY <1>1 DEF Proposal
<1>7. \A i \in Live(new) : new[i].lease_id = i
  BY <1>1, <1>4, <1>5 DEF Proposal, Live
<1>8. \A i, j \in Live(new) : i # j => ~Rivals(new[i], new[j])
  BY <1>1, <1>3, <1>4, <1>5 DEF Proposal, Live
<1>9. QED
  BY <1>6, <1>7, <1>8 DEF Proposal

\* So is the same lease with a new lifetime, and the leases without one.
LEMMA RenewIsProposal ==
  ASSUME StoreInv, NEW p \in Procs, Calling(p, "renew"),
         LiveLeases(p)[call[p].id] # NoLease
  PROVE  /\ Renewed(p) \in Lease
         /\ Renewed(p).holder = LiveLeases(p)[call[p].id].holder
         /\ Proposal(p, [LiveLeases(p) EXCEPT ![call[p].id] = Renewed(p)])
<1> DEFINE ls == LiveLeases(p)
           id == call[p].id
           new == [ls EXCEPT ![id] = Renewed(p)]
<1>1. Proposal(p, ls)
  BY LiveLeasesShape DEF Calling
<1>2. id \in LeaseIds /\ call[p].ttl \in Ttls
  BY CallFields DEF Calling, StoreInv, TypeOK
<1>3. ls[id] \in Lease
  BY <1>1, <1>2 DEF Proposal
<1>4. Renewed(p) = [ls[id] EXCEPT !.ttl = call[p].ttl, !.heartbeat_at = now[p]]
  BY DEF Renewed
<1>5. now[p] \in Times
  BY DEF StoreInv, TypeOK
<1>6. /\ Renewed(p) \in Lease
      /\ Renewed(p).holder = ls[id].holder
      /\ Renewed(p).lease_id = ls[id].lease_id
      /\ Renewed(p).mode = ls[id].mode
      /\ Renewed(p).scope = ls[id].scope
  BY <1>2, <1>3, <1>4, <1>5 DEF Lease
<1>7. \A i \in LeaseIds : new[i] = IF i = id THEN Renewed(p) ELSE ls[i]
  BY <1>1, <1>2 DEF Proposal
<1>8. Live(new) = Live(ls) /\ id \in Live(ls)
  BY <1>2, <1>6, <1>7, NoLeaseAssumption DEF Live
<1>9. \A i \in LeaseIds : \A m : /\ Rivals(new[i], m) <=> Rivals(ls[i], m)
                                 /\ Rivals(m, new[i]) <=> Rivals(m, ls[i])
  BY <1>6, <1>7 DEF Rivals
<1>10. new \in [LeaseIds -> Lease \cup {NoLease}]
  BY <1>1, <1>6 DEF Proposal
<1>11. \A i \in Live(new) : new[i].lease_id = i
  BY <1>1, <1>6, <1>7, <1>8 DEF Proposal
<1>12. \A i, j \in Live(new) : i # j => ~Rivals(new[i], new[j])
  BY <1>1, <1>8, <1>9 DEF Proposal, Live
<1>13. QED
  BY <1>6, <1>10, <1>11, <1>12 DEF Proposal

LEMMA ReleaseIsProposal ==
  ASSUME StoreInv, NEW p \in Procs, phase[p] = "locked", NEW id \in LeaseIds
  PROVE  Proposal(p, [LiveLeases(p) EXCEPT ![id] = NoLease])
<1>1. Proposal(p, LiveLeases(p))
  BY LiveLeasesShape
<1>2. QED
  BY <1>1 DEF Proposal, Live

-----------------------------------------------------------------------------
(* The store invariant *)

\* Steps that leave the file alone.
LEMMA QuietStepKeepsStoreInv ==
  ASSUME StoreInv, NEW p \in Procs,
         \/ \E c \in Call : Begin(p, c)
         \/ Enter(p) \/ LockTimeout(p) \/ NotHolder(p) \/ Crash(p)
  PROVE  StoreInv'
<1> USE DEF StoreInv
<1>1. leases' = leases
  BY DEF Begin, Enter, LockTimeout, NotHolder, Crash
<1>2. HardExclusion'
  BY <1>1 DEF HardExclusion, Live
<1>3. \A i \in Live(leases') : leases'[i].lease_id = i
  BY <1>1 DEF TypeOK, Live
<1>4. /\ NoSnap.leases \in [LeaseIds -> Lease \cup {NoLease}]
      /\ NoLeases \in [LeaseIds -> Lease \cup {NoLease}]
      /\ 0 \in Times
  BY BoundsAssumption DEF NoSnap, NoLeases, Times
<1>5. ASSUME NEW c \in Call, Begin(p, c) PROVE TypeOK' /\ SnapshotCurrent'
  <2>1. c.op = "release" => c.id \in LeaseIds
    BY CallFields
  <2>2. belief' \in [Procs -> [LeaseIds -> Lease \cup {NoLease}]]
    BY <1>5, <2>1 DEF Begin, TypeOK
  <2>3. TypeOK'
    BY <1>1, <1>3, <1>5, <2>2 DEF Begin, TypeOK
  <2>4. QED
    BY <1>5, <2>3 DEF Begin, SnapshotCurrent, TypeOK
<1>6. CASE Enter(p)
  <2>1. \A q \in Procs : phase[q] # "locked"
    BY <1>6, NoProcAssumption DEF Enter, SnapshotCurrent
  <2>2. /\ DOMAIN snap' = Procs
        /\ \A q \in Procs : IF q = p THEN snap'[q].leases = leases
                                     ELSE snap'[q] = snap[q]
    BY <1>6 DEF Enter, TypeOK
  <2>3. TypeOK'
    BY <1>1, <1>3, <1>6, <2>2 DEF Enter, TypeOK
  <2>4. SnapshotCurrent'
    BY <1>1, <1>6, <2>1, <2>2 DEF Enter, SnapshotCurrent, TypeOK
  <2>5. QED
    BY <1>2, <2>3, <2>4
<1>7. CASE LockTimeout(p)
  <2>1. TypeOK'
    BY <1>1, <1>3, <1>4, <1>7 DEF LockTimeout, TypeOK
  <2>2. SnapshotCurrent'
    BY <1>1, <1>7 DEF LockTimeout, SnapshotCurrent, TypeOK
  <2>3. QED
    BY <1>2, <2>1, <2>2
<1>8. CASE NotHolder(p)
  <2>1. lock = p /\ phase[p] = "locked" /\ call[p] \in Call
    BY <1>8 DEF NotHolder, Calling, SnapshotCurrent, TypeOK
  <2>2. call[p].id \in LeaseIds
    BY <1>8, <2>1, CallFields DEF NotHolder, Calling
  <2>3. belief' \in [Procs -> [LeaseIds -> Lease \cup {NoLease}]]
    BY <1>8, <2>2 DEF NotHolder, TypeOK
  <2>4. /\ DOMAIN snap' = Procs
        /\ \A q \in Procs : IF q = p THEN snap'[q] = NoSnap
                                     ELSE snap'[q] = snap[q]
    BY <1>8 DEF NotHolder, Leave, TypeOK
  <2>5. TypeOK'
    BY <1>1, <1>3, <1>4, <1>8, <2>3, <2>4 DEF NotHolder, Leave, TypeOK
  <2>6. SnapshotCurrent'
    BY <1>8, <2>1 DEF NotHolder, Leave, SnapshotCurrent, TypeOK
  <2>7. QED
    BY <1>2, <2>5, <2>6
<1>9. CASE Crash(p)
  <2>1. /\ DOMAIN snap' = Procs
        /\ \A q \in Procs : IF q = p THEN snap'[q] = NoSnap
                                     ELSE snap'[q] = snap[q]
    BY <1>9 DEF Crash, TypeOK
  <2>2. TypeOK'
    BY <1>1, <1>3, <1>4, <1>9, <2>1 DEF Crash, TypeOK
  <2>3. SnapshotCurrent'
    BY <1>1, <1>9, <2>1 DEF Crash, SnapshotCurrent, TypeOK
  <2>4. QED
    BY <1>2, <2>2, <2>3
<1>10. QED
  BY <1>2, <1>5, <1>6, <1>7, <1>8, <1>9

\* Steps that commit.
LEMMA CommitStepKeepsStoreInv ==
  ASSUME StoreInv, NEW p \in Procs,
         \/ AcquireGranted(p) \/ AcquireConflict(p)
         \/ RenewGranted(p) \/ RenewNotFound(p)
         \/ ReleaseGranted(p) \/ ReleaseNotFound(p) \/ Expire(p)
  PROVE  StoreInv'
<1>1. phase[p] = "locked" /\ call[p] \in Call
  BY DEF AcquireGranted, AcquireConflict, RenewGranted, RenewNotFound,
         ReleaseGranted, ReleaseNotFound, Expire, Calling, StoreInv, TypeOK
<1>2. belief[p] \in [LeaseIds -> Lease \cup {NoLease}] /\ now[p] \in Times
  BY DEF StoreInv, TypeOK
<1>3. Proposal(p, LiveLeases(p))
  BY <1>1, LiveLeasesShape
<1>4. CASE AcquireGranted(p)
  <2>1. call[p].id \in LeaseIds /\ call[p].req \in Requests
    BY <1>1, <1>4, CallFields DEF AcquireGranted, Calling
  <2>2. NewLease(p) \in Lease
    BY <1>2, <2>1, RequestAssumption DEF NewLease, Lease
  <2>3. [belief[p] EXCEPT ![NewLease(p).lease_id] = NewLease(p)]
          \in [LeaseIds -> Lease \cup {NoLease}]
    BY <1>2, <2>2
  <2>4. Proposal(p, [LiveLeases(p) EXCEPT ![NewLease(p).lease_id] = NewLease(p)])
    BY <1>1, <1>4, <2>2, GrantIsProposal DEF AcquireGranted
  <2>5. QED
    BY <1>1, <1>4, <2>3, <2>4, CommitKeepsStoreInv DEF AcquireGranted
<1>5. CASE AcquireConflict(p)
  BY <1>1, <1>2, <1>3, <1>5, CommitKeepsStoreInv DEF AcquireConflict
<1>6. CASE RenewGranted(p)
  <2>1. /\ Renewed(p) \in Lease
        /\ Proposal(p, [LiveLeases(p) EXCEPT ![call[p].id] = Renewed(p)])
    BY <1>6, RenewIsProposal DEF RenewGranted
  <2>2. [belief[p] EXCEPT ![call[p].id] = Renewed(p)]
          \in [LeaseIds -> Lease \cup {NoLease}]
    BY <1>2, <2>1
  <2>3. QED
    BY <1>1, <1>6, <2>1, <2>2, CommitKeepsStoreInv DEF RenewGranted
<1>7. CASE RenewNotFound(p)
  <2>1. [belief[p] EXCEPT ![call[p].id] = NoLease]
          \in [LeaseIds -> Lease \cup {NoLease}]
    BY <1>2
  <2>2. QED
    BY <1>1, <1>3, <1>7, <2>1, CommitKeepsStoreInv DEF RenewNotFound
<1>8. CASE ReleaseGranted(p)
  <2>1. call[p].id \in LeaseIds
    BY <1>1, <1>8, CallFields DEF ReleaseGranted, Calling
  <2>2. Proposal(p, [LiveLeases(p) EXCEPT ![call[p].id] = NoLease])
    BY <1>1, <2>1, ReleaseIsProposal
  <2>3. QED
    BY <1>1, <1>2, <1>8, <2>2, CommitKeepsStoreInv DEF ReleaseGranted
<1>9. CASE ReleaseNotFound(p)
  BY <1>1, <1>2, <1>3, <1>9, CommitKeepsStoreInv DEF ReleaseNotFound
<1>10. CASE Expire(p)
  BY <1>1, <1>2, <1>3, <1>10, CommitKeepsStoreInv DEF Expire
<1>11. QED
  BY <1>4, <1>5, <1>6, <1>7, <1>8, <1>9, <1>10

LEMMA InitStoreInv == Init => StoreInv
<1> SUFFICES ASSUME Init PROVE StoreInv
  OBVIOUS
<1>1. /\ NoSnap.leases \in [LeaseIds -> Lease \cup {NoLease}]
      /\ NoLeases \in [LeaseIds -> Lease \cup {NoLease}]
      /\ 0 \in Times
      /\ \A i \in LeaseIds : NoLeases[i] = NoLease
  BY BoundsAssumption DEF NoSnap, NoLeases, Times
<1>2. TypeOK
  BY <1>1 DEF Init, TypeOK, Live
<1>3. SnapshotCurrent /\ HardExclusion
  BY <1>1 DEF Init, SnapshotCurrent, HardExclusion, Live
<1>4. QED
  BY <1>2, <1>3 DEF StoreInv

LEMMA NextKeepsStoreInv == StoreInv /\ [Next]_vars => StoreInv'
<1> SUFFICES ASSUME StoreInv, [Next]_vars PROVE StoreInv'
  OBVIOUS
<1>1. ASSUME NEW t \in Times, Tick(t) PROVE StoreInv'
  BY <1>1 DEF Tick, StoreInv, TypeOK, SnapshotCurrent, HardExclusion, Live
<1>2. CASE UNCHANGED vars
  BY <1>2 DEF vars, StoreInv, TypeOK, SnapshotCurrent, HardExclusion, Live
<1>3. QED
  BY <1>1, <1>2, QuietStepKeepsStoreInv, CommitStepKeepsStoreInv DEF Next

\* The type invariant holds for every set of processes, leases and scopes.
THEOREM TypeCorrect == Spec => []TypeOK
<1>1. StoreInv => TypeOK
  BY DEF StoreInv
<1>2. QED
  BY <1>1, InitStoreInv, NextKeepsStoreInv, PTL DEF Spec

\* The file never holds two overlapping hard leases, whatever the clock does:
\* LocalLeaseStore's exclusion rests on the lock, not on time.
THEOREM HardExclusionHolds == Spec => []HardExclusion
<1>1. StoreInv => HardExclusion
  BY DEF StoreInv
<1>2. QED
  BY <1>1, InitStoreInv, NextKeepsStoreInv, PTL DEF Spec

-----------------------------------------------------------------------------
(* What holders rely on, when the clock is never set back *)

\* A commit keeps beliefs backed if it only takes away leases that are over
\* or the caller's own, and tells the caller no more than it writes.
LEMMA CommitKeepsBelief ==
  ASSUME BeliefInv, NEW p \in Procs, phase[p] = "locked",
         NEW ls, NEW ev, NEW told,
         told \in [LeaseIds -> Lease \cup {NoLease}],
         Commit(p, ls, ev, told),
         \A i \in LeaseIds : leases[i] # ls[i] /\ leases[i] # NoLease
           => IsLeaseExpired(leases[i], clock) \/ leases[i].holder = p,
         \A i \in LeaseIds : told[i] # NoLease
           => /\ told[i].holder = p
              /\ ~IsLeaseExpired(told[i], clock) => ls[i] = told[i]
  PROVE  BeliefBacked' /\ ReleasingGaveUp' /\ ClockAhead'
<1>1. \/ UNCHANGED <<leases, belief>>
      \/ leases' = ls /\ belief' = [belief EXCEPT ![p] = told]
  BY DEF Commit
<1>2. /\ clock' = clock
      /\ phase' = [phase EXCEPT ![p] = "idle"]
      /\ call' = [call EXCEPT ![p] = NoCall]
      /\ now' = [now EXCEPT ![p] = 0]
  BY DEF Commit, Leave
<1>3. belief \in [Procs -> [LeaseIds -> Lease \cup {NoLease}]]
  BY DEF BeliefInv, StoreInv, TypeOK
<1>4. ASSUME leases' = ls, belief' = [belief EXCEPT ![p] = told],
             NEW q \in Procs, NEW i \in LeaseIds, belief'[q][i] # NoLease
      PROVE  /\ belief'[q][i].holder = q
             /\ ~IsLeaseExpired(belief'[q][i], clock) => leases'[i] = belief'[q][i]
  <2>1. CASE q = p
    BY <1>3, <1>4, <2>1
  <2>2. CASE q # p
    <3>1. belief'[q][i] = belief[q][i]
      BY <1>3, <1>4, <2>2
    <3>2. /\ belief[q][i].holder = q
          /\ ~IsLeaseExpired(belief[q][i], clock) => leases[i] = belief[q][i]
      BY <1>4, <3>1 DEF BeliefInv, BeliefBacked
    <3>3. QED
      BY <1>4, <2>2, <3>1, <3>2
  <2>3. QED
    BY <2>1, <2>2
<1>5. BeliefBacked'
  <2>1. CASE UNCHANGED <<leases, belief>>
    BY <1>2, <2>1 DEF BeliefInv, BeliefBacked, IsLeaseExpired, ExpiresAt
  <2>2. CASE leases' = ls /\ belief' = [belief EXCEPT ![p] = told]
    BY <1>2, <1>4, <2>2 DEF BeliefBacked, IsLeaseExpired, ExpiresAt
  <2>3. QED
    BY <1>1, <2>1, <2>2
<1>6. ReleasingGaveUp'
  <2> SUFFICES ASSUME NEW q \in Procs, phase'[q] # "idle", call'[q].op = "release"
               PROVE  belief'[q][call'[q].id] = NoLease
    BY DEF ReleasingGaveUp
  <2>1. q # p /\ phase'[q] = phase[q] /\ call'[q] = call[q]
    BY <1>2 DEF BeliefInv, StoreInv, TypeOK
  <2>2. belief'[q] = belief[q]
    BY <1>1, <1>3, <2>1
  <2>3. QED
    BY <2>1, <2>2 DEF BeliefInv, ReleasingGaveUp
<1>7. ClockAhead'
  BY <1>2 DEF BeliefInv, ClockAhead, StoreInv, TypeOK, Times
<1>8. QED
  BY <1>5, <1>6, <1>7

\* What is over at the caller's clock is over at the host's clock.
LEMMA OverStaysOver ==
  ASSUME NEW l \in Lease, NEW t \in Times, NEW u \in Times, t <= u,
         IsLeaseExpired(l, t)
  PROVE  IsLeaseExpired(l, u)
<1>1. l.heartbeat_at \in Times /\ l.ttl \in Ttls
  BY DEF Lease
<1>2. \A x \in Times : x \in Int
  BY BoundsAssumption DEF Times
<1>3. l.heartbeat_at \in Int /\ l.ttl \in Int /\ t \in Int /\ u \in Int
  BY <1>1, <1>2, BoundsAssumption
<1>4. QED
  BY <1>3 DEF IsLeaseExpired, ExpiresAt

LEMMA CommitStepKeepsBelief ==
  ASSUME BeliefInv, NEW p \in Procs,
         \/ AcquireGranted(p) \/ AcquireConflict(p)
         \/ RenewGranted(p) \/ RenewNotFound(p)
         \/ ReleaseGranted(p) \/ ReleaseNotFound(p) \/ Expire(p)
  PROVE  BeliefBacked' /\ ReleasingGaveUp' /\ ClockAhead'
<1> DEFINE ls == LiveLeases(p)
<1>1. phase[p] = "locked" /\ call[p] \in Call /\ StoreInv
  BY DEF AcquireGranted, AcquireConflict, RenewGranted, RenewNotFound,
         ReleaseGranted, ReleaseNotFound, Expire, Calling,
         BeliefInv, StoreInv, TypeOK
<1>2. /\ belief[p] \in [LeaseIds -> Lease \cup {NoLease}]
      /\ leases \in [LeaseIds -> Lease \cup {NoLease}]
      /\ now[p] \in Times /\ clock \in Times /\ now[p] <= clock
  BY DEF BeliefInv, StoreInv, TypeOK, ClockAhead
<1>3. ls \in [LeaseIds -> Lease \cup {NoLease}]
  BY <1>1, LiveLeasesShape
<1>4. \A i \in LeaseIds : ls[i] # leases[i]
        => ls[i] = NoLease /\ leases[i] # NoLease /\ IsLeaseExpired(leases[i], clock)
  BY <1>1, <1>2, LiveLeasesShape, OverStaysOver
<1>5. \A i \in LeaseIds : belief[p][i] # NoLease
        => /\ belief[p][i].holder = p
           /\ ~IsLeaseExpired(belief[p][i], clock)
                => leases[i] = belief[p][i] /\ ls[i] = belief[p][i]
  BY <1>4 DEF BeliefInv, BeliefBacked
<1> HIDE DEF ls
<1>6. CASE AcquireGranted(p)
  <2> DEFINE l == NewLease(p)
             new == [ls EXCEPT ![l.lease_id] = l]
             told == [belief[p] EXCEPT ![l.lease_id] = l]
  <2>1. call[p].id \in LeaseIds /\ call[p].req \in Requests
    BY <1>1, <1>6, CallFields DEF AcquireGranted, Calling
  <2>2. l \in Lease /\ l.holder = p /\ l.lease_id \in LeaseIds
    BY <1>2, <2>1, RequestAssumption DEF NewLease, Lease
  <2>3. ls[l.lease_id] = NoLease /\ Commit(p, new, Append(LiveEvents(p), Event("acquire", l, now[p])), told)
    BY <1>6 DEF AcquireGranted, ls
  <2> HIDE DEF l
  <2>4. told \in [LeaseIds -> Lease \cup {NoLease}]
    BY <1>2, <2>2
  <2>5. \A i \in LeaseIds : leases[i] # new[i] /\ leases[i] # NoLease
          => IsLeaseExpired(leases[i], clock) \/ leases[i].holder = p
    BY <1>3, <1>4, <2>2, <2>3
  <2>6. \A i \in LeaseIds : told[i] # NoLease
          => told[i].holder = p /\ (~IsLeaseExpired(told[i], clock) => new[i] = told[i])
    BY <1>2, <1>3, <1>5, <2>2
  <2> HIDE DEF new, told
  <2>7. QED
    BY <1>1, <2>3, <2>4, <2>5, <2>6, CommitKeepsBelief
<1>7. CASE RenewGranted(p)
  <2> DEFINE id == call[p].id
             r == Renewed(p)
             new == [ls EXCEPT ![id] = r]
             told == [belief[p] EXCEPT ![id] = r]
  <2>1. /\ id \in LeaseIds
        /\ ls[id] # NoLease /\ ls[id].holder = p
        /\ Commit(p, new, Append(LiveEvents(p), Event("renew", r, now[p])), told)
    BY <1>1, <1>7, CallFields DEF RenewGranted, Calling, ls
  <2>2. r \in Lease /\ r.holder = p
    BY <1>1, <1>7, <2>1, RenewIsProposal DEF RenewGranted, ls
  <2> HIDE DEF id, r
  <2>3. told \in [LeaseIds -> Lease \cup {NoLease}]
    BY <1>2, <2>2
  <2>4. \A i \in LeaseIds : leases[i] # new[i] /\ leases[i] # NoLease
          => IsLeaseExpired(leases[i], clock) \/ leases[i].holder = p
    BY <1>3, <1>4, <2>1
  <2>5. \A i \in LeaseIds : told[i] # NoLease
          => told[i].holder = p /\ (~IsLeaseExpired(told[i], clock) => new[i] = told[i])
    BY <1>2, <1>3, <1>5, <2>2
  <2> HIDE DEF new, told
  <2>6. QED
    BY <1>1, <2>1, <2>3, <2>4, <2>5, CommitKeepsBelief
<1>8. CASE RenewNotFound(p)
  <2> DEFINE told == [belief[p] EXCEPT ![call[p].id] = NoLease]
  <2>1. Commit(p, ls, LiveEvents(p), told)
    BY <1>8 DEF RenewNotFound, ls
  <2>2. told \in [LeaseIds -> Lease \cup {NoLease}]
    BY <1>2
  <2>3. \A i \in LeaseIds : told[i] # NoLease
          => told[i].holder = p /\ (~IsLeaseExpired(told[i], clock) => ls[i] = told[i])
    BY <1>2, <1>5
  <2> HIDE DEF told
  <2>4. QED
    BY <1>1, <1>4, <2>1, <2>2, <2>3, CommitKeepsBelief
<1>9. CASE ReleaseGranted(p)
  <2> DEFINE id == call[p].id
             new == [ls EXCEPT ![id] = NoLease]
  <2>1. /\ id \in LeaseIds
        /\ ls[id] # NoLease /\ ls[id].holder = p
        /\ Commit(p, new, Append(LiveEvents(p), Event("release", ls[id], now[p])), belief[p])
        /\ belief[p][id] = NoLease
    BY <1>1, <1>9, CallFields DEF ReleaseGranted, Calling, ls, BeliefInv, ReleasingGaveUp
  <2> HIDE DEF id
  <2>2. \A i \in LeaseIds : leases[i] # new[i] /\ leases[i] # NoLease
          => IsLeaseExpired(leases[i], clock) \/ leases[i].holder = p
    BY <1>3, <1>4, <2>1
  <2>3. \A i \in LeaseIds : belief[p][i] # NoLease
          => belief[p][i].holder = p /\ (~IsLeaseExpired(belief[p][i], clock) => new[i] = belief[p][i])
    BY <1>3, <1>5, <2>1
  <2> HIDE DEF new
  <2>4. QED
    BY <1>1, <1>2, <2>1, <2>2, <2>3, CommitKeepsBelief
<1>10. CASE AcquireConflict(p) \/ ReleaseNotFound(p) \/ Expire(p)
  <2>1. Commit(p, ls, LiveEvents(p), belief[p])
    BY <1>10 DEF AcquireConflict, ReleaseNotFound, Expire, ls
  <2>2. QED
    BY <1>1, <1>2, <1>4, <1>5, <2>1, CommitKeepsBelief
<1>11. QED
  BY <1>6, <1>7, <1>8, <1>9, <1>10

LEMMA QuietStepKeepsBelief ==
  ASSUME BeliefInv, NEW p \in Procs,
         \/ \E c \in Call : Begin(p, c)
         \/ Enter(p) \/ LockTimeout(p) \/ NotHolder(p) \/ Crash(p)
  PROVE  BeliefBacked' /\ ReleasingGaveUp' /\ ClockAhead'
<1>1. /\ leases' = leases /\ clock' = clock
      /\ belief \in [Procs -> [LeaseIds -> Lease \cup {NoLease}]]
      /\ phase \in [Procs -> {"idle", "waiting", "locked"}]
      /\ call \in [Procs -> Call \cup {NoCall}]
      /\ now \in [Procs -> Times] /\ clock \in Times
  BY DEF Begin, Enter, LockTimeout, NotHolder, Leave, Crash,
         BeliefInv, StoreInv, TypeOK
<1>2. ClockAhead'
  BY <1>1, BoundsAssumption
     DEF Begin, Enter, LockTimeout, NotHolder, Leave, Crash, BeliefInv, ClockAhead, Times
<1>3. \A q \in Procs : \A i \in LeaseIds :
        belief'[q][i] = belief[q][i] \/ belief'[q][i] = NoLease
  <2>1. ASSUME NEW c \in Call, Begin(p, c)
        PROVE \A q \in Procs : \A i \in LeaseIds :
                belief'[q][i] = belief[q][i] \/ belief'[q][i] = NoLease
    BY <1>1, <2>1 DEF Begin
  <2>2. CASE Enter(p) \/ LockTimeout(p)
    BY <2>2 DEF Enter, LockTimeout
  <2>3. CASE NotHolder(p)
    BY <1>1, <2>3 DEF NotHolder
  <2>4. CASE Crash(p)
    BY <1>1, <2>4 DEF Crash, NoLeases
  <2>5. QED
    BY <2>1, <2>2, <2>3, <2>4
<1>4. BeliefBacked'
  BY <1>1, <1>3 DEF BeliefInv, BeliefBacked, IsLeaseExpired, ExpiresAt
<1>5. ReleasingGaveUp'
  <2>1. ASSUME NEW c \in Call, Begin(p, c) PROVE ReleasingGaveUp'
    <3> SUFFICES ASSUME NEW q \in Procs, phase'[q] # "idle", call'[q].op = "release"
                 PROVE  belief'[q][call'[q].id] = NoLease
      BY DEF ReleasingGaveUp
    <3>1. CASE q = p
      <4>1. call'[p] = c /\ c.op = "release" /\ c.id \in LeaseIds
        BY <1>1, <2>1, <3>1, CallFields DEF Begin
      <4>2. QED
        BY <1>1, <2>1, <3>1, <4>1 DEF Begin
    <3>2. CASE q # p
      BY <1>1, <2>1, <3>2 DEF Begin, BeliefInv, ReleasingGaveUp
    <3>3. QED
      BY <3>1, <3>2
  <2>2. CASE Enter(p)
    BY <1>1, <2>2 DEF Enter, BeliefInv, ReleasingGaveUp
  <2>3. CASE LockTimeout(p)
    BY <1>1, <2>3 DEF LockTimeout, BeliefInv, ReleasingGaveUp
  <2>4. CASE NotHolder(p)
    BY <1>1, <2>4 DEF NotHolder, Leave, BeliefInv, ReleasingGaveUp
  <2>5. CASE Crash(p)
    BY <1>1, <2>5 DEF Crash, BeliefInv, ReleasingGaveUp
  <2>6. QED
    BY <2>1, <2>2, <2>3, <2>4, <2>5
<1>6. QED
  BY <1>2, <1>4, <1>5

LEMMA NextKeepsBelief ==
  ASSUME ~Rewinds
  PROVE  BeliefInv /\ [Next]_vars => BeliefInv'
<1> SUFFICES ASSUME BeliefInv, [Next]_vars PROVE BeliefInv'
  OBVIOUS
<1>1. StoreInv'
  BY NextKeepsStoreInv DEF BeliefInv
<1>2. ASSUME NEW t \in Times, Tick(t)
      PROVE BeliefBacked' /\ ReleasingGaveUp' /\ ClockAhead'
  <2>1. t > clock /\ clock' = t /\ clock \in Times
        /\ UNCHANGED <<leases, phase, call, now, belief>>
    BY <1>2 DEF Tick, BeliefInv, StoreInv, TypeOK
  <2>2. \A p \in Procs : \A i \in LeaseIds : belief[p][i] # NoLease /\
          ~IsLeaseExpired(belief[p][i], t) => ~IsLeaseExpired(belief[p][i], clock)
    <3>1. belief \in [Procs -> [LeaseIds -> Lease \cup {NoLease}]]
      BY DEF BeliefInv, StoreInv, TypeOK
    <3>2. t \in Int /\ clock \in Int /\ clock <= t
      BY <2>1, BoundsAssumption DEF Times
    <3>3. QED
      BY <1>2, <2>1, <3>1, <3>2, OverStaysOver
  <2>3. BeliefBacked'
    BY <2>1, <2>2 DEF BeliefInv, BeliefBacked, IsLeaseExpired, ExpiresAt
  <2>4. ReleasingGaveUp'
    BY <2>1 DEF BeliefInv, ReleasingGaveUp
  <2>5. ClockAhead'
    BY <1>2, <2>1, BoundsAssumption DEF BeliefInv, StoreInv, TypeOK, ClockAhead, Times
  <2>6. QED
    BY <2>3, <2>4, <2>5
<1>3. CASE UNCHANGED vars
  BY <1>1, <1>3 DEF vars, BeliefInv, BeliefBacked, ReleasingGaveUp, ClockAhead,
                    IsLeaseExpired, ExpiresAt
<1>4. QED
  BY <1>1, <1>2, <1>3, QuietStepKeepsBelief, CommitStepKeepsBelief DEF Next, BeliefInv

LEMMA InitBeliefInv == Init => BeliefInv
<1> SUFFICES ASSUME Init PROVE BeliefInv
  OBVIOUS
<1>1. BeliefBacked /\ ReleasingGaveUp /\ ClockAhead
  BY DEF Init, BeliefBacked, ReleasingGaveUp, ClockAhead, NoLeases
<1>2. QED
  BY <1>1, InitStoreInv DEF BeliefInv

\* Two processes never both rely on overlapping hard leases, as long as the
\* wall clock is never set back.
THEOREM HoldersExcludeHolds == ASSUME ~Rewinds PROVE Spec => []HoldersExclude
<1>1. BeliefInv => HoldersExclude
  <2> SUFFICES ASSUME BeliefInv, NEW p \in Procs, NEW q \in Procs,
                      NEW i \in LeaseIds, NEW j \in LeaseIds, p # q,
                      belief[p][i] # NoLease, ~IsLeaseExpired(belief[p][i], clock),
                      belief[q][j] # NoLease, ~IsLeaseExpired(belief[q][j], clock)
               PROVE  ~Rivals(belief[p][i], belief[q][j])
    BY DEF HoldersExclude
  <2>1. /\ leases[i] = belief[p][i] /\ leases[i].holder = p
        /\ leases[j] = belief[q][j] /\ leases[j].holder = q
    BY DEF BeliefInv, BeliefBacked
  <2>2. i # j /\ i \in Live(leases) /\ j \in Live(leases)
    BY <2>1 DEF Live
  <2>3. QED
    BY <2>1, <2>2 DEF BeliefInv, StoreInv, HardExclusion
<1>2. QED
  BY <1>1, InitBeliefInv, NextKeepsBelief, PTL DEF Spec

-----------------------------------------------------------------------------
(* The store implements the atomic lease service *)

\* No live lease has a heartbeat after the clock, nor after the clock a
\* renewal read inside the lock: a renewal only moves heartbeats forward.
HeartbeatsPast ==
  /\ \A i \in Live(leases) : leases[i].heartbeat_at <= clock
  /\ \A p \in Procs : phase[p] = "locked" /\ call[p].op # "expire"
       => \A i \in Live(leases) : leases[i].heartbeat_at <= now[p]

ServiceInv == BeliefInv /\ HeartbeatsPast

LEMMA TimesAreInts == /\ \A t \in Times : t \in Int
                      /\ \A l \in Lease : l.heartbeat_at \in Int
BY BoundsAssumption DEF Times, Lease

\* A commit changes no lease but one, apart from those it sweeps.
LEMMA CommitSweepsOthers ==
  ASSUME ServiceInv, NEW p \in Procs, phase[p] = "locked",
         NEW ls \in [LeaseIds -> Lease \cup {NoLease}], NEW ev, NEW told,
         Commit(p, ls, ev, told), NEW i \in LeaseIds,
         \A j \in LeaseIds \ {i} : ls[j] = LiveLeases(p)[j]
  PROVE  /\ clock' = clock
         /\ leases' = leases \/ leases' = ls
         /\ leases' = ls => DOMAIN leases' = LeaseIds /\ Service!SweepAllBut(i)
<1>1. clock' = clock /\ (leases' = leases \/ leases' = ls)
  BY DEF Commit, Leave
<1>2. /\ leases \in [LeaseIds -> Lease \cup {NoLease}]
      /\ now[p] \in Times /\ clock \in Times /\ now[p] <= clock
  BY DEF ServiceInv, BeliefInv, StoreInv, TypeOK, ClockAhead
<1>3. \A j \in LeaseIds : LiveLeases(p)[j] # leases[j]
        => /\ LiveLeases(p)[j] = NoLease /\ leases[j] # NoLease
           /\ IsLeaseExpired(leases[j], clock)
  BY <1>2, LiveLeasesShape, OverStaysOver DEF ServiceInv, BeliefInv
<1>4. \A j \in LeaseIds : IsLeaseExpired(leases[j], clock) => Service!Over(leases[j], clock)
  BY DEF IsLeaseExpired, ExpiresAt, Service!Over
<1>5. ASSUME leases' = ls PROVE DOMAIN leases' = LeaseIds /\ Service!SweepAllBut(i)
  BY <1>3, <1>4, <1>5 DEF Service!SweepAllBut
<1>6. QED
  BY <1>1, <1>5

\* A commit that only sweeps is the release of one lease that is over, or
\* nothing.
LEMMA SweepIsRelease ==
  ASSUME ServiceInv, NEW p \in Procs, phase[p] = "locked", NEW ev, NEW told,
         Commit(p, LiveLeases(p), ev, told)
  PROVE  Service!Change \/ UNCHANGED <<clock, leases>>
<1>1. /\ LiveLeases(p) \in [LeaseIds -> Lease \cup {NoLease}]
      /\ leases \in [LeaseIds -> Lease \cup {NoLease}]
  BY LiveLeasesShape DEF ServiceInv, BeliefInv, StoreInv, TypeOK
<1>2. clock' = clock /\ (leases' = leases \/ leases' = LiveLeases(p))
  BY DEF Commit, Leave
<1>3. CASE leases' = leases
  BY <1>2, <1>3
<1>4. CASE leases' = LiveLeases(p) /\ leases' # leases
  <2>1. PICK i \in LeaseIds : LiveLeases(p)[i] # leases[i]
    BY <1>1, <1>4
  <2>2. LiveLeases(p)[i] = NoLease /\ leases[i] # NoLease
    BY <2>1, LiveLeasesShape DEF ServiceInv, BeliefInv
  <2>3. DOMAIN leases' = LeaseIds /\ Service!SweepAllBut(i)
    BY <1>1, <1>4, CommitSweepsOthers
  <2>4. Service!Release(i)
    BY <1>4, <2>2 DEF Service!Release
  <2>5. QED
    BY <1>2, <2>3, <2>4 DEF Service!Change
<1>5. QED
  BY <1>2, <1>3, <1>4

LEMMA CommitIsServiceStep ==
  ASSUME ServiceInv, StoreInv', NEW p \in Procs,
         \/ AcquireGranted(p) \/ AcquireConflict(p)
         \/ RenewGranted(p) \/ RenewNotFound(p)
         \/ ReleaseGranted(p) \/ ReleaseNotFound(p) \/ Expire(p)
  PROVE  Service!Change \/ UNCHANGED <<clock, leases>>
<1> DEFINE ls == LiveLeases(p)
           id == call[p].id
<1>1. /\ phase[p] = "locked" /\ call[p] \in Call /\ StoreInv
      /\ leases \in [LeaseIds -> Lease \cup {NoLease}]
      /\ now[p] \in Times /\ clock \in Times /\ now[p] <= clock
  BY DEF AcquireGranted, AcquireConflict, RenewGranted, RenewNotFound,
         ReleaseGranted, ReleaseNotFound, Expire, Calling,
         ServiceInv, BeliefInv, ClockAhead, StoreInv, TypeOK
<1>2. /\ ls \in [LeaseIds -> Lease \cup {NoLease}]
      /\ \A i \in LeaseIds : ls[i] # NoLease => ls[i] = leases[i]
      /\ \A i \in LeaseIds : ls[i] # leases[i]
           => leases[i] # NoLease /\ IsLeaseExpired(leases[i], now[p])
  BY <1>1, LiveLeasesShape
<1>3. now[p] \in Int /\ clock \in Int
  BY <1>1, TimesAreInts
<1>4. CASE AcquireGranted(p)
  <2> DEFINE l == NewLease(p)
             new == [ls EXCEPT ![id] = l]
  <2>1. id \in LeaseIds /\ call[p].req \in Requests
    BY <1>1, <1>4, CallFields DEF AcquireGranted, Calling
  <2>2. /\ l \in Lease /\ l.lease_id = id
        /\ l.acquired_at = now[p] /\ l.heartbeat_at = now[p]
    BY <1>1, <2>1, RequestAssumption DEF NewLease, Lease
  <2>3. PICK ev, told : Commit(p, new, ev, told)
    BY <1>4, <2>2 DEF AcquireGranted
  <2>4. ls[id] = NoLease
    BY <1>4, <2>2 DEF AcquireGranted
  <2> HIDE DEF ls, id, l
  <2>5. new \in [LeaseIds -> Lease \cup {NoLease}] /\ new[id] = l
        /\ \A j \in LeaseIds \ {id} : new[j] = ls[j]
    BY <1>2, <2>1, <2>2
  <2> HIDE DEF new
  <2>6. /\ clock' = clock /\ (leases' = leases \/ leases' = new)
        /\ leases' = new => DOMAIN leases' = LeaseIds /\ Service!SweepAllBut(id)
    BY <1>1, <2>1, <2>3, <2>5, CommitSweepsOthers DEF ls
  <2>7. ASSUME leases' = new PROVE Service!Grant(id)
    <3>1. leases[id] = NoLease \/ Service!Over(leases[id], clock)
      <4>1. CASE leases[id] # NoLease
        <5>1. leases[id] \in Lease /\ IsLeaseExpired(leases[id], now[p])
          BY <1>1, <1>2, <2>1, <2>4, <4>1
        <5>2. IsLeaseExpired(leases[id], clock)
          BY <1>1, <5>1, OverStaysOver
        <5>3. QED
          BY <5>2 DEF IsLeaseExpired, ExpiresAt, Service!Over
      <4>2. QED
        BY <4>1
    <3>2. leases'[id] = l /\ l # NoLease
      BY <2>2, <2>5, <2>7, NoLeaseAssumption
    <3>3. \A j \in Service!Held(leases') \ {id} : ~Rivals(leases'[j], leases'[id])
      BY <2>1, <3>2 DEF StoreInv, HardExclusion, Live, Service!Held
    <3>4. \A j \in Service!Held(leases') \ {id} :
            ~ /\ leases'[id].mode = "hard" /\ leases'[j].mode = "hard"
              /\ LeaseScopesOverlap(leases'[j].scope, leases'[id].scope)
      BY <3>3 DEF Rivals
    <3>5. QED
      BY <1>1, <2>2, <3>1, <3>2, <3>4 DEF Service!Grant
  <2>8. QED
    BY <2>1, <2>6, <2>7 DEF Service!Change
<1>5. CASE RenewGranted(p)
  <2> DEFINE r == Renewed(p)
             new == [ls EXCEPT ![id] = r]
  <2>1. id \in LeaseIds /\ ls[id] # NoLease /\ r \in Lease /\ call[p].op # "expire"
    BY <1>1, <1>5, CallFields, RenewIsProposal DEF RenewGranted, Calling
  <2>2. ls[id] = leases[id] /\ leases[id] \in Lease /\ id \in Live(leases)
    BY <1>1, <1>2, <2>1 DEF Live
  <2>3. /\ r = [leases[id] EXCEPT !.ttl = r.ttl, !.heartbeat_at = r.heartbeat_at]
        /\ r.heartbeat_at = now[p]
    <3>1. r = [leases[id] EXCEPT !.ttl = call[p].ttl, !.heartbeat_at = now[p]]
      BY <2>2 DEF Renewed
    <3>2. r.ttl = call[p].ttl /\ r.heartbeat_at = now[p]
      BY <2>2, <3>1 DEF Lease
    <3>3. QED
      BY <3>1, <3>2
  <2>4. PICK ev, told : Commit(p, new, ev, told)
    BY <1>5 DEF RenewGranted
  <2>5. leases[id].heartbeat_at <= now[p] /\ leases[id].heartbeat_at \in Int
    BY <1>1, <2>1, <2>2, TimesAreInts DEF ServiceInv, HeartbeatsPast
  <2> HIDE DEF ls, id, r
  <2>6. new \in [LeaseIds -> Lease \cup {NoLease}] /\ new[id] = r
        /\ \A j \in LeaseIds \ {id} : new[j] = ls[j]
    BY <1>2, <2>1
  <2> HIDE DEF new
  <2>7. /\ clock' = clock /\ (leases' = leases \/ leases' = new)
        /\ leases' = new => DOMAIN leases' = LeaseIds /\ Service!SweepAllBut(id)
    BY <1>1, <2>1, <2>4, <2>6, CommitSweepsOthers DEF ls
  <2>8. ASSUME leases' = new PROVE Service!Renew(id)
    <3>1. leases'[id] = r /\ r # NoLease /\ leases[id] # NoLease
      BY <1>2, <2>1, <2>2, <2>6, <2>8, NoLeaseAssumption
    <3>2. r.heartbeat_at \in leases[id].heartbeat_at..clock
      BY <1>1, <1>3, <2>3, <2>5
    <3>3. r = [leases[id] EXCEPT !.heartbeat_at = r.heartbeat_at, !.ttl = r.ttl]
      BY <2>2, <2>3 DEF Lease
    <3>4. QED
      BY <3>1, <3>2, <3>3 DEF Service!Renew
  <2>9. QED
    BY <2>1, <2>7, <2>8 DEF Service!Change
<1>6. CASE ReleaseGranted(p)
  <2> DEFINE new == [ls EXCEPT ![id] = NoLease]
  <2>1. id \in LeaseIds /\ ls[id] # NoLease
    BY <1>1, <1>6, CallFields DEF ReleaseGranted, Calling
  <2>2. PICK ev, told : Commit(p, new, ev, told)
    BY <1>6 DEF ReleaseGranted
  <2> HIDE DEF ls, id
  <2>3. new \in [LeaseIds -> Lease \cup {NoLease}] /\ new[id] = NoLease
        /\ \A j \in LeaseIds \ {id} : new[j] = ls[j]
    BY <1>2, <2>1
  <2> HIDE DEF new
  <2>4. /\ clock' = clock /\ (leases' = leases \/ leases' = new)
        /\ leases' = new => DOMAIN leases' = LeaseIds /\ Service!SweepAllBut(id)
    BY <1>1, <2>1, <2>2, <2>3, CommitSweepsOthers DEF ls
  <2>5. ASSUME leases' = new PROVE Service!Release(id)
    BY <1>2, <2>1, <2>3, <2>5 DEF Service!Release
  <2>6. QED
    BY <2>1, <2>4, <2>5 DEF Service!Change
<1>7. CASE AcquireConflict(p) \/ RenewNotFound(p) \/ ReleaseNotFound(p) \/ Expire(p)
  <2>1. PICK ev, told : Commit(p, LiveLeases(p), ev, told)
    BY <1>7 DEF AcquireConflict, RenewNotFound, ReleaseNotFound, Expire
  <2>2. QED
    BY <1>1, <2>1, SweepIsRelease
<1>8. QED
  BY <1>4, <1>5, <1>6, <1>7

\* Every lease a commit leaves was there or has its heartbeat at the caller's
\* clock.
LEMMA CommitKeepsHeartbeats ==
  ASSUME ServiceInv, NEW p \in Procs,
         \/ AcquireGranted(p) \/ AcquireConflict(p)
         \/ RenewGranted(p) \/ RenewNotFound(p)
         \/ ReleaseGranted(p) \/ ReleaseNotFound(p) \/ Expire(p)
  PROVE  HeartbeatsPast'
<1> DEFINE ls == LiveLeases(p)
<1>1. /\ phase[p] = "locked" /\ call[p] \in Call /\ StoreInv
      /\ now[p] \in Times /\ clock \in Times /\ now[p] <= clock
      /\ clock' = clock
  BY DEF AcquireGranted, AcquireConflict, RenewGranted, RenewNotFound,
         ReleaseGranted, ReleaseNotFound, Expire, Calling, Commit, Leave,
         ServiceInv, BeliefInv, ClockAhead, StoreInv, TypeOK
<1>2. ls \in [LeaseIds -> Lease \cup {NoLease}]
      /\ \A i \in LeaseIds : ls[i] # NoLease => ls[i] = leases[i]
  BY <1>1, LiveLeasesShape
<1>3. \A q \in Procs : phase'[q] # "locked"
  <2>1. \A q \in Procs : phase[q] = "locked" => q = p
    BY <1>1, NoProcAssumption DEF StoreInv, SnapshotCurrent
  <2>2. phase' = [phase EXCEPT ![p] = "idle"] /\ phase \in [Procs -> {"idle", "waiting", "locked"}]
    BY DEF AcquireGranted, AcquireConflict, RenewGranted, RenewNotFound,
           ReleaseGranted, ReleaseNotFound, Expire, Commit, Leave,
           ServiceInv, BeliefInv, StoreInv, TypeOK
  <2>3. QED
    BY <2>1, <2>2
<1>4. ASSUME NEW new, leases' = leases \/ leases' = new,
             \A i \in Live(new) : new[i] = leases[i] \/ new[i].heartbeat_at = now[p]
      PROVE  HeartbeatsPast'
  <2>1. \A i \in Live(leases') : leases'[i] = leases[i] \/ leases'[i].heartbeat_at = now[p]
    BY <1>4 DEF Live
  <2>2. \A i \in Live(leases') : leases'[i].heartbeat_at <= clock
    BY <1>1, <2>1 DEF ServiceInv, HeartbeatsPast, Live
  <2>3. QED
    BY <1>1, <1>3, <2>2 DEF HeartbeatsPast, Live
<1>5. CASE AcquireGranted(p)
  <2> DEFINE new == [ls EXCEPT ![NewLease(p).lease_id] = NewLease(p)]
  <2>1. leases' = leases \/ leases' = new
    BY <1>5 DEF AcquireGranted, Commit
  <2>2. NewLease(p).heartbeat_at = now[p]
    BY DEF NewLease
  <2>3. \A i \in LeaseIds : new[i] = ls[i] \/ new[i] = NewLease(p)
    BY <1>2
  <2>4. \A i \in Live(new) : new[i] = leases[i] \/ new[i].heartbeat_at = now[p]
    BY <1>2, <2>2, <2>3 DEF Live
  <2> HIDE DEF new
  <2>5. QED
    BY <1>4, <2>1, <2>4
<1>6. CASE RenewGranted(p)
  <2> DEFINE new == [ls EXCEPT ![call[p].id] = Renewed(p)]
  <2>1. leases' = leases \/ leases' = new
    BY <1>6 DEF RenewGranted, Commit
  <2>2. Renewed(p).heartbeat_at = now[p]
    <3>1. call[p].id \in LeaseIds /\ ls[call[p].id] # NoLease
      BY <1>1, <1>6, CallFields DEF RenewGranted, Calling
    <3>2. ls[call[p].id] \in Lease
      BY <1>2, <3>1
    <3>3. QED
      BY <3>2 DEF Renewed, Lease
  <2>3. \A i \in LeaseIds : new[i] = ls[i] \/ new[i] = Renewed(p)
    BY <1>2
  <2>4. \A i \in Live(new) : new[i] = leases[i] \/ new[i].heartbeat_at = now[p]
    BY <1>2, <2>2, <2>3 DEF Live
  <2> HIDE DEF new
  <2>5. QED
    BY <1>4, <2>1, <2>4
<1>7. CASE ReleaseGranted(p)
  <2> DEFINE new == [ls EXCEPT ![call[p].id] = NoLease]
  <2>1. leases' = leases \/ leases' = new
    BY <1>7 DEF ReleaseGranted, Commit
  <2>2. \A i \in Live(new) : new[i] = leases[i]
    BY <1>2 DEF Live
  <2> HIDE DEF new
  <2>3. QED
    BY <1>4, <2>1, <2>2
<1>8. CASE AcquireConflict(p) \/ RenewNotFound(p) \/ ReleaseNotFound(p) \/ Expire(p)
  <2>1. leases' = leases \/ leases' = ls
    BY <1>8 DEF AcquireConflict, RenewNotFound, ReleaseNotFound, Expire, Commit
  <2>2. \A i \in Live(ls) : ls[i] = leases[i]
    BY <1>2 DEF Live
  <2> HIDE DEF ls
  <2>3. QED
    BY <1>4, <2>1, <2>2
<1>9. QED
  BY <1>5, <1>6, <1>7, <1>8

LEMMA QuietStepKeepsHeartbeats ==
  ASSUME ServiceInv, NEW p \in Procs,
         \/ \E c \in Call : Begin(p, c)
         \/ Enter(p) \/ LockTimeout(p) \/ NotHolder(p) \/ Crash(p)
  PROVE  HeartbeatsPast' /\ UNCHANGED <<clock, leases>>
<1>1. /\ leases' = leases /\ clock' = clock
      /\ phase \in [Procs -> {"idle", "waiting", "locked"}]
      /\ DOMAIN call = Procs /\ DOMAIN now = Procs
  BY DEF Begin, Enter, LockTimeout, NotHolder, Leave, Crash, ServiceInv, BeliefInv, StoreInv, TypeOK
<1>2. ASSUME \A q \in Procs : phase'[q] = "locked" /\ call'[q].op # "expire" =>
               \/ now'[q] = clock
               \/ phase[q] = "locked" /\ call'[q] = call[q] /\ now'[q] = now[q]
      PROVE  HeartbeatsPast' /\ UNCHANGED <<clock, leases>>
  BY <1>1, <1>2 DEF ServiceInv, HeartbeatsPast, Live
<1>3. ASSUME NEW c \in Call, Begin(p, c) PROVE HeartbeatsPast' /\ UNCHANGED <<clock, leases>>
  <2>1. /\ phase' = [phase EXCEPT ![p] = "waiting"] /\ call' = [call EXCEPT ![p] = c]
        /\ now' = [now EXCEPT ![p] = clock]
    BY <1>3 DEF Begin
  <2>2. \A q \in Procs : phase'[q] = "locked"
          => phase[q] = "locked" /\ call'[q] = call[q] /\ now'[q] = now[q]
    BY <1>1, <2>1
  <2>3. QED
    BY <1>2, <2>2
<1>4. CASE Enter(p)
  <2>1. /\ phase' = [phase EXCEPT ![p] = "locked"] /\ call' = call
        /\ now' = [now EXCEPT ![p] = IF call[p].op = "expire" THEN @ ELSE clock]
    BY <1>4 DEF Enter
  <2>2. \A q \in Procs : /\ q # p => phase'[q] = phase[q] /\ now'[q] = now[q]
                         /\ q = p /\ call'[q].op # "expire" => now'[q] = clock
    BY <1>1, <2>1
  <2>3. QED
    BY <1>2, <2>1, <2>2
<1>5. CASE LockTimeout(p) \/ NotHolder(p) \/ Crash(p)
  <2>1. /\ phase' = [phase EXCEPT ![p] = "idle"] /\ call' = [call EXCEPT ![p] = NoCall]
        /\ now' = [now EXCEPT ![p] = 0]
    BY <1>5 DEF LockTimeout, NotHolder, Leave, Crash
  <2>2. \A q \in Procs : phase'[q] = "locked"
          => phase[q] = "locked" /\ call'[q] = call[q] /\ now'[q] = now[q]
    BY <1>1, <2>1
  <2>3. QED
    BY <1>2, <2>2
<1>6. QED
  BY <1>3, <1>4, <1>5

LEMMA NextKeepsServiceInv ==
  ASSUME ~Rewinds
  PROVE  /\ ServiceInv /\ [Next]_vars => ServiceInv'
         /\ ServiceInv /\ [Next]_vars => [Service!Next]_<<clock, leases>>
<1> SUFFICES ASSUME ServiceInv, [Next]_vars
             PROVE  ServiceInv' /\ [Service!Next]_<<clock, leases>>
  OBVIOUS
<1>1. BeliefInv' /\ StoreInv'
  BY NextKeepsBelief DEF ServiceInv, BeliefInv
<1>2. ASSUME NEW t \in Times, Tick(t) PROVE HeartbeatsPast' /\ Service!Tick
  <2>1. /\ t > clock /\ clock' = t /\ clock \in Int /\ t \in Int
        /\ UNCHANGED <<leases, phase, call, now>>
        /\ leases \in [LeaseIds -> Lease \cup {NoLease}]
    BY <1>2, TimesAreInts DEF Tick, ServiceInv, BeliefInv, StoreInv, TypeOK
  <2>2. \A i \in Live(leases) : leases[i].heartbeat_at \in Int
    BY <2>1, TimesAreInts DEF Live
  <2>3. \A i \in Live(leases) : leases[i].heartbeat_at <= t
    BY <2>1, <2>2 DEF ServiceInv, HeartbeatsPast
  <2>4. HeartbeatsPast'
    BY <2>1, <2>3 DEF ServiceInv, HeartbeatsPast, Live
  <2>5. Service!Tick
    BY <1>2, <2>1 DEF Service!Tick, Times
  <2>6. QED
    BY <2>4, <2>5
<1>3. CASE UNCHANGED vars
  BY <1>1, <1>3 DEF vars, ServiceInv, HeartbeatsPast, Live
<1>4. ASSUME NEW p \in Procs,
             \/ \E c \in Call : Begin(p, c)
             \/ Enter(p) \/ LockTimeout(p) \/ NotHolder(p) \/ Crash(p)
      PROVE  HeartbeatsPast' /\ UNCHANGED <<clock, leases>>
  BY <1>4, QuietStepKeepsHeartbeats
<1>5. ASSUME NEW p \in Procs,
             \/ AcquireGranted(p) \/ AcquireConflict(p)
             \/ RenewGranted(p) \/ RenewNotFound(p)
             \/ ReleaseGranted(p) \/ ReleaseNotFound(p) \/ Expire(p)
      PROVE  HeartbeatsPast' /\ (Service!Change \/ UNCHANGED <<clock, leases>>)
  BY <1>1, <1>5, CommitKeepsHeartbeats, CommitIsServiceStep
<1>6. QED
  BY <1>1, <1>2, <1>3, <1>4, <1>5 DEF Next, ServiceInv, Service!Next

\* The file-backed store refines the atomic lease service: every write of the
\* file is one grant, renewal, release or expiry of that service, over leases
\* that were free or over and never over a hard rival that stays, as long as
\* the wall clock is never set back.
THEOREM StoreImplementsService == ASSUME ~Rewinds PROVE Spec => ImplementsService
<1>1. Init => ServiceInv /\ Service!Init
  <2> SUFFICES ASSUME Init PROVE ServiceInv /\ Service!Init
    OBVIOUS
  <2>1. HeartbeatsPast
    BY DEF Init, NoLeases, Live, HeartbeatsPast
  <2>2. Service!Init
    BY DEF Init, NoLeases, Service!Init
  <2>3. QED
    BY <2>1, <2>2, InitBeliefInv DEF ServiceInv
<1>2. QED
  BY <1>1, NextKeepsServiceInv, PTL DEF Spec, ImplementsService, Service!Spec

=============================================================================
