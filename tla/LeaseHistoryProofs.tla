------------------------- MODULE LeaseHistoryProofs -------------------------
(***************************************************************************)
(* Proofs about the history LeaseStore keeps beside its leases: it proves   *)
(* every live lease however much of it was trimmed, it never keeps a lease  *)
(* from being given back, and it is in the order of its timestamps.         *)
(***************************************************************************)
EXTENDS LeaseStoreProofs, SubsequenceProofs

EventRecord ==
  [type: {"acquire", "renew", "release", "expire"}, leaseId: LeaseIds,
   holder: Procs, lease: Lease, recordedAt: Times]

\* What a history shows of a lease: its acquisition, and the lease itself as
\* the latest thing said of it.
Proves(ev, l) ==
  /\ Latest(AcquisitionsOf(ev, l)) # {}
  /\ \E k \in Latest(EventsOf(ev, l)) : ev[k].lease = l

\* A file writeState may leave behind: within its caps, and proved.
FileOK ==
  /\ events \in Seq(EventRecord)
  /\ Len(events) <= EventCap
  /\ IsFiniteSet(Live(leases))
  /\ Cardinality(Live(leases)) <= LeaseCap
  /\ \A i \in Live(leases) : Proves(events, leases[i])

\* The whole of what a process read inside the lock is current.
HistoryCurrent ==
  \A p \in Procs : phase[p] = "locked" => snap[p].events = events

HistoryInv == StoreInv /\ HistoryCurrent /\ FileOK

-----------------------------------------------------------------------------
(* Trimming *)

LEMMA EventPositions ==
  ASSUME NEW ev \in Seq(EventRecord)
  PROVE  /\ DOMAIN ev = 1..Len(ev) /\ Len(ev) \in Nat
         /\ \A k \in DOMAIN ev : k \in Int /\ ev[k] \in EventRecord
OBVIOUS

\* The indices writeState protects are positions of the history.
LEMMA ProtectedArePositions ==
  ASSUME NEW ls, NEW ev
  PROVE  ProtectedIndices(ls, ev) \in SUBSET (DOMAIN ev)
<1>1. \A ks \in SUBSET (DOMAIN ev) : Latest(ks) \in SUBSET (DOMAIN ev)
  BY DEF Latest
<1>2. \A l : /\ EventsOf(ev, l) \in SUBSET (DOMAIN ev)
             /\ AcquisitionsOf(ev, l) \in SUBSET (DOMAIN ev)
  BY DEF EventsOf, AcquisitionsOf
<1>3. \A i \in Live(ls) : Latest(EventsOf(ev, ls[i])) \cup Latest(AcquisitionsOf(ev, ls[i]))
                            \in SUBSET (DOMAIN ev)
  BY <1>1, <1>2
<1>4. QED
  BY <1>3 DEF ProtectedIndices

\* So many positions are that many.
LEMMA Positions ==
  ASSUME NEW n \in Nat
  PROVE  IsFiniteSet(1..n) /\ Cardinality(1..n) = n
<1>1. 1 \in Int /\ n \in Int
  OBVIOUS
<1>2. IsFiniteSet(1..n) /\ Cardinality(1..n) = IF 1 > n THEN 0 ELSE n - 1 + 1
  BY <1>1, FS_Interval
<1>3. QED
  BY <1>2

\* What is left of a finite set without some of it.
LEMMA Remainder ==
  ASSUME NEW S, IsFiniteSet(S), NEW T \in SUBSET S
  PROVE  /\ IsFiniteSet(S \ T)
         /\ Cardinality(S \ T) = Cardinality(S) - Cardinality(T)
<1>1. S \cap T = T
  OBVIOUS
<1>2. /\ IsFiniteSet(S \ T)
      /\ Cardinality(S \ T) = Cardinality(S) - Cardinality(S \cap T)
  BY FS_Difference
<1>3. QED
  BY <1>1, <1>2

\* Trimming is the history at some of its positions, the protected ones among
\* them, and within the cap if the protected ones are.
LEMMA TrimShape ==
  ASSUME NEW ls, NEW ev \in Seq(EventRecord), Fits(ls, ev)
  PROVE  \E kept \in SUBSET (DOMAIN ev) :
           /\ ProtectedIndices(ls, ev) \in SUBSET kept
           /\ Trim(ls, ev) = Subsequence(ev, kept)
           /\ Cardinality(kept) <= EventCap
<1> DEFINE prot == ProtectedIndices(ls, ev)
           free == DOMAIN ev \ prot
           over == Len(ev) - EventCap
           dropped == {k \in free : Rank(free, k) < over}
           kept == DOMAIN ev \ dropped
<1>1. /\ DOMAIN ev = 1..Len(ev) /\ Len(ev) \in Nat
      /\ IsFiniteSet(DOMAIN ev) /\ Cardinality(DOMAIN ev) = Len(ev)
      /\ DOMAIN ev \in SUBSET Int
  <2>1. DOMAIN ev = 1..Len(ev) /\ Len(ev) \in Nat
    BY EventPositions
  <2>2. IsFiniteSet(1..Len(ev)) /\ Cardinality(1..Len(ev)) = Len(ev)
    BY <2>1, Positions
  <2>3. QED
    BY <2>1, <2>2
<1>2. prot \in SUBSET (DOMAIN ev) /\ Cardinality(prot) <= EventCap
  BY ProtectedArePositions DEF Fits
<1>3. Trim(ls, ev) = Subsequence(ev, kept)
  BY DEF Trim
<1>4. /\ IsFiniteSet(prot) /\ Cardinality(prot) \in Nat
      /\ IsFiniteSet(free) /\ Cardinality(free) = Len(ev) - Cardinality(prot)
      /\ Cardinality(free) \in Nat
      /\ free \in SUBSET Int
  <2>1. IsFiniteSet(prot) /\ Cardinality(prot) \in Nat
    BY <1>1, <1>2, FS_Subset, FS_CardinalityType
  <2>2. IsFiniteSet(free) /\ Cardinality(free) = Cardinality(DOMAIN ev) - Cardinality(prot)
    <3>1. IsFiniteSet(DOMAIN ev) /\ prot \in SUBSET (DOMAIN ev)
      BY <1>1, <1>2
    <3> HIDE DEF prot
    <3>2. QED
      BY <3>1, Remainder
  <2>3. Cardinality(free) \in Nat
    BY <2>2, FS_CardinalityType
  <2>4. QED
    BY <1>1, <2>1, <2>2, <2>3
<1>5. /\ dropped \in SUBSET free
      /\ IsFiniteSet(dropped) /\ Cardinality(dropped) \in Nat
  <2>1. dropped \in SUBSET free
    OBVIOUS
  <2>2. IsFiniteSet(dropped)
    BY <1>4, <2>1, FS_Subset
  <2>3. Cardinality(dropped) \in Nat
    BY <2>2, FS_CardinalityType
  <2>4. QED
    BY <2>1, <2>2, <2>3
<1> HIDE DEF dropped
<1>6. Cardinality(kept) = Len(ev) - Cardinality(dropped)
  <2>1. IsFiniteSet(DOMAIN ev) /\ dropped \in SUBSET (DOMAIN ev)
    BY <1>1, <1>5
  <2>2. Cardinality(kept) = Cardinality(DOMAIN ev) - Cardinality(dropped)
    BY <2>1, Remainder
  <2>3. QED
    BY <1>1, <2>2
<1>7. ASSUME over > 0 PROVE over <= Cardinality(dropped)
  <2> DEFINE f == [k \in 1..over |-> Nth(free, k)]
  <2>1. over \in Nat /\ over <= Cardinality(free)
    BY <1>1, <1>2, <1>4, <1>7, BoundsAssumption
  <2>2. \A k \in 1..over : k \in 1..Cardinality(free) /\ k \in Int /\ k - 1 < over
    BY <1>4, <2>1
  <2>3. \A k \in 1..over : Nth(free, k) \in dropped
    <3>1. ASSUME NEW k \in 1..over PROVE Nth(free, k) \in free /\ Rank(free, Nth(free, k)) = k - 1
      <4>1. IsFiniteSet(free) /\ free \in SUBSET Int /\ k \in 1..Cardinality(free)
        BY <1>4, <2>2
      <4> HIDE DEF free
      <4>2. QED
        BY <4>1, NthCounts
    <3>2. QED
      BY <2>2, <3>1 DEF dropped
  <2>4. \A k, m \in 1..over : Nth(free, k) = Nth(free, m) => k = m
    <3>1. \A k \in 1..over : Rank(free, Nth(free, k)) = k - 1
      BY <1>4, <2>2, NthCounts
    <3>2. SUFFICES ASSUME NEW k \in 1..over, NEW m \in 1..over,
                          Nth(free, k) = Nth(free, m)
                   PROVE  k = m
      OBVIOUS
    <3>3. k - 1 = m - 1
      BY <3>1, <3>2
    <3>4. QED
      BY <2>2, <3>3
  <2>5. f \in Injection(1..over, dropped)
    BY <2>3, <2>4 DEF Injection, IsInjective
  <2>6. Cardinality(1..over) <= Cardinality(dropped)
    BY <1>5, <2>5, FS_Injection
  <2>7. Cardinality(1..over) = over
    BY <1>7, <2>1, Positions
  <2>8. QED
    BY <2>6, <2>7
<1>8. Cardinality(kept) <= EventCap
  BY <1>1, <1>5, <1>7, <1>6, BoundsAssumption
<1>9. prot \in SUBSET kept
  BY <1>2, <1>5
<1>10. QED
  BY <1>3, <1>8, <1>9

\* What is proved of the protected leases stays proved when the rest of the
\* history is trimmed.
LEMMA TrimKeepsProofs ==
  ASSUME NEW ls, NEW ev \in Seq(EventRecord), Fits(ls, ev),
         NEW i \in Live(ls), Proves(ev, ls[i])
  PROVE  Proves(Trim(ls, ev), ls[i])
<1> DEFINE l == ls[i]
           new == Trim(ls, ev)
<1>1. PICK kept \in SUBSET (DOMAIN ev) :
         ProtectedIndices(ls, ev) \in SUBSET kept /\ new = Subsequence(ev, kept)
  BY TrimShape
<1>2. /\ kept \in SUBSET Int /\ IsFiniteSet(kept)
      /\ \A k \in DOMAIN new : k \in Int
  BY <1>1, EventPositions, SubsequenceType
<1>3. /\ \A k \in DOMAIN new : Nth(kept, k) \in kept /\ new[k] = ev[Nth(kept, k)]
      /\ \A k, m \in DOMAIN new : k < m => Nth(kept, k) < Nth(kept, m)
      /\ \A n \in kept : \E k \in DOMAIN new : Nth(kept, k) = n
  BY <1>1, <1>2, SubsequenceProperties
<1>4. Latest(EventsOf(ev, l)) \in SUBSET kept /\ Latest(AcquisitionsOf(ev, l)) \in SUBSET kept
  BY <1>1 DEF ProtectedIndices
<1>5. \A k \in DOMAIN new : k \in EventsOf(new, l) <=> Nth(kept, k) \in EventsOf(ev, l)
  BY <1>1, <1>3 DEF EventsOf
<1>6. \A k \in DOMAIN new :
        k \in AcquisitionsOf(new, l) <=> Nth(kept, k) \in AcquisitionsOf(ev, l)
  BY <1>3, <1>5 DEF AcquisitionsOf
<1>7. ASSUME NEW old \in SUBSET (DOMAIN ev), NEW ks \in SUBSET (DOMAIN new),
             \A k \in DOMAIN new : k \in ks <=> Nth(kept, k) \in old,
             NEW n \in Latest(old), n \in kept
      PROVE  \E k \in Latest(ks) : new[k] = ev[n]
  <2>1. n \in old /\ \A j \in old : j <= n
    BY DEF Latest
  <2>2. PICK k \in DOMAIN new : Nth(kept, k) = n
    BY <1>3, <1>7
  <2>3. k \in ks
    BY <1>7, <2>1, <2>2
  <2>4. ASSUME NEW j \in ks PROVE j <= k
    <3>1. j \in DOMAIN new
      OBVIOUS
    <3>2. Nth(kept, j) <= n /\ Nth(kept, j) \in Int /\ n \in Int
      BY <1>2, <1>3, <1>7, <2>1, <3>1
    <3>3. k < j => n < Nth(kept, j)
      BY <1>3, <2>2, <3>1
    <3>4. QED
      BY <1>2, <3>1, <3>2, <3>3
  <2>5. k \in Latest(ks)
    BY <2>3, <2>4 DEF Latest
  <2>6. QED
    BY <1>3, <2>2, <2>5
<1>8. /\ EventsOf(ev, l) \in SUBSET (DOMAIN ev) /\ EventsOf(new, l) \in SUBSET (DOMAIN new)
      /\ AcquisitionsOf(ev, l) \in SUBSET (DOMAIN ev)
      /\ AcquisitionsOf(new, l) \in SUBSET (DOMAIN new)
  BY DEF EventsOf, AcquisitionsOf
<1>9. Latest(AcquisitionsOf(new, l)) # {}
  <2>1. PICK n \in Latest(AcquisitionsOf(ev, l)) : TRUE
    BY DEF Proves
  <2>2. \E k \in Latest(AcquisitionsOf(new, l)) : new[k] = ev[n]
    BY <1>4, <1>6, <1>7, <1>8, <2>1
  <2>3. QED
    BY <2>2
<1>10. \E k \in Latest(EventsOf(new, l)) : new[k].lease = l
  <2>1. PICK n \in Latest(EventsOf(ev, l)) : ev[n].lease = l
    BY DEF Proves
  <2>2. PICK k \in Latest(EventsOf(new, l)) : new[k] = ev[n]
    BY <1>4, <1>5, <1>7, <1>8, <2>1
  <2>3. QED
    BY <2>1, <2>2
<1>11. QED
  BY <1>9, <1>10 DEF Proves

-----------------------------------------------------------------------------
(* Adding to the history *)

\* What is added about other leases takes nothing from a proof.
LEMMA OtherEventsKeepProof ==
  ASSUME NEW ev \in Seq(EventRecord), NEW more \in Seq(EventRecord), NEW l,
         Proves(ev, l),
         \A k \in DOMAIN more : more[k].leaseId # l.lease_id
  PROVE  Proves(ev \o more, l)
<1> DEFINE new == ev \o more
<1>1. /\ DOMAIN ev = 1..Len(ev) /\ Len(ev) \in Nat
      /\ DOMAIN more = 1..Len(more) /\ Len(more) \in Nat
      /\ DOMAIN new = 1..(Len(ev) + Len(more))
      /\ \A k \in DOMAIN ev : k \in DOMAIN new /\ new[k] = ev[k]
      /\ \A k \in DOMAIN new \ DOMAIN ev :
            k - Len(ev) \in DOMAIN more /\ new[k] = more[k - Len(ev)]
  BY EventPositions
<1> HIDE DEF new
<1>2. EventsOf(new, l) = EventsOf(ev, l)
  BY <1>1 DEF EventsOf
<1>3. \A k \in EventsOf(ev, l) : new[k] = ev[k]
  BY <1>1 DEF EventsOf
<1>4. AcquisitionsOf(new, l) = AcquisitionsOf(ev, l)
  BY <1>2, <1>3 DEF AcquisitionsOf
<1>5. \A k \in Latest(EventsOf(ev, l)) : new[k] = ev[k]
  BY <1>3 DEF Latest
<1>6. QED
  BY <1>2, <1>4, <1>5 DEF Proves, new

\* An event about a lease, carrying it, is the latest word on it.
LEMMA LastEventIsLatest ==
  ASSUME NEW ev \in Seq(EventRecord), NEW e \in EventRecord, NEW l,
         e.leaseId = l.lease_id, e.lease = l
  PROVE  /\ \E k \in Latest(EventsOf(Append(ev, e), l)) : Append(ev, e)[k].lease = l
         /\ e.type = "acquire" /\ e.holder = l.holder
              => Latest(AcquisitionsOf(Append(ev, e), l)) # {}
         /\ e.type # "acquire"
              => AcquisitionsOf(Append(ev, e), l) = AcquisitionsOf(ev, l)
<1> DEFINE new == Append(ev, e)
           n == Len(ev) + 1
<1>1. /\ DOMAIN ev = 1..Len(ev) /\ Len(ev) \in Nat
      /\ DOMAIN new = 1..n /\ n \in DOMAIN new
      /\ new[n] = e
      /\ \A k \in DOMAIN ev : k \in DOMAIN new /\ new[k] = ev[k]
      /\ \A k \in DOMAIN new : k <= n
  BY EventPositions
<1> HIDE DEF new, n
<1>2. n \in EventsOf(new, l)
  BY <1>1 DEF EventsOf
<1>3. \A k \in EventsOf(new, l) : k <= n
  BY <1>1 DEF EventsOf
<1>4. n \in Latest(EventsOf(new, l))
  BY <1>2, <1>3 DEF Latest
<1>5. e.type # "acquire" => AcquisitionsOf(new, l) = AcquisitionsOf(ev, l)
  <2> SUFFICES ASSUME e.type # "acquire"
               PROVE  AcquisitionsOf(new, l) = AcquisitionsOf(ev, l)
    OBVIOUS
  <2>1. \A k \in DOMAIN new : k \in DOMAIN ev \/ k = n
    BY <1>1 DEF n
  <2>2. \A k \in AcquisitionsOf(new, l) : k \in DOMAIN ev
    BY <1>1, <2>1 DEF AcquisitionsOf, EventsOf
  <2>3. \A k \in DOMAIN ev : k \in AcquisitionsOf(new, l) <=> k \in AcquisitionsOf(ev, l)
    BY <1>1 DEF AcquisitionsOf, EventsOf
  <2>4. \A k \in AcquisitionsOf(ev, l) : k \in DOMAIN ev
    BY DEF AcquisitionsOf, EventsOf
  <2>5. QED
    BY <2>2, <2>3, <2>4
<1>6. ASSUME e.type = "acquire", e.holder = l.holder
      PROVE  Latest(AcquisitionsOf(new, l)) # {}
  <2>1. n \in AcquisitionsOf(new, l)
    BY <1>1, <1>2, <1>6 DEF AcquisitionsOf
  <2>2. AcquisitionsOf(new, l) \in SUBSET EventsOf(new, l)
    BY DEF AcquisitionsOf
  <2>3. n \in Latest(AcquisitionsOf(new, l))
    BY <1>3, <2>1, <2>2 DEF Latest
  <2>4. QED
    BY <2>3
<1>7. QED
  BY <1>1, <1>4, <1>5, <1>6 DEF new

\* The expirations of a sweep, in some order: each of a lease it removes.
LEMMA ExpireEventsShape ==
  ASSUME NEW ls \in [LeaseIds -> Lease \cup {NoLease}], NEW t \in Times,
         IsFiniteSet(Live(ls)), \A i \in Live(ls) : ls[i].lease_id = i
  PROVE  /\ ExpireEvents(ls, t) \in Seq(EventRecord)
         /\ \A k \in DOMAIN ExpireEvents(ls, t) :
              /\ ExpireEvents(ls, t)[k].leaseId \in ExpiredIds(ls, t)
              /\ ExpireEvents(ls, t)[k].recordedAt = t
<1> DEFINE S == ExpiredIds(ls, t)
           ids == SetToSeq(S)
           n == Cardinality(S)
<1>1. S \in SUBSET Live(ls) /\ Live(ls) \in SUBSET LeaseIds
  BY DEF ExpiredIds, Live
<1>2. IsFiniteSet(S) /\ n \in Nat /\ ExistsBijection(1..n, S)
  BY <1>1, FS_Subset, FS_CardinalityType
<1>3. \E f \in [1..n -> S] : IsInjective(f)
  BY <1>2 DEF ExistsBijection, Bijection, Injection, Surjection
<1>4. ids \in [1..n -> S]
  BY <1>3, Zenon DEF SetToSeq
<1> HIDE DEF ids, S, n
<1>5. \A i \in S : /\ ls[i] \in Lease /\ ls[i].lease_id = i
                   /\ Event("expire", ls[i], t) \in EventRecord
                   /\ Event("expire", ls[i], t).leaseId = i
                   /\ Event("expire", ls[i], t).recordedAt = t
  <2> TAKE i \in S
  <2>1. ls[i] \in Lease /\ ls[i].lease_id = i
    BY <1>1 DEF Live
  <2>2. i \in LeaseIds /\ ls[i].holder \in Procs
    BY <1>1, <2>1 DEF Lease
  <2>3. QED
    BY <2>1, <2>2 DEF Event, EventRecord
<1>6. ExpireEvents(ls, t) = [k \in 1..n |-> Event("expire", ls[ids[k]], t)]
  BY <1>4 DEF ExpireEvents, ids, S
<1>7. \A k \in 1..n : ids[k] \in S
  BY <1>4
<1>8. ExpireEvents(ls, t) \in [1..n -> EventRecord]
  BY <1>5, <1>6, <1>7
<1>9. \A k \in 1..n : /\ ExpireEvents(ls, t)[k].leaseId \in S
                      /\ ExpireEvents(ls, t)[k].recordedAt = t
  BY <1>5, <1>6, <1>7
<1>10. QED
  BY <1>2, <1>8, <1>9 DEF S

-----------------------------------------------------------------------------
(* The invariant of the file *)

\* What a process is about to write proves what it is about to leave live.
Record(ls, ev) ==
  /\ ev \in Seq(EventRecord)
  /\ IsFiniteSet(Live(ls))
  /\ \A i \in Live(ls) : Proves(ev, ls[i])

\* Every write replaces leases and history together, under the caps.
LEMMA CommitKeepsFile ==
  ASSUME HistoryInv, NEW p \in Procs, phase[p] = "locked",
         NEW ls, NEW ev, NEW told, Record(ls, ev), Commit(p, ls, ev, told)
  PROVE  FileOK' /\ HistoryCurrent'
<1>1. ASSUME Fits(ls, ev), leases' = ls, events' = Trim(ls, ev) PROVE FileOK'
  <2>1. PICK kept \in SUBSET (DOMAIN ev) :
           Trim(ls, ev) = Subsequence(ev, kept) /\ Cardinality(kept) <= EventCap
    BY <1>1, TrimShape DEF Record
  <2>2. Trim(ls, ev) \in Seq(EventRecord) /\ Len(Trim(ls, ev)) <= EventCap
    BY <2>1, SubsequenceType DEF Record
  <2>3. \A i \in Live(ls) : Proves(Trim(ls, ev), ls[i])
    BY <1>1, TrimKeepsProofs DEF Record
  <2>4. Live(leases') = Live(ls) /\ Cardinality(Live(ls)) <= LeaseCap
    BY <1>1 DEF Fits, Live
  <2>5. QED
    BY <1>1, <2>2, <2>3, <2>4 DEF FileOK, Record, Live, Proves, EventsOf, AcquisitionsOf
<1>2. ASSUME UNCHANGED <<leases, events>> PROVE FileOK'
  BY <1>2 DEF HistoryInv, FileOK, Live, Proves, EventsOf, AcquisitionsOf
<1>3. FileOK'
  BY <1>1, <1>2 DEF Commit
<1>4. HistoryCurrent'
  <2>1. \A q \in Procs : phase[q] = "locked" => q = p
    BY NoProcAssumption DEF HistoryInv, StoreInv, SnapshotCurrent
  <2>2. phase' = [phase EXCEPT ![p] = "idle"] /\ phase \in [Procs -> {"idle", "waiting", "locked"}]
    BY DEF Commit, Leave, HistoryInv, StoreInv, TypeOK
  <2>3. \A q \in Procs : phase'[q] # "locked"
    BY <2>1, <2>2
  <2>4. QED
    BY <2>3 DEF HistoryCurrent
<1>5. QED
  BY <1>3, <1>4

\* The sweep that precedes every decision is such a record.
LEMMA SweepIsRecord ==
  ASSUME HistoryInv, NEW p \in Procs, phase[p] = "locked"
  PROVE  /\ Record(LiveLeases(p), LiveEvents(p))
         /\ Live(LiveLeases(p)) \in SUBSET Live(leases)
<1> DEFINE more == ExpireEvents(leases, now[p])
<1>1. /\ leases \in [LeaseIds -> Lease \cup {NoLease}]
      /\ now[p] \in Times
      /\ \A i \in Live(leases) : leases[i].lease_id = i
      /\ IsFiniteSet(Live(leases))
      /\ events \in Seq(EventRecord)
      /\ snap[p].leases = leases /\ snap[p].events = events
  BY DEF HistoryInv, StoreInv, TypeOK, SnapshotCurrent, FileOK, HistoryCurrent
<1>2. LiveEvents(p) = events \o more
  BY <1>1 DEF LiveEvents
<1>3. /\ more \in Seq(EventRecord)
      /\ \A k \in DOMAIN more : more[k].leaseId \in ExpiredIds(leases, now[p])
  BY <1>1, ExpireEventsShape
<1>4. \A i \in Live(LiveLeases(p)) : /\ i \in Live(leases) /\ LiveLeases(p)[i] = leases[i]
                                     /\ i \notin ExpiredIds(leases, now[p])
  <2>1. \A i \in LeaseIds : LiveLeases(p)[i] # NoLease
          => LiveLeases(p)[i] = leases[i] /\ ~IsLeaseExpired(leases[i], now[p])
    BY LiveLeasesShape DEF HistoryInv
  <2>2. QED
    BY <2>1 DEF Live, ExpiredIds
<1> HIDE DEF more
<1>5. Live(LiveLeases(p)) \in SUBSET Live(leases)
  BY <1>4
<1>6. IsFiniteSet(Live(LiveLeases(p)))
  BY <1>1, <1>5, FS_Subset
<1>7. ASSUME NEW i \in Live(LiveLeases(p)) PROVE Proves(LiveEvents(p), LiveLeases(p)[i])
  <2>1. i \in Live(leases) /\ LiveLeases(p)[i] = leases[i] /\ leases[i].lease_id = i
    BY <1>1, <1>4
  <2>2. Proves(events, leases[i])
    BY <2>1 DEF HistoryInv, FileOK
  <2>3. \A k \in DOMAIN more : more[k].leaseId # leases[i].lease_id
    BY <1>3, <1>4, <2>1
  <2>4. QED
    BY <1>1, <1>2, <1>3, <2>1, <2>2, <2>3, OtherEventsKeepProof
<1>8. LiveEvents(p) \in Seq(EventRecord)
  BY <1>1, <1>2, <1>3
<1>9. QED
  BY <1>5, <1>6, <1>7, <1>8 DEF Record

\* Putting a lease in and recording it, as acquire and renew do.
LEMMA PutIsRecord ==
  ASSUME HistoryInv, NEW p \in Procs, phase[p] = "locked",
         NEW l \in Lease, NEW type \in {"acquire", "renew"},
         type = "renew" => /\ l.lease_id \in Live(LiveLeases(p))
                           /\ LiveLeases(p)[l.lease_id].holder = l.holder
                           /\ LiveLeases(p)[l.lease_id].acquired_at = l.acquired_at
  PROVE  Record([LiveLeases(p) EXCEPT ![l.lease_id] = l],
                Append(LiveEvents(p), Event(type, l, now[p])))
<1> DEFINE ls == LiveLeases(p)
           ev == LiveEvents(p)
           new == [ls EXCEPT ![l.lease_id] = l]
           e == Event(type, l, now[p])
<1>1. /\ Record(ls, ev) /\ ls \in [LeaseIds -> Lease \cup {NoLease}]
      /\ \A i \in Live(ls) : ls[i].lease_id = i
      /\ now[p] \in Times
  BY SweepIsRecord, LiveLeasesShape DEF HistoryInv, StoreInv, TypeOK, Proposal
<1>2. l.lease_id \in LeaseIds /\ l.holder \in Procs /\ l # NoLease
  BY NoLeaseAssumption DEF Lease
<1>3. /\ e \in EventRecord /\ e.leaseId = l.lease_id /\ e.lease = l
      /\ e.holder = l.holder /\ e.type = type
  BY <1>1, <1>2 DEF Event, EventRecord
<1> HIDE DEF ls, ev, e
<1>4. /\ ev \in Seq(EventRecord) /\ IsFiniteSet(Live(ls))
      /\ \A i \in Live(ls) : Proves(ev, ls[i])
  BY <1>1 DEF Record
<1>5. \A i \in LeaseIds : new[i] = IF i = l.lease_id THEN l ELSE ls[i]
  BY <1>1, <1>2
<1>6. Live(new) = Live(ls) \cup {l.lease_id}
  BY <1>2, <1>5 DEF Live
<1> HIDE DEF new
<1>7. IsFiniteSet(Live(new))
  BY <1>4, <1>6, FS_AddElement
<1>8. <<e>> \in Seq(EventRecord) /\ Append(ev, e) = ev \o <<e>>
  BY <1>3, <1>4
<1>9. ASSUME NEW i \in Live(new) PROVE Proves(Append(ev, e), new[i])
  <2>1. CASE i # l.lease_id
    <3>1. i \in Live(ls) /\ new[i] = ls[i] /\ ls[i].lease_id = i
      BY <1>1, <1>5, <1>6, <2>1 DEF Live
    <3>2. \A k \in DOMAIN <<e>> : <<e>>[k].leaseId # ls[i].lease_id
      BY <1>3, <2>1, <3>1
    <3>3. QED
      BY <1>4, <1>8, <3>1, <3>2, OtherEventsKeepProof
  <2>2. CASE i = l.lease_id
    <3>1. new[i] = l
      BY <1>2, <1>5, <2>2
    <3>2. /\ \E k \in Latest(EventsOf(Append(ev, e), l)) : Append(ev, e)[k].lease = l
          /\ type = "acquire" => Latest(AcquisitionsOf(Append(ev, e), l)) # {}
          /\ type # "acquire" => AcquisitionsOf(Append(ev, e), l) = AcquisitionsOf(ev, l)
      BY <1>3, <1>4, LastEventIsLatest
    <3>3. ASSUME type = "renew" PROVE Latest(AcquisitionsOf(Append(ev, e), l)) # {}
      <4>1. /\ i \in Live(ls) /\ ls[i].lease_id = l.lease_id
            /\ ls[i].holder = l.holder /\ ls[i].acquired_at = l.acquired_at
        BY <1>1, <2>2, <3>3 DEF ls
      <4>2. AcquisitionsOf(ev, l) = AcquisitionsOf(ev, ls[i])
        BY <4>1 DEF AcquisitionsOf, EventsOf
      <4>3. Latest(AcquisitionsOf(ev, ls[i])) # {}
        BY <1>4, <4>1 DEF Proves
      <4>4. QED
        BY <3>2, <3>3, <4>2, <4>3
    <3>4. QED
      BY <3>1, <3>2, <3>3 DEF Proves
  <2>3. QED
    BY <2>1, <2>2
<1>10. Append(ev, e) \in Seq(EventRecord)
  BY <1>3, <1>4
<1>11. QED
  BY <1>7, <1>9, <1>10 DEF Record, new, ls, ev, e

\* Taking a lease out and recording it, as release does.
LEMMA TakeIsRecord ==
  ASSUME HistoryInv, NEW p \in Procs, phase[p] = "locked",
         NEW id \in LeaseIds, LiveLeases(p)[id] # NoLease
  PROVE  Record([LiveLeases(p) EXCEPT ![id] = NoLease],
                Append(LiveEvents(p), Event("release", LiveLeases(p)[id], now[p])))
<1> DEFINE ls == LiveLeases(p)
           ev == LiveEvents(p)
           new == [ls EXCEPT ![id] = NoLease]
           e == Event("release", ls[id], now[p])
<1>1. /\ Record(ls, ev) /\ ls \in [LeaseIds -> Lease \cup {NoLease}]
      /\ \A i \in Live(ls) : ls[i].lease_id = i
      /\ now[p] \in Times
  BY SweepIsRecord, LiveLeasesShape DEF HistoryInv, StoreInv, TypeOK, Proposal
<1>2. ls[id] \in Lease /\ ls[id].lease_id = id /\ ls[id].holder \in Procs
  BY <1>1 DEF Live, Lease
<1>3. e \in EventRecord /\ e.leaseId = id
  BY <1>1, <1>2 DEF Event, EventRecord
<1> HIDE DEF ls, ev, e
<1>4. /\ ev \in Seq(EventRecord) /\ IsFiniteSet(Live(ls))
      /\ \A i \in Live(ls) : Proves(ev, ls[i])
  BY <1>1 DEF Record
<1>5. \A i \in Live(new) : i # id /\ i \in Live(ls) /\ new[i] = ls[i]
  BY <1>1 DEF Live
<1> HIDE DEF new
<1>6. IsFiniteSet(Live(new))
  <2>1. Live(new) \in SUBSET Live(ls)
    BY <1>5
  <2>2. QED
    BY <1>4, <2>1, FS_Subset
<1>7. <<e>> \in Seq(EventRecord) /\ Append(ev, e) = ev \o <<e>>
  BY <1>3, <1>4
<1>8. ASSUME NEW i \in Live(new) PROVE Proves(Append(ev, e), new[i])
  <2>1. i # id /\ i \in Live(ls) /\ new[i] = ls[i] /\ ls[i].lease_id = i
    BY <1>1, <1>5
  <2>2. \A k \in DOMAIN <<e>> : <<e>>[k].leaseId # ls[i].lease_id
    BY <1>3, <2>1
  <2>3. QED
    BY <1>4, <1>7, <2>1, <2>2, OtherEventsKeepProof
<1>9. Append(ev, e) \in Seq(EventRecord)
  BY <1>3, <1>4
<1>10. QED
  BY <1>6, <1>8, <1>9 DEF Record, new, ls, ev, e

LEMMA CommitStepKeepsFile ==
  ASSUME HistoryInv, NEW p \in Procs,
         \/ AcquireGranted(p) \/ AcquireConflict(p)
         \/ RenewGranted(p) \/ RenewNotFound(p)
         \/ ReleaseGranted(p) \/ ReleaseNotFound(p) \/ Expire(p)
  PROVE  FileOK' /\ HistoryCurrent'
<1>1. phase[p] = "locked" /\ call[p] \in Call /\ StoreInv /\ now[p] \in Times
  BY DEF AcquireGranted, AcquireConflict, RenewGranted, RenewNotFound,
         ReleaseGranted, ReleaseNotFound, Expire, Calling,
         HistoryInv, StoreInv, TypeOK
<1>2. Record(LiveLeases(p), LiveEvents(p))
  BY <1>1, SweepIsRecord
<1>3. CASE AcquireGranted(p)
  <2>1. call[p].id \in LeaseIds /\ call[p].req \in Requests
    BY <1>1, <1>3, CallFields DEF AcquireGranted, Calling
  <2>2. NewLease(p) \in Lease
    BY <1>1, <2>1, RequestAssumption DEF NewLease, Lease
  <2>3. Record([LiveLeases(p) EXCEPT ![NewLease(p).lease_id] = NewLease(p)],
               Append(LiveEvents(p), Event("acquire", NewLease(p), now[p])))
    BY <1>1, <2>2, PutIsRecord
  <2>4. QED
    BY <1>1, <1>3, <2>3, CommitKeepsFile DEF AcquireGranted
<1>4. CASE RenewGranted(p)
  <2> DEFINE id == call[p].id
             l == LiveLeases(p)[id]
  <2>1. id \in LeaseIds /\ l # NoLease /\ Renewed(p) \in Lease
    BY <1>1, <1>4, CallFields, RenewIsProposal DEF RenewGranted, Calling
  <2>2. id \in Live(LiveLeases(p)) /\ l \in Lease /\ l.lease_id = id
    BY <1>1, <2>1, LiveLeasesShape DEF Live, Proposal
  <2>3. /\ Renewed(p).lease_id = id
        /\ Renewed(p).holder = l.holder
        /\ Renewed(p).acquired_at = l.acquired_at
    BY <2>2 DEF Renewed, Lease
  <2>4. Record([LiveLeases(p) EXCEPT ![id] = Renewed(p)],
               Append(LiveEvents(p), Event("renew", Renewed(p), now[p])))
    BY <1>1, <2>1, <2>2, <2>3, PutIsRecord
  <2>5. QED
    BY <1>1, <1>4, <2>4, CommitKeepsFile DEF RenewGranted
<1>5. CASE ReleaseGranted(p)
  <2>1. call[p].id \in LeaseIds /\ LiveLeases(p)[call[p].id] # NoLease
    BY <1>1, <1>5, CallFields DEF ReleaseGranted, Calling
  <2>2. QED
    BY <1>1, <1>5, <2>1, TakeIsRecord, CommitKeepsFile DEF ReleaseGranted
<1>6. CASE AcquireConflict(p)
  BY <1>1, <1>2, <1>6, CommitKeepsFile DEF AcquireConflict
<1>7. CASE RenewNotFound(p)
  BY <1>1, <1>2, <1>7, CommitKeepsFile DEF RenewNotFound
<1>8. CASE ReleaseNotFound(p)
  BY <1>1, <1>2, <1>8, CommitKeepsFile DEF ReleaseNotFound
<1>9. CASE Expire(p)
  BY <1>1, <1>2, <1>9, CommitKeepsFile DEF Expire
<1>10. QED
  BY <1>3, <1>4, <1>5, <1>6, <1>7, <1>8, <1>9

LEMMA QuietStepKeepsFile ==
  ASSUME HistoryInv, NEW p \in Procs,
         \/ \E c \in Call : Begin(p, c)
         \/ Enter(p) \/ LockTimeout(p) \/ NotHolder(p) \/ Crash(p)
  PROVE  FileOK' /\ HistoryCurrent'
<1>1. /\ leases' = leases /\ events' = events
      /\ phase \in [Procs -> {"idle", "waiting", "locked"}] /\ DOMAIN snap = Procs
      /\ HistoryCurrent
  BY DEF Begin, Enter, LockTimeout, NotHolder, Leave, Crash, HistoryInv, StoreInv, TypeOK
<1>2. FileOK'
  BY <1>1 DEF HistoryInv, FileOK, Live, Proves, EventsOf, AcquisitionsOf
<1>3. ASSUME NEW c \in Call, Begin(p, c) PROVE HistoryCurrent'
  BY <1>1, <1>3 DEF Begin, HistoryCurrent
<1>4. ASSUME \A q \in Procs : phase'[q] = "locked" =>
               /\ q # p => phase[q] = "locked" /\ snap'[q] = snap[q]
               /\ q = p => snap'[q].events = events
      PROVE  HistoryCurrent'
  BY <1>1, <1>4 DEF HistoryCurrent
<1>5. CASE Enter(p)
  <2>1. phase' = [phase EXCEPT ![p] = "locked"]
        /\ snap' = [snap EXCEPT ![p] = [leases |-> leases, events |-> events]]
    BY <1>5 DEF Enter
  <2>2. snap'[p] = [leases |-> leases, events |-> events]
    BY <1>1, <2>1
  <2>3. snap'[p].events = events
    BY <2>2
  <2>4. \A q \in Procs \ {p} : phase'[q] = phase[q] /\ snap'[q] = snap[q]
    BY <1>1, <2>1
  <2>5. QED
    BY <1>2, <1>4, <2>3, <2>4
<1>6. CASE LockTimeout(p) \/ NotHolder(p) \/ Crash(p)
  <2>1. phase' = [phase EXCEPT ![p] = "idle"] /\ (snap' = snap \/ snap' = [snap EXCEPT ![p] = NoSnap])
    BY <1>6 DEF LockTimeout, NotHolder, Leave, Crash
  <2>2. \A q \in Procs : phase'[q] = "locked"
                         => q # p /\ phase[q] = "locked" /\ snap'[q] = snap[q]
    BY <1>1, <2>1
  <2>3. QED
    BY <1>2, <1>4, <2>2
<1>7. QED
  BY <1>2, <1>3, <1>5, <1>6

LEMMA NextKeepsHistoryInv == HistoryInv /\ [Next]_vars => HistoryInv'
<1> SUFFICES ASSUME HistoryInv, [Next]_vars PROVE HistoryInv'
  OBVIOUS
<1>1. StoreInv'
  BY NextKeepsStoreInv DEF HistoryInv
<1>2. ASSUME NEW t \in Times, Tick(t) PROVE FileOK' /\ HistoryCurrent'
  BY <1>2 DEF Tick, HistoryInv, FileOK, HistoryCurrent, Live, Proves, EventsOf, AcquisitionsOf
<1>3. CASE UNCHANGED vars
  BY <1>1, <1>3 DEF vars, HistoryInv, FileOK, HistoryCurrent, Live, Proves, EventsOf,
                    AcquisitionsOf
<1>4. QED
  BY <1>1, <1>2, <1>3, QuietStepKeepsFile, CommitStepKeepsFile DEF Next, HistoryInv

LEMMA InitHistoryInv == Init => HistoryInv
<1> SUFFICES ASSUME Init PROVE HistoryInv
  OBVIOUS
<1>1. Live(leases) = {} /\ events = <<>>
  BY DEF Init, NoLeases, Live
<1>2. FileOK
  BY <1>1, FS_EmptySet, BoundsAssumption DEF FileOK
<1>3. HistoryCurrent
  BY DEF Init, HistoryCurrent
<1>4. QED
  BY <1>2, <1>3, InitStoreInv DEF HistoryInv

\* However much of the history writeState trimmed, it still shows the
\* acquisition and the current shape of every live lease, within its cap.
THEOREM HistoryProvesLeasesHolds == Spec => []HistoryProvesLeases
<1>1. HistoryInv => HistoryProvesLeases
  <2> SUFFICES ASSUME HistoryInv, NEW i \in Live(leases)
               PROVE  /\ AcquisitionsOf(events, leases[i]) # {}
                      /\ \E k \in Latest(EventsOf(events, leases[i])) :
                           events[k].lease = leases[i]
    BY DEF HistoryInv, FileOK, HistoryProvesLeases
  <2>1. Proves(events, leases[i])
    BY DEF HistoryInv, FileOK
  <2>2. QED
    BY <2>1 DEF Proves, Latest
<1>2. QED
  BY <1>1, InitHistoryInv, NextKeepsHistoryInv, PTL DEF Spec

\* Giving a live lease back always passes writeState's capacity checks: the
\* release event itself is the only one that need not be kept.
THEOREM ReleaseAlwaysFitsHolds == Spec => []ReleaseAlwaysFits
<1>1. HistoryInv => ReleaseAlwaysFits
  <2> SUFFICES ASSUME HistoryInv, NEW i \in Live(leases)
               PROVE  Fits([leases EXCEPT ![i] = NoLease],
                           Append(events, Event("release", leases[i], clock)))
    BY DEF ReleaseAlwaysFits
  <2> DEFINE ls == [leases EXCEPT ![i] = NoLease]
             e == Event("release", leases[i], clock)
             ev == Append(events, e)
  <2>1. /\ leases \in [LeaseIds -> Lease \cup {NoLease}] /\ i \in LeaseIds
        /\ \A j \in Live(leases) : leases[j].lease_id = j
        /\ IsFiniteSet(Live(leases)) /\ Cardinality(Live(leases)) <= LeaseCap
        /\ events \in Seq(EventRecord) /\ Len(events) <= EventCap
    BY DEF HistoryInv, FileOK, StoreInv, TypeOK, Live
  <2>2. e.leaseId = i
    BY <2>1 DEF Event
  <2> HIDE DEF e
  <2>3. \A j \in Live(ls) : j # i /\ j \in Live(leases) /\ ls[j] = leases[j]
    BY <2>1 DEF Live
  <2> HIDE DEF ls
  <2>4. Cardinality(Live(ls)) <= LeaseCap
    <3>1. Live(ls) \in SUBSET Live(leases)
      BY <2>3
    <3>2. Cardinality(Live(ls)) <= Cardinality(Live(leases)) /\ IsFiniteSet(Live(ls))
      BY <2>1, <3>1, FS_Subset
    <3>3. Cardinality(Live(ls)) \in Nat /\ Cardinality(Live(leases)) \in Nat
      BY <2>1, <3>2, FS_CardinalityType
    <3>4. QED
      BY <2>1, <3>2, <3>3, BoundsAssumption
  <2>5. /\ DOMAIN events = 1..Len(events) /\ Len(events) \in Nat
        /\ DOMAIN ev = 1..(Len(events) + 1)
        /\ ev[Len(events) + 1] = e
    BY <2>1
  <2>6. \A j \in Live(ls) : EventsOf(ev, ls[j]) \in SUBSET (DOMAIN events)
    <3> SUFFICES ASSUME NEW j \in Live(ls), NEW k \in EventsOf(ev, ls[j])
                 PROVE  k \in DOMAIN events
      OBVIOUS
    <3>1. k \in DOMAIN ev /\ ev[k].leaseId = ls[j].lease_id /\ ls[j].lease_id = j /\ j # i
      BY <2>1, <2>3 DEF EventsOf
    <3>2. k # Len(events) + 1
      BY <2>2, <2>5, <3>1
    <3>3. QED
      BY <2>5, <3>1, <3>2
  <2>7. ProtectedIndices(ls, ev) \in SUBSET (DOMAIN events)
    <3>1. \A j \in Live(ls) : Latest(EventsOf(ev, ls[j])) \cup Latest(AcquisitionsOf(ev, ls[j]))
                              \in SUBSET (DOMAIN events)
      BY <2>6 DEF Latest, AcquisitionsOf
    <3>2. QED
      BY <3>1 DEF ProtectedIndices
  <2>8. Cardinality(ProtectedIndices(ls, ev)) <= EventCap
    <3>1. IsFiniteSet(1..Len(events)) /\ Cardinality(1..Len(events)) = Len(events)
      <4>1. Len(events) \in Nat
        BY <2>5
      <4>2. QED
        BY <4>1, Positions
    <3>2. /\ IsFiniteSet(ProtectedIndices(ls, ev))
          /\ Cardinality(ProtectedIndices(ls, ev)) <= Len(events)
      BY <2>5, <2>7, <3>1, FS_Subset
    <3>3. Cardinality(ProtectedIndices(ls, ev)) \in Nat
      BY <3>2, FS_CardinalityType
    <3>4. QED
      BY <2>1, <2>5, <3>2, <3>3, BoundsAssumption
  <2>9. QED
    BY <2>4, <2>8 DEF Fits, ls, e
<1>2. QED
  BY <1>1, InitHistoryInv, NextKeepsHistoryInv, PTL DEF Spec

-----------------------------------------------------------------------------
(* The order of the history, when the clock is never set back *)

InOrder(ev) ==
  \A k, m \in DOMAIN ev : k < m => ev[k].recordedAt <= ev[m].recordedAt
Until(ev, t) == \A k \in DOMAIN ev : ev[k].recordedAt <= t

\* expire stamps its events with a clock it read before it waited for the
\* lock.  The order survives because it stamps only leases that are over at
\* that clock, and nothing is recorded later than a live lease's expiry: every
\* write sweeps first.
Timed ==
  /\ InOrder(events)
  /\ Until(events, clock)
  /\ \A i \in Live(leases) : Until(events, ExpiresAt(leases[i]))
  /\ \A p \in Procs : phase[p] = "locked" /\ call[p].op # "expire"
                         => Until(events, now[p])

TimeInv == HistoryInv /\ BeliefInv /\ Timed

LEMMA TimesAreIntegers == /\ \A t \in Times : t \in Int
                          /\ \A l \in Lease : ExpiresAt(l) \in Int
                          /\ \A e \in EventRecord : e.recordedAt \in Int
<1>1. \A t \in Times : t \in Int
  BY BoundsAssumption DEF Times
<1>2. \A l \in Lease : l.heartbeat_at \in Times /\ l.ttl \in Ttls
  BY DEF Lease
<1>3. \A e \in EventRecord : e.recordedAt \in Times
  BY DEF EventRecord
<1>4. \A t \in Ttls : t \in Int
  BY BoundsAssumption
<1>5. QED
  BY <1>1, <1>2, <1>3, <1>4 DEF ExpiresAt

LEMMA TrimKeepsOrder ==
  ASSUME NEW ls, NEW ev \in Seq(EventRecord), Fits(ls, ev), InOrder(ev)
  PROVE  InOrder(Trim(ls, ev)) /\ \A t : Until(ev, t) => Until(Trim(ls, ev), t)
<1> DEFINE new == Trim(ls, ev)
<1>1. PICK kept \in SUBSET (DOMAIN ev) : new = Subsequence(ev, kept)
  BY TrimShape
<1>2. kept \in SUBSET Int /\ IsFiniteSet(kept)
  BY <1>1, SubsequenceType
<1>3. /\ \A k \in DOMAIN new : Nth(kept, k) \in kept /\ new[k] = ev[Nth(kept, k)]
      /\ \A k, m \in DOMAIN new : k < m => Nth(kept, k) < Nth(kept, m)
  BY <1>1, <1>2, SubsequenceProperties
<1> HIDE DEF new
<1>4. \A k \in DOMAIN new : Nth(kept, k) \in DOMAIN ev
  BY <1>3
<1>5. InOrder(new)
  BY <1>3, <1>4 DEF InOrder
<1>6. \A t : Until(ev, t) => Until(new, t)
  BY <1>3, <1>4 DEF Until
<1>7. QED
  BY <1>5, <1>6 DEF new

LEMMA AddedInOrder ==
  ASSUME NEW ev \in Seq(EventRecord), NEW more \in Seq(EventRecord),
         NEW t \in Times, InOrder(ev),
         \A k \in DOMAIN more : more[k].recordedAt = t,
         more # <<>> => Until(ev, t)
  PROVE  /\ InOrder(ev \o more)
         /\ \A u \in Int : Until(ev, u) /\ (more # <<>> => t <= u) => Until(ev \o more, u)
<1> DEFINE new == ev \o more
<1>1. /\ DOMAIN ev = 1..Len(ev) /\ Len(ev) \in Nat
      /\ DOMAIN more = 1..Len(more) /\ Len(more) \in Nat
      /\ DOMAIN new = 1..(Len(ev) + Len(more))
      /\ \A k \in DOMAIN ev : k \in DOMAIN new /\ new[k] = ev[k]
      /\ \A k \in DOMAIN new \ DOMAIN ev :
            k - Len(ev) \in DOMAIN more /\ new[k] = more[k - Len(ev)]
  BY EventPositions
<1>2. \A k \in DOMAIN more : more # <<>>
  OBVIOUS
<1> HIDE DEF new
<1>3. \A k \in DOMAIN new \ DOMAIN ev : new[k].recordedAt = t /\ more # <<>>
  BY <1>1, <1>2
<1>4. \A k \in DOMAIN ev : new[k].recordedAt = ev[k].recordedAt
  BY <1>1
<1>5. t \in Int /\ \A k \in DOMAIN ev : ev[k].recordedAt \in Int
  BY EventPositions, TimesAreIntegers
<1>6. ASSUME NEW k \in DOMAIN new, NEW m \in DOMAIN new, k < m
      PROVE  new[k].recordedAt <= new[m].recordedAt
  <2>1. CASE m \in DOMAIN ev
    <3>1. k \in DOMAIN ev
      BY <1>1, <1>6, <2>1
    <3>2. QED
      BY <1>4, <1>6, <2>1, <3>1 DEF InOrder
  <2>2. CASE m \notin DOMAIN ev
    <3>1. new[m].recordedAt = t /\ Until(ev, t)
      BY <1>3, <2>2
    <3>2. k \in DOMAIN ev => new[k].recordedAt <= t
      BY <1>4, <3>1 DEF Until
    <3>3. QED
      BY <1>3, <1>5, <3>1, <3>2
  <2>3. QED
    BY <2>1, <2>2
<1>7. ASSUME NEW u \in Int, Until(ev, u), more # <<>> => t <= u, NEW k \in DOMAIN new
      PROVE  new[k].recordedAt <= u
  <2>1. CASE k \in DOMAIN ev
    BY <1>4, <1>7, <2>1 DEF Until
  <2>2. CASE k \notin DOMAIN ev
    BY <1>3, <1>7, <2>2
  <2>3. QED
    BY <2>1, <2>2
<1>8. QED
  BY <1>6, <1>7 DEF InOrder, Until, new

\* A history that may be written with these leases.
Writable(ls, ev) ==
  /\ ev \in Seq(EventRecord) /\ InOrder(ev) /\ Until(ev, clock)
  /\ \A i \in Live(ls) : Until(ev, ExpiresAt(ls[i]))

LEMMA CommitKeepsTimed ==
  ASSUME TimeInv, NEW p \in Procs, phase[p] = "locked",
         NEW ls, NEW ev, NEW told, Commit(p, ls, ev, told), Writable(ls, ev)
  PROVE  Timed'
<1>1. \A q \in Procs : phase'[q] # "locked"
  <2>1. \A q \in Procs : phase[q] = "locked" => q = p
    BY NoProcAssumption DEF TimeInv, HistoryInv, StoreInv, SnapshotCurrent
  <2>2. phase' = [phase EXCEPT ![p] = "idle"] /\ phase \in [Procs -> {"idle", "waiting", "locked"}]
    BY DEF Commit, Leave, TimeInv, HistoryInv, StoreInv, TypeOK
  <2>3. QED
    BY <2>1, <2>2
<1>2. clock' = clock
  BY DEF Commit, Leave
<1>3. CASE UNCHANGED <<leases, events>>
  BY <1>1, <1>2, <1>3 DEF TimeInv, Timed, InOrder, Until, Live, ExpiresAt
<1>4. CASE Fits(ls, ev) /\ leases' = ls /\ events' = Trim(ls, ev)
  <2>1. InOrder(events') /\ Until(events', clock)
    BY <1>4, TrimKeepsOrder DEF Writable
  <2>2. \A i \in Live(ls) : Until(events', ExpiresAt(ls[i]))
    BY <1>4, TrimKeepsOrder DEF Writable
  <2>3. QED
    BY <1>1, <1>2, <1>4, <2>1, <2>2 DEF Timed, InOrder, Until, Live, ExpiresAt
<1>5. QED
  BY <1>3, <1>4 DEF Commit

\* The sweep keeps the order, whichever clock it uses.
LEMMA SweepTimed ==
  ASSUME TimeInv, NEW p \in Procs, phase[p] = "locked"
  PROVE  /\ LiveEvents(p) \in Seq(EventRecord)
         /\ InOrder(LiveEvents(p))
         /\ Until(LiveEvents(p), clock)
         /\ \A i \in Live(LiveLeases(p)) : Until(LiveEvents(p), ExpiresAt(LiveLeases(p)[i]))
         /\ call[p].op # "expire" => Until(LiveEvents(p), now[p])
<1> DEFINE more == ExpireEvents(leases, now[p])
<1>1. /\ leases \in [LeaseIds -> Lease \cup {NoLease}]
      /\ now[p] \in Times /\ clock \in Times /\ now[p] <= clock
      /\ \A i \in Live(leases) : leases[i].lease_id = i /\ leases[i] \in Lease
      /\ IsFiniteSet(Live(leases))
      /\ events \in Seq(EventRecord)
      /\ snap[p].leases = leases /\ snap[p].events = events
  BY DEF TimeInv, BeliefInv, ClockAhead, HistoryInv, StoreInv, TypeOK, SnapshotCurrent, FileOK,
         HistoryCurrent, Live
<1>2. LiveEvents(p) = events \o more
  BY <1>1 DEF LiveEvents
<1>3. /\ more \in Seq(EventRecord)
      /\ \A k \in DOMAIN more : /\ more[k].leaseId \in ExpiredIds(leases, now[p])
                                /\ more[k].recordedAt = now[p]
  BY <1>1, ExpireEventsShape
<1>4. now[p] \in Int /\ clock \in Int
  BY <1>1, TimesAreIntegers
<1>5. InOrder(events) /\ Until(events, clock)
  BY DEF TimeInv, Timed
<1>6. \A i \in Live(leases) : Until(events, ExpiresAt(leases[i]))
  BY DEF TimeInv, Timed
<1>7. ASSUME more # <<>> PROVE Until(events, now[p])
  <2>1. PICK k \in DOMAIN more : TRUE
    BY <1>3, <1>7
  <2>2. PICK i \in Live(leases) : now[p] >= ExpiresAt(leases[i])
    BY <1>3, <2>1 DEF ExpiredIds, IsLeaseExpired
  <2>3. ExpiresAt(leases[i]) \in Int /\ ExpiresAt(leases[i]) <= now[p]
    BY <1>1, <1>4, <2>2, TimesAreIntegers
  <2>4. \A n \in DOMAIN events : events[n].recordedAt \in Int
    BY <1>1, EventPositions, TimesAreIntegers
  <2>5. QED
    BY <1>4, <1>6, <2>3, <2>4 DEF Until
<1>8. /\ InOrder(LiveEvents(p))
      /\ \A u \in Int : Until(events, u) /\ (more # <<>> => now[p] <= u)
                        => Until(LiveEvents(p), u)
  BY <1>1, <1>2, <1>3, <1>5, <1>7, AddedInOrder
<1> HIDE DEF more
<1>9. Until(LiveEvents(p), clock)
  BY <1>1, <1>4, <1>5, <1>8
<1>10. ASSUME NEW i \in Live(LiveLeases(p))
       PROVE  Until(LiveEvents(p), ExpiresAt(LiveLeases(p)[i]))
  <2>1. i \in LeaseIds /\ LiveLeases(p)[i] # NoLease
    BY DEF Live
  <2>2. LiveLeases(p)[i] = leases[i] /\ ~IsLeaseExpired(leases[i], now[p])
    BY <2>1, LiveLeasesShape DEF TimeInv, HistoryInv
  <2>3. i \in Live(leases) /\ ExpiresAt(leases[i]) \in Int
    BY <1>1, <2>1, <2>2, TimesAreIntegers DEF Live
  <2>4. now[p] <= ExpiresAt(leases[i])
    BY <1>4, <2>2, <2>3 DEF IsLeaseExpired
  <2>5. QED
    BY <1>6, <1>8, <2>2, <2>3, <2>4
<1>11. ASSUME call[p].op # "expire" PROVE Until(LiveEvents(p), now[p])
  <2>1. Until(events, now[p])
    BY <1>11 DEF TimeInv, Timed
  <2>2. QED
    BY <1>4, <1>8, <2>1
<1>12. QED
  BY <1>1, <1>2, <1>3, <1>8, <1>9, <1>10, <1>11

\* A decision leaves a lease as the sweep left it or beats its heart now.
Beaten(p, ls) ==
  \A i \in Live(ls) : \/ i \in Live(LiveLeases(p)) /\ ls[i] = LiveLeases(p)[i]
                      \/ ls[i] \in Lease /\ ls[i].heartbeat_at = now[p]

\* So does the event of a grant, a renewal or a release.
LEMMA DecisionTimed ==
  ASSUME TimeInv, NEW p \in Procs, phase[p] = "locked", call[p].op # "expire",
         NEW e \in EventRecord, e.recordedAt = now[p], NEW ls, Beaten(p, ls)
  PROVE  Writable(ls, Append(LiveEvents(p), e))
<1> DEFINE ev == LiveEvents(p)
<1>1. /\ ev \in Seq(EventRecord) /\ InOrder(ev) /\ Until(ev, clock) /\ Until(ev, now[p])
      /\ \A i \in Live(LiveLeases(p)) : Until(ev, ExpiresAt(LiveLeases(p)[i]))
  BY SweepTimed
<1>2. /\ now[p] \in Times /\ now[p] \in Int /\ clock \in Int /\ now[p] <= clock
      /\ leases \in [LeaseIds -> Lease \cup {NoLease}]
  BY TimesAreIntegers DEF TimeInv, BeliefInv, ClockAhead, HistoryInv, StoreInv, TypeOK
<1> HIDE DEF ev
<1>3. <<e>> \in Seq(EventRecord) /\ Append(ev, e) = ev \o <<e>>
      /\ \A k \in DOMAIN <<e>> : <<e>>[k].recordedAt = now[p]
  BY <1>1
<1>4. /\ InOrder(Append(ev, e))
      /\ \A u \in Int : Until(ev, u) /\ now[p] <= u => Until(Append(ev, e), u)
  BY <1>1, <1>2, <1>3, AddedInOrder
<1>5. ASSUME NEW i \in Live(ls) PROVE Until(Append(ev, e), ExpiresAt(ls[i]))
  <2>1. CASE i \in Live(LiveLeases(p)) /\ ls[i] = LiveLeases(p)[i]
    <3>1. /\ i \in LeaseIds /\ LiveLeases(p)[i] # NoLease
          /\ LiveLeases(p)[i] = leases[i] /\ ~IsLeaseExpired(leases[i], now[p])
      BY <2>1, LiveLeasesShape DEF Live, TimeInv, HistoryInv
    <3>2. ExpiresAt(ls[i]) \in Int /\ now[p] <= ExpiresAt(ls[i])
      BY <1>2, <2>1, <3>1, TimesAreIntegers DEF IsLeaseExpired
    <3>3. QED
      BY <1>1, <1>4, <2>1, <3>2
  <2>2. CASE ls[i] \in Lease /\ ls[i].heartbeat_at = now[p]
    <3>1. ls[i].ttl \in Nat
      BY <2>2, BoundsAssumption DEF Lease
    <3>2. now[p] <= ExpiresAt(ls[i]) /\ ExpiresAt(ls[i]) \in Int
      BY <1>2, <2>2, <3>1 DEF ExpiresAt
    <3>3. Until(ev, ExpiresAt(ls[i]))
      <4>1. \A k \in DOMAIN ev : ev[k].recordedAt \in Int
        BY <1>1, EventPositions, TimesAreIntegers
      <4>2. QED
        BY <1>1, <1>2, <3>2, <4>1 DEF Until
    <3>4. QED
      BY <1>4, <3>2, <3>3
  <2>3. QED
    BY <2>1, <2>2 DEF Beaten
<1>6. Until(Append(ev, e), clock) /\ Append(ev, e) \in Seq(EventRecord)
  BY <1>1, <1>2, <1>4
<1>7. QED
  BY <1>4, <1>5, <1>6 DEF ev, Writable

LEMMA CommitStepKeepsTimed ==
  ASSUME TimeInv, NEW p \in Procs,
         \/ AcquireGranted(p) \/ AcquireConflict(p)
         \/ RenewGranted(p) \/ RenewNotFound(p)
         \/ ReleaseGranted(p) \/ ReleaseNotFound(p) \/ Expire(p)
  PROVE  Timed'
<1> DEFINE ls == LiveLeases(p)
<1>1. phase[p] = "locked" /\ call[p] \in Call /\ StoreInv /\ now[p] \in Times
  BY DEF AcquireGranted, AcquireConflict, RenewGranted, RenewNotFound,
         ReleaseGranted, ReleaseNotFound, Expire, Calling,
         TimeInv, HistoryInv, StoreInv, TypeOK
<1>2. /\ ls \in [LeaseIds -> Lease \cup {NoLease}]
      /\ \A i \in Live(ls) : ls[i].lease_id = i
  BY <1>1, LiveLeasesShape DEF Proposal
<1>3. CASE AcquireGranted(p)
  <2> DEFINE l == NewLease(p)
             new == [ls EXCEPT ![l.lease_id] = l]
             e == Event("acquire", l, now[p])
  <2>1. call[p].id \in LeaseIds /\ call[p].req \in Requests /\ call[p].op # "expire"
    BY <1>1, <1>3, CallFields DEF AcquireGranted, Calling
  <2>2. /\ l \in Lease /\ l.heartbeat_at = now[p]
        /\ l.lease_id \in LeaseIds /\ l.holder \in Procs
    BY <1>1, <2>1, RequestAssumption DEF NewLease, Lease
  <2>3. Commit(p, new, Append(LiveEvents(p), e), [belief[p] EXCEPT ![l.lease_id] = l])
    BY <1>3 DEF AcquireGranted
  <2> HIDE DEF ls, l
  <2>4. e \in EventRecord /\ e.recordedAt = now[p]
    BY <1>1, <2>2 DEF Event, EventRecord
  <2>5. \A i \in Live(new) : \/ i \in Live(ls) /\ new[i] = ls[i]
                             \/ new[i] \in Lease /\ new[i].heartbeat_at = now[p]
    BY <1>2, <2>2 DEF Live
  <2> HIDE DEF new, e
  <2>6. Beaten(p, new)
    BY <2>5 DEF Beaten, ls
  <2>7. QED
    BY <1>1, <2>1, <2>3, <2>4, <2>6, DecisionTimed, CommitKeepsTimed
<1>4. CASE RenewGranted(p)
  <2> DEFINE id == call[p].id
             l == Renewed(p)
             new == [ls EXCEPT ![id] = l]
             e == Event("renew", l, now[p])
  <2>1. /\ id \in LeaseIds /\ ls[id] # NoLease /\ l \in Lease /\ call[p].op # "expire"
        /\ call[p].ttl \in Ttls
    BY <1>1, <1>4, CallFields, RenewIsProposal DEF RenewGranted, Calling
  <2>2. l.heartbeat_at = now[p] /\ l.lease_id \in LeaseIds /\ l.holder \in Procs
    BY <1>2, <2>1 DEF Renewed, Lease
  <2>3. Commit(p, new, Append(LiveEvents(p), e), [belief[p] EXCEPT ![id] = l])
    BY <1>4 DEF RenewGranted
  <2> HIDE DEF ls, l, id
  <2>4. e \in EventRecord /\ e.recordedAt = now[p]
    BY <1>1, <2>1, <2>2 DEF Event, EventRecord
  <2>5. \A i \in Live(new) : \/ i \in Live(ls) /\ new[i] = ls[i]
                             \/ new[i] \in Lease /\ new[i].heartbeat_at = now[p]
    BY <1>2, <2>1, <2>2 DEF Live
  <2> HIDE DEF new, e
  <2>6. Beaten(p, new)
    BY <2>5 DEF Beaten, ls
  <2>7. QED
    BY <1>1, <2>1, <2>3, <2>4, <2>6, DecisionTimed, CommitKeepsTimed
<1>5. CASE ReleaseGranted(p)
  <2> DEFINE id == call[p].id
             new == [ls EXCEPT ![id] = NoLease]
             e == Event("release", ls[id], now[p])
  <2>1. id \in LeaseIds /\ ls[id] # NoLease /\ call[p].op # "expire"
    BY <1>1, <1>5, CallFields DEF ReleaseGranted, Calling
  <2>2. ls[id] \in Lease /\ ls[id].lease_id \in LeaseIds /\ ls[id].holder \in Procs
    BY <1>2, <2>1 DEF Lease
  <2>3. Commit(p, new, Append(LiveEvents(p), e), belief[p])
    BY <1>5 DEF ReleaseGranted
  <2> HIDE DEF ls, id
  <2>4. e \in EventRecord /\ e.recordedAt = now[p]
    BY <1>1, <2>2 DEF Event, EventRecord
  <2>5. \A i \in Live(new) : i \in Live(ls) /\ new[i] = ls[i]
    BY <1>2, <2>1 DEF Live
  <2> HIDE DEF new, e
  <2>6. Beaten(p, new)
    BY <2>5 DEF Beaten, ls
  <2>7. QED
    BY <1>1, <2>1, <2>3, <2>4, <2>6, DecisionTimed, CommitKeepsTimed
<1>6. CASE AcquireConflict(p) \/ RenewNotFound(p) \/ ReleaseNotFound(p) \/ Expire(p)
  <2>1. PICK told : Commit(p, LiveLeases(p), LiveEvents(p), told)
    BY <1>6 DEF AcquireConflict, RenewNotFound, ReleaseNotFound, Expire
  <2>2. QED
    BY <1>1, <2>1, SweepTimed, CommitKeepsTimed DEF Writable
<1>7. QED
  BY <1>3, <1>4, <1>5, <1>6

LEMMA QuietStepKeepsTimed ==
  ASSUME TimeInv, NEW p \in Procs,
         \/ \E c \in Call : Begin(p, c)
         \/ Enter(p) \/ LockTimeout(p) \/ NotHolder(p) \/ Crash(p)
  PROVE  Timed'
<1>1. /\ leases' = leases /\ events' = events /\ clock' = clock
      /\ phase \in [Procs -> {"idle", "waiting", "locked"}]
      /\ DOMAIN call = Procs /\ DOMAIN now = Procs
  BY DEF Begin, Enter, LockTimeout, NotHolder, Leave, Crash, TimeInv, HistoryInv, StoreInv, TypeOK
<1>2. InOrder(events') /\ Until(events', clock')
      /\ \A i \in Live(leases') : Until(events', ExpiresAt(leases'[i]))
  BY <1>1 DEF TimeInv, Timed, InOrder, Until, Live, ExpiresAt
<1>3. ASSUME \A q \in Procs : phase'[q] = "locked" /\ call'[q].op # "expire" =>
               \/ now'[q] = clock
               \/ phase[q] = "locked" /\ call'[q] = call[q] /\ now'[q] = now[q]
      PROVE  Timed'
  <2>1. \A q \in Procs : phase'[q] = "locked" /\ call'[q].op # "expire"
                         => Until(events', now'[q])
    BY <1>1, <1>2, <1>3 DEF TimeInv, Timed, Until
  <2>2. QED
    BY <1>2, <2>1 DEF Timed, InOrder, Until, Live, ExpiresAt
<1>4. ASSUME NEW c \in Call, Begin(p, c) PROVE Timed'
  <2>1. /\ phase' = [phase EXCEPT ![p] = "waiting"] /\ call' = [call EXCEPT ![p] = c]
        /\ now' = [now EXCEPT ![p] = clock]
    BY <1>4 DEF Begin
  <2>2. \A q \in Procs : phase'[q] = "locked"
          => phase[q] = "locked" /\ call'[q] = call[q] /\ now'[q] = now[q]
    BY <1>1, <2>1
  <2>3. QED
    BY <1>3, <2>2
<1>5. CASE Enter(p)
  <2>1. /\ phase' = [phase EXCEPT ![p] = "locked"] /\ call' = call
        /\ now' = [now EXCEPT ![p] = IF call[p].op = "expire" THEN @ ELSE clock]
    BY <1>5 DEF Enter
  <2>2. \A q \in Procs : /\ q # p => phase'[q] = phase[q] /\ now'[q] = now[q]
                         /\ q = p /\ call'[q].op # "expire" => now'[q] = clock
    BY <1>1, <2>1
  <2>3. QED
    BY <1>3, <2>1, <2>2
<1>6. CASE LockTimeout(p) \/ NotHolder(p) \/ Crash(p)
  <2>1. /\ phase' = [phase EXCEPT ![p] = "idle"] /\ call' = [call EXCEPT ![p] = NoCall]
        /\ now' = [now EXCEPT ![p] = 0]
    BY <1>6 DEF LockTimeout, NotHolder, Leave, Crash
  <2>2. \A q \in Procs : phase'[q] = "locked"
          => phase[q] = "locked" /\ call'[q] = call[q] /\ now'[q] = now[q]
    BY <1>1, <2>1
  <2>3. QED
    BY <1>3, <2>2
<1>7. QED
  BY <1>4, <1>5, <1>6

LEMMA NextKeepsTimed ==
  ASSUME ~Rewinds
  PROVE  TimeInv /\ [Next]_vars => TimeInv'
<1> SUFFICES ASSUME TimeInv, [Next]_vars PROVE TimeInv'
  OBVIOUS
<1>1. HistoryInv' /\ BeliefInv'
  BY NextKeepsHistoryInv, NextKeepsBelief DEF TimeInv
<1>2. ASSUME NEW t \in Times, Tick(t) PROVE Timed'
  <2>1. /\ t > clock /\ clock' = t /\ clock \in Int /\ t \in Int
        /\ UNCHANGED <<leases, events, phase, call, now>>
        /\ events \in Seq(EventRecord)
    BY <1>2, TimesAreIntegers DEF Tick, TimeInv, HistoryInv, FileOK, StoreInv, TypeOK
  <2>2. Until(events, t)
    <3>1. \A k \in DOMAIN events : events[k].recordedAt \in Int
      BY <2>1, EventPositions, TimesAreIntegers
    <3>2. QED
      BY <2>1, <3>1 DEF TimeInv, Timed, Until
  <2>3. QED
    BY <2>1, <2>2 DEF TimeInv, Timed, InOrder, Until, Live, ExpiresAt
<1>3. CASE UNCHANGED vars
  BY <1>1, <1>3 DEF vars, TimeInv, Timed, InOrder, Until, Live, ExpiresAt
<1>4. QED
  BY <1>1, <1>2, <1>3, QuietStepKeepsTimed, CommitStepKeepsTimed DEF Next, TimeInv

\* The history is in the order of its timestamps as long as the wall clock is
\* never set back, although expire reads its clock before it waits.
THEOREM HistoryInTimeOrderHolds == ASSUME ~Rewinds PROVE Spec => []HistoryInTimeOrder
<1>1. Init => TimeInv
  <2> SUFFICES ASSUME Init PROVE TimeInv
    OBVIOUS
  <2>1. BeliefInv
    BY InitBeliefInv
  <2>2. Live(leases) = {} /\ events = <<>> /\ \A p \in Procs : phase[p] = "idle"
    BY DEF Init, NoLeases, Live
  <2>3. Timed
    BY <2>2 DEF Timed, InOrder, Until
  <2>4. QED
    BY <2>1, <2>3, InitHistoryInv DEF TimeInv
<1>2. TimeInv => HistoryInTimeOrder
  BY DEF TimeInv, Timed, InOrder, HistoryInTimeOrder
<1>3. QED
  BY <1>1, <1>2, NextKeepsTimed, PTL DEF Spec

=============================================================================
