----------------------- MODULE AppendOnlyStoreProofs -----------------------
(***************************************************************************)
(* Proofs about AppendOnlyStore, for any number of stores and readers, any  *)
(* record identities and any limits.  The argument: whatever a crash leaves *)
(* after the last newline is a record that could still be appended, so the  *)
(* high-water mark and the order of the records survive a repair; versions  *)
(* only grow, so a cache or a reader that sees the same version has seen    *)
(* the same file.                                                           *)
(***************************************************************************)
EXTENDS AppendOnlyStore, SubsequenceProofs, FiniteSetTheorems, TLAPS

-----------------------------------------------------------------------------
(* Sequences of records *)

\* The last sequence number, of any records; the largest, of increasing ones.
LEMMA LastSeqType ==
  ASSUME NEW recs \in Seq(Record)
  PROVE  /\ LastSeq(recs) \in Nat /\ IdsOf(recs) \subseteq RecordIds
         /\ Len(recs) \in Nat /\ DOMAIN recs = 1..Len(recs)
         /\ Increasing(recs) => \A k \in DOMAIN recs : recs[k].seq <= LastSeq(recs)
<1>1. Len(recs) \in Nat /\ DOMAIN recs = 1..Len(recs) /\ \A k \in DOMAIN recs : recs[k] \in Record
  OBVIOUS
<1>2. CASE recs = <<>>
  BY <1>1, <1>2 DEF LastSeq, IdsOf
<1>3. CASE recs # <<>>
  <2>1. Len(recs) \in DOMAIN recs
    BY <1>1, <1>3
  <2>2. LastSeq(recs) = recs[Len(recs)].seq
    BY <1>3 DEF LastSeq, Last
  <2>3. ASSUME Increasing(recs), NEW k \in DOMAIN recs PROVE recs[k].seq <= LastSeq(recs)
    <3>1. k = Len(recs) \/ k < Len(recs)
      BY <1>1
    <3>2. recs[k].seq \in Nat /\ recs[Len(recs)].seq \in Nat
      BY <1>1, <2>1 DEF Record
    <3>3. k < Len(recs) => recs[k].seq < recs[Len(recs)].seq
      BY <2>1, <2>3 DEF Increasing
    <3>4. QED
      BY <2>2, <3>1, <3>2, <3>3
  <2>4. LastSeq(recs) \in Nat /\ IdsOf(recs) \subseteq RecordIds
    BY <1>1, <2>1, <2>2 DEF Record, IdsOf
  <2>5. QED
    BY <1>1, <2>3, <2>4
<1>4. QED
  BY <1>2, <1>3

\* A record above the last one joins increasing records.
LEMMA AppendIncreasing ==
  ASSUME NEW recs \in Seq(Record), Increasing(recs), NEW rec \in Record,
         rec.seq > LastSeq(recs), rec.id \notin IdsOf(recs)
  PROVE  LET all == Append(recs, rec)
         IN  /\ all \in Seq(Record) /\ Increasing(all) /\ all # <<>> /\ Last(all) = rec
             /\ Len(all) = Len(recs) + 1 /\ LastSeq(all) = rec.seq
             /\ IdsOf(all) = IdsOf(recs) \cup {rec.id}
             /\ ToSet(all) = ToSet(recs) \cup {rec}
<1> DEFINE all == Append(recs, rec)
           n   == Len(recs)
<1>1. n \in Nat /\ DOMAIN recs = 1..n
  OBVIOUS
<1>2. /\ all \in Seq(Record) /\ Len(all) = n + 1 /\ DOMAIN all = 1..(n + 1) /\ all # <<>>
      /\ all[n + 1] = rec /\ \A k \in DOMAIN recs : all[k] = recs[k]
  BY <1>1
<1>3. DOMAIN all = DOMAIN recs \cup {n + 1}
  BY <1>1, <1>2
<1> HIDE DEF all, n
<1>4. Last(all) = rec /\ LastSeq(all) = rec.seq
  BY <1>2 DEF Last, LastSeq
<1>5. ToSet(all) = ToSet(recs) \cup {rec} /\ IdsOf(all) = IdsOf(recs) \cup {rec.id}
  <2>1. \A x : x \in ToSet(all) <=> x \in ToSet(recs) \/ x = rec
    BY <1>2, <1>3 DEF ToSet
  <2>2. \A x : x \in IdsOf(all) <=> x \in IdsOf(recs) \/ x = rec.id
    BY <1>2, <1>3 DEF IdsOf
  <2>3. QED
    BY <2>1, <2>2
<1>6. Increasing(all)
  <2>1. ASSUME NEW k \in DOMAIN all, NEW m \in DOMAIN all, k < m
        PROVE  all[k].seq < all[m].seq /\ all[k].id # all[m].id
    <3>1. k \in DOMAIN recs
      BY <1>1, <1>2, <1>3, <2>1
    <3>2. CASE m \in DOMAIN recs
      BY <1>2, <2>1, <3>1, <3>2 DEF Increasing
    <3>3. CASE m = n + 1
      <4>1. recs[k].seq <= LastSeq(recs) /\ LastSeq(recs) \in Nat /\ recs[k] \in Record
        BY <3>1, LastSeqType
      <4>2. recs[k].id \in IdsOf(recs)
        BY <3>1 DEF IdsOf
      <4>3. QED
        BY <1>2, <3>1, <3>3, <4>1, <4>2 DEF Record
    <3>4. QED
      BY <1>3, <3>2, <3>3
  <2>2. QED
    BY <2>1 DEF Increasing
<1>7. QED
  BY <1>2, <1>4, <1>5, <1>6 DEF all, n

\* What a compaction keeps: the records of the given identities, in order.
LEMMA KeptRecords ==
  ASSUME NEW recs \in Seq(Record), Increasing(recs), NEW ids
  PROVE  LET kept == Subsequence(recs, {k \in DOMAIN recs : recs[k].id \in ids})
         IN  /\ kept \in Seq(Record) /\ Increasing(kept)
             /\ ToSet(kept) = {r \in ToSet(recs) : r.id \in ids}
             /\ LastSeq(kept) <= LastSeq(recs)
<1> DEFINE S    == {k \in DOMAIN recs : recs[k].id \in ids}
           kept == Subsequence(recs, S)
<1>1. S \in SUBSET (DOMAIN recs)
  OBVIOUS
<1>2. \A k : k \in S <=> k \in DOMAIN recs /\ recs[k].id \in ids
  OBVIOUS
<1> HIDE DEF S
<1>3. kept \in Seq(Record) /\ IsFiniteSet(S) /\ S \in SUBSET Int
  BY <1>1, SubsequenceType
<1>4. /\ \A k \in DOMAIN kept : Nth(S, k) \in S /\ kept[k] = recs[Nth(S, k)]
      /\ \A k, m \in DOMAIN kept : k < m => Nth(S, k) < Nth(S, m)
      /\ \A i \in S : \E k \in DOMAIN kept : Nth(S, k) = i
  BY <1>3, SubsequenceProperties
<1> HIDE DEF kept
<1>5. Increasing(kept)
  <2>1. ASSUME NEW k \in DOMAIN kept, NEW m \in DOMAIN kept, k < m
        PROVE  kept[k].seq < kept[m].seq /\ kept[k].id # kept[m].id
    <3>1. Nth(S, k) \in DOMAIN recs /\ Nth(S, m) \in DOMAIN recs /\ Nth(S, k) < Nth(S, m)
      BY <1>2, <1>4, <2>1
    <3>2. QED
      BY <1>4, <3>1 DEF Increasing
  <2>2. QED
    BY <2>1 DEF Increasing
<1>6. ToSet(kept) = {r \in ToSet(recs) : r.id \in ids}
  <2>1. ASSUME NEW r \in ToSet(kept) PROVE r \in ToSet(recs) /\ r.id \in ids
    <3>1. PICK k \in DOMAIN kept : r = kept[k]
      BY DEF ToSet
    <3>2. Nth(S, k) \in DOMAIN recs /\ recs[Nth(S, k)].id \in ids /\ r = recs[Nth(S, k)]
      BY <1>2, <1>4, <3>1
    <3>3. QED
      BY <3>2 DEF ToSet
  <2>2. ASSUME NEW r \in ToSet(recs), r.id \in ids PROVE r \in ToSet(kept)
    <3>1. PICK i \in DOMAIN recs : r = recs[i]
      BY DEF ToSet
    <3>2. PICK k \in DOMAIN kept : Nth(S, k) = i
      BY <1>2, <1>4, <2>2, <3>1
    <3>3. kept[k] = r
      BY <1>4, <3>1, <3>2
    <3>4. QED
      BY <3>3 DEF ToSet
  <2>3. QED
    BY <2>1, <2>2
<1>7. LastSeq(kept) <= LastSeq(recs)
  <2>1. LastSeq(recs) \in Nat
    BY LastSeqType
  <2>2. CASE kept = <<>>
    BY <2>1, <2>2 DEF LastSeq
  <2>3. CASE kept # <<>>
    <3>1. Len(kept) \in DOMAIN kept /\ LastSeq(kept) = kept[Len(kept)].seq
      BY <1>3, <2>3 DEF LastSeq, Last
    <3>2. Nth(S, Len(kept)) \in DOMAIN recs /\ kept[Len(kept)] = recs[Nth(S, Len(kept))]
      BY <1>2, <1>4, <3>1
    <3>3. QED
      BY <3>1, <3>2, LastSeqType
  <2>4. QED
    BY <2>2, <2>3
<1>8. QED
  BY <1>3, <1>5, <1>6, <1>7 DEF kept, S

-----------------------------------------------------------------------------
(* The inductive invariant *)

Busy == {"open_manifest", "append_write", "append_manifest",
         "compact_highwater", "compact_replace", "compact_manifest"}

\* A record that the next append could write.
Fresh(rec) == rec \in Record /\ rec.seq = HighWater + 1 /\ rec.id \notin IdsOf(lines)

\* A cache, or what an append trusts instead, that is true of the ledger.
Describes(c) ==
  c.count = Len(lines) /\ c.ids = IdsOf(lines) /\ c.lastSequence = LastSeq(lines)

\* The files at any moment: what follows the last newline is torn, or could be
\* appended; there is no ledger without its manifest.
FilesOK ==
  /\ lines \in Seq(Record) /\ Increasing(lines)
  /\ ledgerVer \in Nat /\ manifestVer \in Nat
  /\ manifest \in Manifest \cup {NoManifest}
  /\ ledgerVer = 0 => /\ lines = <<>> /\ tail = NoTail
                      /\ manifest # NoManifest => manifest.recordCount = 0
  /\ manifest = NoManifest => ledgerVer = 0
  /\ tail \notin {NoTail, Torn} => Fresh(tail)

\* What was acknowledged is in the ledger or was dropped, and what was dropped
\* never comes back: its sequence number is behind the high-water mark.
HistoryOK ==
  /\ acked \subseteq Record /\ pruned \subseteq Record
  /\ acked \ pruned \subseteq ToSet(lines)
  /\ \A r \in pruned : r.seq <= HighWater /\ r \notin ToSet(lines)

\* No cache is of a later file, and one of this file is true of it.
CacheOK(s) ==
  cache[s] # NoCache =>
    /\ cache[s].identity \in Nat /\ cache[s].identity <= ledgerVer
    /\ cache[s].identity = ledgerVer => tail = NoTail /\ Describes(cache[s])

\* What a compaction is to keep and to drop.
Selected(w) ==
  \E ids \in SUBSET RecordIds :
    /\ w.keep = Subsequence(lines, {k \in DOMAIN lines : lines[k].id \in ids})
    /\ w.drop = {r \in ToSet(lines) : r.id \notin ids}

\* What a store knows at each point of its operation.
WorkOK(s) ==
  /\ lock = s <=> pc[s] \in Busy
  /\ pc[s] \in Busy => tail = NoTail
  /\ pc[s] \in Busy \ {"open_manifest"} => manifest # NoManifest
  /\ pc[s] = "append_write" => Fresh(work[s].rec) /\ Describes(work[s].cache)
  /\ pc[s] = "append_manifest" =>
       /\ work[s].rec \in Record /\ lines # <<>> /\ Last(lines) = work[s].rec
       /\ work[s].cache.count + 1 = Len(lines)
       /\ work[s].cache.ids \cup {work[s].rec.id} = IdsOf(lines)
       /\ manifest.lastSequence < work[s].rec.seq
  /\ pc[s] \in {"compact_highwater", "compact_replace"} =>
       Selected(work[s]) /\ work[s].last = HighWater
  /\ pc[s] = "compact_replace" => manifest.lastSequence = work[s].last
  /\ pc[s] = "compact_manifest" => manifest.lastSequence = work[s].last /\ work[s].last = HighWater

StoreInv ==
  /\ DOMAIN pc = Stores /\ DOMAIN work = Stores /\ DOMAIN cache = Stores
  /\ lock \in Stores \cup {NoStore}
  /\ FilesOK /\ HistoryOK
  /\ \A s \in Stores : CacheOK(s) /\ WorkOK(s)

\* A change of the ledger moves its version on.
LedgerStep ==
  ledgerVer' \in Nat /\ (ledgerVer' > ledgerVer \/ UNCHANGED ledgerVars)

\* The high-water mark is that of the manifest or of the records.
LEMMA HighWaterType ==
  ASSUME FilesOK
  PROVE  /\ HighWater \in Nat /\ LastSeq(lines) \in Nat /\ LastSeq(lines) <= HighWater
         /\ manifest # NoManifest =>
              /\ manifest.lastSequence \in Nat /\ manifest.recordCount \in Nat
              /\ HighWater = MaxOf(manifest.lastSequence, LastSeq(lines))
              /\ manifest.lastSequence <= HighWater
<1>1. LastSeq(lines) \in Nat
  BY LastSeqType DEF FilesOK
<1>2. manifest # NoManifest => manifest.lastSequence \in Nat /\ manifest.recordCount \in Nat
  BY DEF FilesOK, Manifest
<1>3. QED
  BY <1>1, <1>2 DEF HighWater, MaxOf

\* A step of the ledger in the terms of AppendOnlyLog.
LogStep == [Log!Next]_<<lines, HighWater>>

\* A cache stays true, or becomes one of an earlier file.
LEMMA CacheKeeps ==
  ASSUME FilesOK, NEW d \in Stores, CacheOK(d), cache'[d] = cache[d], LedgerStep
  PROVE  CacheOK(d)'
<1>1. CASE UNCHANGED ledgerVars
  BY <1>1 DEF CacheOK, Describes, ledgerVars
<1>2. CASE ledgerVer' > ledgerVer
  <2>1. ledgerVer \in Nat /\ ledgerVer' \in Nat
    BY DEF FilesOK, LedgerStep
  <2>2. QED
    BY <1>2, <2>1 DEF CacheOK
<1>3. QED
  BY <1>1, <1>2 DEF LedgerStep

\* A step of s while no other store is inside the lock.
LEMMA StoreStepKeeps ==
  ASSUME StoreInv, NEW s \in Stores, lock \in {s, NoStore}, lock' \in {s, NoStore},
         DOMAIN pc' = Stores, DOMAIN work' = Stores, DOMAIN cache' = Stores,
         \A d \in Stores \ {s} : pc'[d] = pc[d] /\ work'[d] = work[d] /\ cache'[d] = cache[d],
         LedgerStep, FilesOK', HistoryOK', CacheOK(s)', WorkOK(s)'
  PROVE  StoreInv'
<1>1. ASSUME NEW d \in Stores \ {s} PROVE CacheOK(d)' /\ WorkOK(d)'
  <2>1. CacheOK(d) /\ WorkOK(d) /\ pc'[d] = pc[d] /\ cache'[d] = cache[d] /\ FilesOK
    BY DEF StoreInv
  <2>2. pc[d] \notin Busy /\ lock' # d
    BY <2>1, NoStoreAssumption DEF WorkOK
  <2>3. WorkOK(d)'
    BY <2>1, <2>2 DEF WorkOK, Busy
  <2>4. QED
    BY <2>1, <2>3, CacheKeeps
<1>2. QED
  BY <1>1 DEF StoreInv

-----------------------------------------------------------------------------
(* The writes *)

\* A fresh record is written, by an append or by the repair of its last newline.
LEMMA AppendKeeps ==
  ASSUME FilesOK, HistoryOK, manifest # NoManifest, NEW rec, Fresh(rec),
         lines' = Append(lines, rec), ledgerVer' = ledgerVer + 1, tail' = NoTail,
         UNCHANGED <<manifestVars, history>>
  PROVE  /\ FilesOK' /\ HistoryOK' /\ LedgerStep /\ LogStep
         /\ lines' # <<>> /\ Last(lines') = rec /\ Len(lines') = Len(lines) + 1
         /\ IdsOf(lines') = IdsOf(lines) \cup {rec.id} /\ LastSeq(lines') = rec.seq
         /\ manifest'.lastSequence < rec.seq
<1>1. /\ HighWater \in Nat /\ LastSeq(lines) \in Nat /\ LastSeq(lines) <= HighWater
      /\ manifest.lastSequence \in Nat /\ manifest.lastSequence <= HighWater
  BY HighWaterType
<1>2. /\ manifest' = manifest /\ manifestVer' = manifestVer /\ acked' = acked /\ pruned' = pruned
      /\ lines \in Seq(Record) /\ Increasing(lines) /\ ledgerVer \in Nat
  BY DEF manifestVars, history, FilesOK
<1>3. rec \in Record /\ rec.seq > LastSeq(lines) /\ rec.id \notin IdsOf(lines) /\ rec.seq = HighWater + 1
  BY <1>1 DEF Fresh
<1>4. /\ lines' \in Seq(Record) /\ Increasing(lines') /\ LastSeq(lines') = rec.seq
      /\ ToSet(lines') = ToSet(lines) \cup {rec} /\ lines' # <<>> /\ Last(lines') = rec
      /\ Len(lines') = Len(lines) + 1 /\ IdsOf(lines') = IdsOf(lines) \cup {rec.id}
  BY <1>2, <1>3, AppendIncreasing
<1>5. HighWater' = HighWater + 1
  <2>1. HighWater' = MaxOf(manifest.lastSequence, LastSeq(lines'))
    BY <1>2 DEF HighWater
  <2>2. QED
    BY <1>1, <1>3, <1>4, <2>1 DEF MaxOf
<1>6. FilesOK'
  BY <1>2, <1>4 DEF FilesOK
<1>7. HistoryOK'
  <2>1. \A r \in pruned : r.seq \in Nat /\ r.seq <= HighWater /\ r \notin ToSet(lines)
    BY DEF HistoryOK, Record
  <2>2. rec \notin pruned
    BY <1>1, <1>3, <2>1
  <2>3. QED
    BY <1>1, <1>2, <1>4, <1>5, <2>1, <2>2 DEF HistoryOK
<1>8. LedgerStep
  BY <1>2 DEF LedgerStep
<1>9. LogStep
  <2>1. rec = [id |-> rec.id, seq |-> HighWater + 1] /\ rec.id \in RecordIds
    BY <1>3 DEF Record
  <2>2. Log!Add(rec.id, HighWater + 1)
    BY <1>1, <1>3, <1>5, <2>1 DEF Log!Add, IdsOf
  <2>3. QED
    BY <2>1, <2>2 DEF LogStep, Log!Next
<1>10. QED
  BY <1>1, <1>2, <1>3, <1>4, <1>6, <1>7, <1>8, <1>9

\* The repair cuts a torn record off, or appends a whole one.
LEMMA RepairKeeps ==
  ASSUME FilesOK, HistoryOK, Repair, UNCHANGED <<manifestVars, history>>
  PROVE  /\ FilesOK' /\ HistoryOK' /\ LedgerStep /\ LogStep
         /\ lines' = RepairedLines /\ tail' = NoTail
         /\ ledgerVer' = IF tail = NoTail THEN ledgerVer ELSE ledgerVer + 1
<1>1. /\ lines' = RepairedLines /\ tail' = NoTail
      /\ ledgerVer' = IF tail = NoTail THEN ledgerVer ELSE ledgerVer + 1
      /\ manifest' = manifest /\ manifestVer' = manifestVer /\ acked' = acked /\ pruned' = pruned
  BY DEF Repair, manifestVars, history
<1>2. ledgerVer \in Nat
  BY DEF FilesOK
<1>3. CASE tail \in {NoTail, Torn}
  <2>1. lines' = lines
    BY <1>1, <1>3 DEF RepairedLines
  <2>2. HighWater' = HighWater
    BY <1>1, <2>1 DEF HighWater
  <2>3. FilesOK'
    BY <1>1, <1>2, <2>1 DEF FilesOK, Increasing
  <2>4. HistoryOK'
    BY <1>1, <2>1, <2>2 DEF HistoryOK
  <2>5. LedgerStep
    BY <1>1, <1>2, <2>1 DEF LedgerStep, ledgerVars
  <2>6. QED
    BY <1>1, <2>1, <2>2, <2>3, <2>4, <2>5 DEF LogStep
<1>4. CASE tail \notin {NoTail, Torn}
  <2>1. Fresh(tail) /\ manifest # NoManifest
    BY <1>4 DEF FilesOK
  <2>2. lines' = Append(lines, tail) /\ ledgerVer' = ledgerVer + 1
    BY <1>1, <1>4 DEF RepairedLines
  <2>3. QED
    BY <1>1, <2>1, <2>2, AppendKeeps
<1>5. QED
  BY <1>3, <1>4

\* A manifest that has the high-water mark is written; what was acknowledged is
\* in the ledger.
LEMMA ManifestKeeps ==
  ASSUME FilesOK, HistoryOK, tail = NoTail, NEW count \in Nat, NEW last,
         last = HighWater, ledgerVer = 0 => count = 0, WriteManifest(count, last),
         UNCHANGED <<ledgerVars, pruned>>, acked \subseteq acked', acked' \subseteq acked \cup ToSet(lines)
  PROVE  /\ FilesOK' /\ HistoryOK' /\ LedgerStep /\ LogStep
         /\ manifest' # NoManifest /\ manifest'.lastSequence = HighWater /\ HighWater' = HighWater
<1>1. HighWater \in Nat /\ LastSeq(lines) \in Nat /\ LastSeq(lines) <= HighWater
  BY HighWaterType
<1>2. /\ lines' = lines /\ tail' = tail /\ ledgerVer' = ledgerVer /\ pruned' = pruned
      /\ manifest' = [recordCount |-> count, lastSequence |-> last] /\ manifestVer' = manifestVer + 1
  BY DEF ledgerVars, WriteManifest
<1>3. manifest' \in Manifest /\ manifest' # NoManifest /\ manifest'.lastSequence = HighWater
  BY <1>1, <1>2, NoManifestAssumption DEF Manifest
<1>4. HighWater' = HighWater
  BY <1>1, <1>2, <1>3 DEF HighWater, MaxOf
<1>5. FilesOK'
  BY <1>2, <1>3 DEF FilesOK, Increasing
<1>6. HistoryOK'
  <2>1. ToSet(lines) \subseteq Record
    BY DEF FilesOK, ToSet
  <2>2. QED
    BY <1>2, <1>4, <2>1 DEF HistoryOK
<1>7. LedgerStep
  BY <1>2 DEF LedgerStep, ledgerVars, FilesOK
<1>8. LogStep
  BY <1>2, <1>4 DEF LogStep
<1>9. QED
  BY <1>3, <1>4, <1>5, <1>6, <1>7, <1>8

\* A write that stops part way leaves nothing, a fragment, or the fresh record.
LEMMA PartialKeeps ==
  ASSUME FilesOK, HistoryOK, manifest # NoManifest, NEW rec, Fresh(rec),
         tail' \in {NoTail, Torn, rec}, ledgerVer' = ledgerVer + 1,
         UNCHANGED <<lines, manifestVars, history>>
  PROVE  FilesOK' /\ HistoryOK' /\ LedgerStep /\ LogStep
<1>1. /\ lines' = lines /\ manifest' = manifest /\ manifestVer' = manifestVer
      /\ acked' = acked /\ pruned' = pruned /\ ledgerVer \in Nat
  BY DEF manifestVars, history, FilesOK
<1>2. HighWater' = HighWater
  BY <1>1 DEF HighWater
<1>3. tail' \notin {NoTail, Torn} => Fresh(tail)'
  BY <1>1, <1>2 DEF Fresh
<1>4. FilesOK'
  BY <1>1, <1>3 DEF FilesOK, Increasing
<1>5. HistoryOK'
  BY <1>1, <1>2 DEF HistoryOK
<1>6. QED
  BY <1>1, <1>2, <1>4, <1>5 DEF LedgerStep, LogStep

\* The ledger is replaced by what the compaction keeps, its high-water mark being
\* in the manifest already.
LEMMA ReplaceKeeps ==
  ASSUME FilesOK, HistoryOK, tail = NoTail, manifest # NoManifest, NEW w, Selected(w),
         manifest.lastSequence = HighWater, lines' = w.keep, pruned' = pruned \cup w.drop,
         ledgerVer' = ledgerVer + 1, UNCHANGED <<tail, manifestVars, acked>>
  PROVE  FilesOK' /\ HistoryOK' /\ LedgerStep /\ LogStep /\ HighWater' = HighWater
<1>1. PICK ids \in SUBSET RecordIds :
        /\ w.keep = Subsequence(lines, {k \in DOMAIN lines : lines[k].id \in ids})
        /\ w.drop = {r \in ToSet(lines) : r.id \notin ids}
  BY DEF Selected
<1>2. /\ manifest' = manifest /\ manifestVer' = manifestVer /\ acked' = acked
      /\ lines \in Seq(Record) /\ Increasing(lines) /\ ledgerVer \in Nat
  BY DEF manifestVars, FilesOK
<1>3. /\ lines' \in Seq(Record) /\ Increasing(lines')
      /\ ToSet(lines') = {r \in ToSet(lines) : r.id \in ids}
      /\ LastSeq(lines') <= LastSeq(lines)
  BY <1>1, <1>2, KeptRecords
<1>4. HighWater \in Nat /\ LastSeq(lines) \in Nat /\ LastSeq(lines) <= HighWater
  BY HighWaterType
<1>5. LastSeq(lines') \in Nat
  BY <1>3, LastSeqType
<1>6. HighWater' = HighWater
  <2>1. HighWater' = MaxOf(HighWater, LastSeq(lines'))
    BY <1>2 DEF HighWater
  <2>2. QED
    BY <1>3, <1>4, <1>5, <2>1 DEF MaxOf
<1>7. FilesOK'
  BY <1>2, <1>3 DEF FilesOK
<1>8. HistoryOK'
  <2>1. ASSUME NEW r \in w.drop PROVE r \in Record /\ r.seq <= HighWater /\ r \notin ToSet(lines')
    <3>1. r \in ToSet(lines) /\ r.id \notin ids
      BY <1>1
    <3>2. PICK k \in DOMAIN lines : r = lines[k]
      BY <3>1 DEF ToSet
    <3>3. lines[k] \in Record /\ lines[k].seq <= LastSeq(lines)
      BY <1>2, LastSeqType
    <3>4. QED
      BY <1>3, <1>4, <3>1, <3>2, <3>3 DEF Record
  <2>2. acked \ pruned' \subseteq ToSet(lines')
    BY <1>1, <1>3 DEF HistoryOK
  <2>3. QED
    BY <1>2, <1>3, <1>6, <2>1, <2>2 DEF HistoryOK
<1>9. LogStep
  <2>1. \A T, s : Log!Subsequence(s, T) = Subsequence(s, T)
    <3>1. \A T : Log!Cardinality(T) = Cardinality(T)
      BY DEF Log!Cardinality, Cardinality
    <3>2. \A T, k : Log!Rank(T, k) = Rank(T, k)
      BY <3>1 DEF Log!Rank, Rank
    <3>3. \A T, k : Log!Nth(T, k) = Nth(T, k)
      BY <3>2 DEF Log!Nth, Nth
    <3>4. QED
      BY <3>1, <3>3 DEF Log!Subsequence, Subsequence
  <2>2. Log!Prune(ids)
    BY <1>1, <1>6, <2>1 DEF Log!Prune
  <2>3. QED
    BY <2>2 DEF LogStep, Log!Next
<1>10. QED
  BY <1>2, <1>6, <1>7, <1>8, <1>9 DEF LedgerStep

-----------------------------------------------------------------------------
(* The operations of a store *)

\* Versions and the history only grow.
Onward == LedgerStep /\ acked \subseteq acked' /\ pruned \subseteq pruned'

\* What a step of s must establish.
StepOK == StoreInv' /\ LogStep /\ Onward

\* initialize takes the lock and repairs.
LEMMA OpenStartKeeps ==
  ASSUME StoreInv, NEW s \in Stores, OpenStart(s)
  PROVE  StepOK
<1>1. /\ lock = NoStore /\ lock' = s /\ cache' = cache /\ Repair /\ UNCHANGED <<manifestVars, history>>
      /\ pc' = [pc EXCEPT ![s] = "open_manifest"] /\ work' = [work EXCEPT ![s] = NoWork]
  BY DEF OpenStart, Enter
<1>2. /\ DOMAIN pc = Stores /\ DOMAIN work = Stores /\ DOMAIN cache = Stores
      /\ FilesOK /\ HistoryOK /\ CacheOK(s)
  BY DEF StoreInv
<1>3. FilesOK' /\ HistoryOK' /\ LedgerStep /\ LogStep /\ tail' = NoTail
  BY <1>1, <1>2, RepairKeeps
<1>4. CacheOK(s)'
  BY <1>1, <1>2, <1>3, CacheKeeps
<1>5. pc'[s] = "open_manifest"
  BY <1>1, <1>2
<1>6. WorkOK(s)'
  BY <1>1, <1>3, <1>5 DEF WorkOK, Busy
<1>7. StoreInv'
  BY <1>1, <1>2, <1>3, <1>4, <1>6, StoreStepKeeps
<1>8. QED
  BY <1>1, <1>3, <1>7 DEF StepOK, Onward, history

\* It writes the manifest and caches the ledger.
LEMMA OpenManifestKeeps ==
  ASSUME StoreInv, NEW s \in Stores, OpenManifest(s)
  PROVE  StepOK
<1>1. /\ pc[s] = "open_manifest" /\ lock' = NoStore /\ UNCHANGED <<ledgerVars, history>>
      /\ pc' = [pc EXCEPT ![s] = "open"] /\ work' = [work EXCEPT ![s] = NoWork]
      /\ cache' = [cache EXCEPT ![s] = CacheOf(lines, ledgerVer)]
      /\ WriteManifest(Len(lines), HighWater)
  BY DEF OpenManifest, Return, HighWater
<1>2. /\ DOMAIN pc = Stores /\ DOMAIN work = Stores /\ DOMAIN cache = Stores
      /\ FilesOK /\ HistoryOK /\ lock = s /\ tail = NoTail
  BY <1>1 DEF StoreInv, WorkOK, Busy
<1>3. Len(lines) \in Nat /\ (ledgerVer = 0 => Len(lines) = 0)
  BY <1>2 DEF FilesOK
<1>4. FilesOK' /\ HistoryOK' /\ LedgerStep /\ LogStep
  BY <1>1, <1>2, <1>3, ManifestKeeps DEF history
<1>5. CacheOK(s)'
  <2>1. cache'[s] = CacheOf(lines, ledgerVer) /\ lines' = lines /\ ledgerVer' = ledgerVer /\ tail' = tail
    BY <1>1, <1>2 DEF ledgerVars
  <2>2. ledgerVer \in Nat
    BY <1>2 DEF FilesOK
  <2>3. QED
    BY <1>2, <2>1, <2>2 DEF CacheOK, CacheOf, Describes
<1>6. pc'[s] = "open"
  BY <1>1, <1>2
<1>7. WorkOK(s)'
  BY <1>1, <1>6, NoStoreAssumption DEF WorkOK, Busy
<1>8. StoreInv'
  BY <1>1, <1>2, <1>4, <1>5, <1>7, StoreStepKeeps
<1>9. QED
  BY <1>1, <1>4, <1>8 DEF StepOK, Onward, history

\* What an append trusts describes the ledger as it leaves it: its cache, while
\* the file is the one it described, or the repaired file.
LEMMA TrustedDescribes ==
  ASSUME StoreInv, NEW s \in Stores, RepairUnlessCached(s), UNCHANGED <<manifestVars, history>>
  PROVE  /\ FilesOK' /\ HistoryOK' /\ LedgerStep /\ LogStep /\ tail' = NoTail
         /\ Trusted(s).count = Len(lines') /\ Trusted(s).ids = IdsOf(lines')
         /\ Trusted(s).lastSequence = LastSeq(lines') /\ Trusted(s).identity = ledgerVer'
<1>1. FilesOK /\ HistoryOK /\ CacheOK(s)
  BY DEF StoreInv
<1>2. CASE CacheValid(s)
  <2>1. /\ lines' = lines /\ tail' = tail /\ ledgerVer' = ledgerVer
        /\ manifest' = manifest /\ manifestVer' = manifestVer /\ acked' = acked /\ pruned' = pruned
    BY <1>2 DEF RepairUnlessCached, ledgerVars, manifestVars, history
  <2>2. tail = NoTail /\ Describes(cache[s]) /\ cache[s].identity = ledgerVer
    BY <1>1, <1>2 DEF CacheOK, CacheValid
  <2>3. HighWater' = HighWater
    BY <2>1 DEF HighWater
  <2>4. FilesOK' /\ HistoryOK'
    BY <1>1, <2>1, <2>2, <2>3 DEF FilesOK, HistoryOK, Increasing
  <2>5. LedgerStep /\ LogStep
    BY <1>1, <2>1, <2>3 DEF LedgerStep, LogStep, FilesOK, ledgerVars
  <2>6. QED
    BY <1>2, <2>1, <2>2, <2>4, <2>5 DEF Trusted, Describes
<1>3. CASE ~CacheValid(s)
  <2>1. Repair
    BY <1>3 DEF RepairUnlessCached
  <2>2. /\ FilesOK' /\ HistoryOK' /\ LedgerStep /\ LogStep
        /\ lines' = RepairedLines /\ tail' = NoTail
        /\ ledgerVer' = IF tail = NoTail THEN ledgerVer ELSE ledgerVer + 1
    BY <1>1, <2>1, RepairKeeps
  <2>3. QED
    BY <1>3, <2>2 DEF Trusted, CacheOf
<1>4. QED
  BY <1>2, <1>3

\* appendRecord takes the lock and a sequence number above the high-water mark.
LEMMA AppendStartKeeps ==
  ASSUME StoreInv, NEW s \in Stores, NEW id \in RecordIds, AppendStart(s, id)
  PROVE  StepOK
<1> DEFINE w == [rec |-> [id |-> id, seq |-> NextSequence(s)], cache |-> Trusted(s)]
<1>1. /\ lock = NoStore /\ lock' = s /\ manifest # NoManifest /\ id \notin Trusted(s).ids
      /\ pc' = [pc EXCEPT ![s] = "append_write"] /\ work' = [work EXCEPT ![s] = w]
      /\ cache' = [cache EXCEPT ![s] = NoCache]
      /\ RepairUnlessCached(s) /\ UNCHANGED <<manifestVars, history>>
  BY DEF AppendStart, Enter
<1>2. DOMAIN pc = Stores /\ DOMAIN work = Stores /\ DOMAIN cache = Stores
  BY DEF StoreInv
<1>3. /\ FilesOK' /\ HistoryOK' /\ LedgerStep /\ LogStep /\ tail' = NoTail
      /\ Trusted(s).count = Len(lines') /\ Trusted(s).ids = IdsOf(lines')
      /\ Trusted(s).lastSequence = LastSeq(lines')
  BY <1>1, TrustedDescribes
<1>4. HighWater' \in Nat /\ manifest' = manifest /\ HighWater' = MaxOf(manifest.lastSequence, LastSeq(lines'))
  <2>1. manifest' = manifest
    BY <1>1 DEF manifestVars
  <2>2. LastSeq(lines') \in Nat /\ manifest.lastSequence \in Nat
    BY <1>1, <1>3, <2>1, LastSeqType DEF FilesOK, Manifest
  <2>3. QED
    BY <1>1, <2>1, <2>2 DEF HighWater, MaxOf
<1>5. w.rec.id = id /\ w.rec.seq = HighWater' + 1 /\ w.cache = Trusted(s)
  BY <1>3, <1>4 DEF NextSequence
<1>6. w.rec \in Record
  BY <1>4, <1>5 DEF Record
<1> HIDE DEF w
<1>7. pc'[s] = "append_write" /\ work'[s] = w /\ cache'[s] = NoCache
  BY <1>1, <1>2
<1>8. Fresh(work[s].rec)' /\ Describes(work[s].cache)'
  BY <1>1, <1>3, <1>5, <1>6, <1>7 DEF Fresh, Describes
<1>9. CacheOK(s)' /\ WorkOK(s)'
  BY <1>1, <1>3, <1>4, <1>7, <1>8 DEF CacheOK, WorkOK, Busy
<1>10. StoreInv'
  BY <1>1, <1>2, <1>3, <1>9, StoreStepKeeps
<1>11. QED
  BY <1>1, <1>3, <1>10 DEF StepOK, Onward, history

\* An append that is refused leaves the repair and a cache of it.
LEMMA AppendRefusedKeeps ==
  ASSUME StoreInv, NEW s \in Stores, NEW id \in RecordIds, AppendRefused(s, id)
  PROVE  StepOK
<1>1. /\ lock = NoStore /\ lock' = lock /\ pc' = pc /\ work' = work /\ pc[s] = "open"
      /\ cache' = [cache EXCEPT ![s] = Trusted(s)]
      /\ RepairUnlessCached(s) /\ UNCHANGED <<manifestVars, history>>
  BY DEF AppendRefused
<1>2. DOMAIN pc = Stores /\ DOMAIN work = Stores /\ DOMAIN cache = Stores
  BY DEF StoreInv
<1>3. /\ FilesOK' /\ HistoryOK' /\ LedgerStep /\ LogStep /\ tail' = NoTail
      /\ Trusted(s).count = Len(lines') /\ Trusted(s).ids = IdsOf(lines')
      /\ Trusted(s).lastSequence = LastSeq(lines') /\ Trusted(s).identity = ledgerVer'
  BY <1>1, TrustedDescribes
<1>4. cache'[s] = Trusted(s) /\ ledgerVer' \in Nat
  BY <1>1, <1>2, <1>3 DEF FilesOK
<1>5. CacheOK(s)'
  BY <1>3, <1>4 DEF CacheOK, Describes
<1>6. WorkOK(s)'
  BY <1>1, NoStoreAssumption DEF WorkOK, Busy
<1>7. StoreInv'
  BY <1>1, <1>2, <1>3, <1>5, <1>6, StoreStepKeeps
<1>8. QED
  BY <1>1, <1>3, <1>7 DEF StepOK, Onward, history

\* The record is written.
LEMMA AppendWriteKeeps ==
  ASSUME StoreInv, NEW s \in Stores, AppendWrite(s)
  PROVE  StepOK
<1> DEFINE rec == work[s].rec
<1>1. /\ pc[s] = "append_write" /\ lock' = lock /\ cache' = cache
      /\ pc' = [pc EXCEPT ![s] = "append_manifest"] /\ work' = [work EXCEPT ![s] = work[s]]
      /\ lines' = Append(lines, rec) /\ ledgerVer' = ledgerVer + 1 /\ tail' = tail
      /\ UNCHANGED <<manifestVars, history>>
  BY DEF AppendWrite, Goto
<1>2. /\ DOMAIN pc = Stores /\ DOMAIN work = Stores /\ DOMAIN cache = Stores
      /\ FilesOK /\ HistoryOK /\ CacheOK(s) /\ WorkOK(s)
  BY DEF StoreInv
<1>3. lock = s /\ tail = NoTail /\ manifest # NoManifest /\ Fresh(rec) /\ Describes(work[s].cache)
  BY <1>1, <1>2 DEF WorkOK, Busy
<1>4. rec \in Record
  BY <1>3 DEF Fresh
<1>5. /\ FilesOK' /\ HistoryOK' /\ LedgerStep /\ LogStep
      /\ lines' # <<>> /\ Last(lines') = rec /\ Len(lines') = Len(lines) + 1
      /\ IdsOf(lines') = IdsOf(lines) \cup {rec.id} /\ manifest'.lastSequence < rec.seq
  BY <1>1, <1>2, <1>3, AppendKeeps
<1>6. CacheOK(s)'
  BY <1>1, <1>2, <1>5, CacheKeeps
<1>7. pc'[s] = "append_manifest" /\ work'[s] = work[s] /\ manifest' = manifest
  BY <1>1, <1>2 DEF manifestVars
<1>8. WorkOK(s)'
  BY <1>1, <1>3, <1>4, <1>5, <1>7 DEF WorkOK, Busy, Describes
<1>9. StoreInv'
  BY <1>1, <1>2, <1>3, <1>5, <1>6, <1>8, StoreStepKeeps
<1>10. QED
  BY <1>1, <1>5, <1>9 DEF StepOK, Onward, history

\* The manifest follows, the append is acknowledged and cached.
LEMMA AppendManifestKeeps ==
  ASSUME StoreInv, NEW s \in Stores, AppendManifest(s)
  PROVE  StepOK
<1> DEFINE rec == work[s].rec
           c   == work[s].cache
<1>1. /\ pc[s] = "append_manifest" /\ lock' = NoStore /\ UNCHANGED ledgerVars
      /\ pc' = [pc EXCEPT ![s] = "open"] /\ work' = [work EXCEPT ![s] = NoWork]
      /\ cache' = [cache EXCEPT ![s] = CacheAfter(c, rec, ledgerVer)]
      /\ acked' = acked \cup {rec} /\ pruned' = pruned
      /\ WriteManifest(c.count + 1, rec.seq)
  BY DEF AppendManifest, Return
<1>2. /\ DOMAIN pc = Stores /\ DOMAIN work = Stores /\ DOMAIN cache = Stores
      /\ FilesOK /\ HistoryOK /\ WorkOK(s)
  BY DEF StoreInv
<1>3. /\ lock = s /\ tail = NoTail /\ manifest # NoManifest /\ rec \in Record
      /\ lines # <<>> /\ Last(lines) = rec /\ c.count + 1 = Len(lines)
      /\ c.ids \cup {rec.id} = IdsOf(lines) /\ manifest.lastSequence < rec.seq
  BY <1>1, <1>2 DEF WorkOK, Busy
<1>4. LastSeq(lines) = rec.seq
  BY <1>3 DEF LastSeq
<1>5. rec.seq = HighWater
  <2>1. rec.seq \in Nat /\ manifest.lastSequence \in Nat
    BY <1>2, <1>3, HighWaterType DEF Record
  <2>2. QED
    BY <1>3, <1>4, <2>1 DEF HighWater, MaxOf
<1>6. c.count + 1 \in Nat /\ ledgerVer # 0 /\ rec \in ToSet(lines)
  <2>1. Len(lines) \in DOMAIN lines /\ Len(lines) \in Nat
    BY <1>2, <1>3 DEF FilesOK
  <2>2. QED
    BY <1>2, <1>3, <2>1 DEF FilesOK, Last, ToSet
<1>7. acked \subseteq acked' /\ acked' \subseteq acked \cup ToSet(lines)
  BY <1>1, <1>6
<1>8. FilesOK' /\ HistoryOK' /\ LedgerStep /\ LogStep
  <2> DEFINE n == c.count + 1
             l == rec.seq
  <2>1. /\ n \in Nat /\ l = HighWater /\ WriteManifest(n, l) /\ (ledgerVer = 0 => n = 0)
        /\ UNCHANGED <<ledgerVars, pruned>>
    BY <1>1, <1>5, <1>6
  <2> HIDE DEF n, l
  <2>2. QED
    BY <1>2, <1>3, <1>7, <2>1, ManifestKeeps
<1>9. CacheOK(s)'
  <2>1. /\ cache'[s] = CacheAfter(c, rec, ledgerVer) /\ lines' = lines /\ tail' = tail
        /\ ledgerVer' = ledgerVer /\ ledgerVer \in Nat
    BY <1>1, <1>2 DEF ledgerVars, FilesOK
  <2>2. QED
    BY <1>3, <1>4, <2>1 DEF CacheOK, CacheAfter, Describes
<1>10. pc'[s] = "open"
  BY <1>1, <1>2
<1>11. WorkOK(s)'
  BY <1>1, <1>10, NoStoreAssumption DEF WorkOK, Busy
<1>12. StoreInv'
  BY <1>1, <1>2, <1>3, <1>8, <1>9, <1>11, StoreStepKeeps
<1>13. QED
  BY <1>1, <1>8, <1>12 DEF StepOK, Onward

\* compactRecords selects what it keeps of the repaired ledger.
LEMMA CompactStartKeeps ==
  ASSUME StoreInv, NEW s \in Stores, NEW ids \in SUBSET RecordIds, CompactStart(s, ids)
  PROVE  StepOK
<1> DEFINE w == [keep |-> Subsequence(RepairedLines,
                            {k \in DOMAIN RepairedLines : RepairedLines[k].id \in ids}),
                 drop |-> {r \in ToSet(RepairedLines) : r.id \notin ids},
                 last |-> MaxOf(manifest.lastSequence, LastSeq(RepairedLines))]
<1>1. /\ lock = NoStore /\ lock' = s /\ cache' = cache /\ manifest # NoManifest
      /\ pc' = [pc EXCEPT ![s] = "compact_highwater"] /\ work' = [work EXCEPT ![s] = w]
      /\ Repair /\ UNCHANGED <<manifestVars, history>>
  BY DEF CompactStart, Enter
<1>2. /\ DOMAIN pc = Stores /\ DOMAIN work = Stores /\ DOMAIN cache = Stores
      /\ FilesOK /\ HistoryOK /\ CacheOK(s)
  BY DEF StoreInv
<1>3. /\ FilesOK' /\ HistoryOK' /\ LedgerStep /\ LogStep
      /\ lines' = RepairedLines /\ tail' = NoTail
  BY <1>1, <1>2, RepairKeeps
<1>4. CacheOK(s)'
  BY <1>1, <1>2, <1>3, CacheKeeps
<1>5. manifest' = manifest /\ HighWater' = MaxOf(manifest.lastSequence, LastSeq(lines'))
  BY <1>1 DEF manifestVars, HighWater
<1>6. /\ w.keep = Subsequence(lines', {k \in DOMAIN lines' : lines'[k].id \in ids})
      /\ w.drop = {r \in ToSet(lines') : r.id \notin ids} /\ w.last = HighWater'
  BY <1>3, <1>5
<1> HIDE DEF w
<1>7. pc'[s] = "compact_highwater" /\ work'[s] = w
  BY <1>1, <1>2
<1>8. Selected(work[s])'
  BY <1>6, <1>7 DEF Selected
<1>9. WorkOK(s)'
  BY <1>1, <1>3, <1>5, <1>6, <1>7, <1>8 DEF WorkOK, Busy
<1>10. StoreInv'
  BY <1>1, <1>2, <1>3, <1>4, <1>9, StoreStepKeeps
<1>11. QED
  BY <1>1, <1>3, <1>10 DEF StepOK, Onward, history

\* The high-water mark goes into the manifest before any record goes.
LEMMA CompactHighWaterKeeps ==
  ASSUME StoreInv, NEW s \in Stores, CompactHighWater(s)
  PROVE  StepOK
<1>1. /\ pc[s] = "compact_highwater" /\ lock' = lock /\ UNCHANGED <<ledgerVars, history>>
      /\ pc' = [pc EXCEPT ![s] = "compact_replace"] /\ work' = [work EXCEPT ![s] = work[s]]
      /\ cache' = [cache EXCEPT ![s] = NoCache]
      /\ WriteManifest(manifest.recordCount, work[s].last)
  BY DEF CompactHighWater, Goto
<1>2. /\ DOMAIN pc = Stores /\ DOMAIN work = Stores /\ DOMAIN cache = Stores
      /\ FilesOK /\ HistoryOK /\ WorkOK(s)
  BY DEF StoreInv
<1>3. /\ lock = s /\ tail = NoTail /\ manifest # NoManifest /\ Selected(work[s])
      /\ work[s].last = HighWater
  BY <1>1, <1>2 DEF WorkOK, Busy
<1>4. manifest.recordCount \in Nat /\ (ledgerVer = 0 => manifest.recordCount = 0)
  BY <1>2, <1>3 DEF FilesOK, Manifest
<1>5. /\ FilesOK' /\ HistoryOK' /\ LedgerStep /\ LogStep
      /\ manifest' # NoManifest /\ manifest'.lastSequence = HighWater /\ HighWater' = HighWater
  <2> DEFINE n == manifest.recordCount
             l == work[s].last
  <2>1. /\ n \in Nat /\ l = HighWater /\ WriteManifest(n, l) /\ (ledgerVer = 0 => n = 0)
        /\ UNCHANGED <<ledgerVars, pruned>> /\ acked' = acked
    BY <1>1, <1>3, <1>4 DEF history
  <2> HIDE DEF n, l
  <2>2. QED
    BY <1>2, <1>3, <2>1, ManifestKeeps
<1>6. /\ pc'[s] = "compact_replace" /\ work'[s] = work[s] /\ cache'[s] = NoCache
      /\ lines' = lines /\ tail' = tail
  BY <1>1, <1>2 DEF ledgerVars
<1>7. Selected(work[s])'
  BY <1>3, <1>6 DEF Selected
<1>8. CacheOK(s)' /\ WorkOK(s)'
  BY <1>1, <1>3, <1>5, <1>6, <1>7 DEF CacheOK, WorkOK, Busy
<1>9. StoreInv'
  BY <1>1, <1>2, <1>3, <1>5, <1>8, StoreStepKeeps
<1>10. QED
  BY <1>1, <1>5, <1>9 DEF StepOK, Onward, history

\* The ledger is replaced.
LEMMA CompactReplaceKeeps ==
  ASSUME StoreInv, NEW s \in Stores, CompactReplace(s)
  PROVE  StepOK
<1>1. /\ pc[s] = "compact_replace" /\ lock' = lock /\ cache' = cache
      /\ pc' = [pc EXCEPT ![s] = "compact_manifest"] /\ work' = [work EXCEPT ![s] = work[s]]
      /\ lines' = work[s].keep /\ pruned' = pruned \cup work[s].drop
      /\ ledgerVer' = ledgerVer + 1 /\ UNCHANGED <<tail, manifestVars, acked>>
  BY DEF CompactReplace, Goto
<1>2. /\ DOMAIN pc = Stores /\ DOMAIN work = Stores /\ DOMAIN cache = Stores
      /\ FilesOK /\ HistoryOK /\ CacheOK(s) /\ WorkOK(s)
  BY DEF StoreInv
<1>3. /\ lock = s /\ tail = NoTail /\ manifest # NoManifest /\ Selected(work[s])
      /\ work[s].last = HighWater /\ manifest.lastSequence = HighWater
  BY <1>1, <1>2 DEF WorkOK, Busy
<1>4. FilesOK' /\ HistoryOK' /\ LedgerStep /\ LogStep /\ HighWater' = HighWater
  <2> DEFINE w == work[s]
  <2>1. Selected(w) /\ lines' = w.keep /\ pruned' = pruned \cup w.drop
    BY <1>1, <1>3
  <2> HIDE DEF w
  <2>2. QED
    BY <1>1, <1>2, <1>3, <2>1, ReplaceKeeps
<1>5. CacheOK(s)'
  BY <1>1, <1>2, <1>4, CacheKeeps
<1>6. pc'[s] = "compact_manifest" /\ work'[s] = work[s] /\ manifest' = manifest
  BY <1>1, <1>2 DEF manifestVars
<1>7. WorkOK(s)'
  BY <1>1, <1>3, <1>4, <1>6 DEF WorkOK, Busy
<1>8. StoreInv'
  BY <1>1, <1>2, <1>3, <1>4, <1>5, <1>7, StoreStepKeeps
<1>9. QED
  BY <1>1, <1>4, <1>8 DEF StepOK, Onward

\* The manifest counts what is left.
LEMMA CompactManifestKeeps ==
  ASSUME StoreInv, NEW s \in Stores, CompactManifest(s)
  PROVE  StepOK
<1>1. /\ pc[s] = "compact_manifest" /\ lock' = NoStore /\ UNCHANGED <<ledgerVars, history>>
      /\ pc' = [pc EXCEPT ![s] = "open"] /\ work' = [work EXCEPT ![s] = NoWork]
      /\ cache' = [cache EXCEPT ![s] = CacheOf(lines, ledgerVer)]
      /\ WriteManifest(Len(lines), work[s].last)
  BY DEF CompactManifest, Return
<1>2. /\ DOMAIN pc = Stores /\ DOMAIN work = Stores /\ DOMAIN cache = Stores
      /\ FilesOK /\ HistoryOK /\ lock = s /\ tail = NoTail /\ work[s].last = HighWater
  BY <1>1 DEF StoreInv, WorkOK, Busy
<1>3. Len(lines) \in Nat /\ (ledgerVer = 0 => Len(lines) = 0)
  BY <1>2 DEF FilesOK
<1>4. FilesOK' /\ HistoryOK' /\ LedgerStep /\ LogStep
  BY <1>1, <1>2, <1>3, ManifestKeeps DEF history
<1>5. CacheOK(s)'
  <2>1. cache'[s] = CacheOf(lines, ledgerVer) /\ lines' = lines /\ ledgerVer' = ledgerVer /\ tail' = tail
    BY <1>1, <1>2 DEF ledgerVars
  <2>2. ledgerVer \in Nat
    BY <1>2 DEF FilesOK
  <2>3. QED
    BY <1>2, <2>1, <2>2 DEF CacheOK, CacheOf, Describes
<1>6. pc'[s] = "open"
  BY <1>1, <1>2
<1>7. WorkOK(s)'
  BY <1>1, <1>6, NoStoreAssumption DEF WorkOK, Busy
<1>8. StoreInv'
  BY <1>1, <1>2, <1>4, <1>5, <1>7, StoreStepKeeps
<1>9. QED
  BY <1>1, <1>4, <1>8 DEF StepOK, Onward, history

\* Where a failure leaves the files.
LEMMA CutKeeps ==
  ASSUME StoreInv, NEW s \in Stores,
         IF pc[s] = "append_write" THEN PartialWrite(s) ELSE UNCHANGED ledgerVars,
         UNCHANGED <<manifestVars, history>>
  PROVE  FilesOK' /\ HistoryOK' /\ LedgerStep /\ LogStep
<1>1. FilesOK /\ HistoryOK /\ WorkOK(s)
  BY DEF StoreInv
<1>2. CASE pc[s] = "append_write"
  <2>1. manifest # NoManifest /\ Fresh(work[s].rec)
    BY <1>1, <1>2 DEF WorkOK, Busy
  <2>2. tail' \in {NoTail, Torn, work[s].rec} /\ ledgerVer' = ledgerVer + 1 /\ lines' = lines
    BY <1>2 DEF PartialWrite
  <2>3. QED
    BY <1>1, <2>1, <2>2, PartialKeeps
<1>3. CASE pc[s] # "append_write"
  <2>1. /\ lines' = lines /\ tail' = tail /\ ledgerVer' = ledgerVer
        /\ manifest' = manifest /\ manifestVer' = manifestVer /\ acked' = acked /\ pruned' = pruned
    BY <1>3 DEF ledgerVars, manifestVars, history
  <2>2. HighWater' = HighWater
    BY <2>1 DEF HighWater
  <2>3. FilesOK' /\ HistoryOK'
    BY <1>1, <2>1, <2>2 DEF FilesOK, HistoryOK, Increasing, Fresh
  <2>4. QED
    BY <1>1, <2>1, <2>2, <2>3 DEF LedgerStep, LogStep, FilesOK, ledgerVars
<1>4. QED
  BY <1>2, <1>3

\* An I/O call throws.
LEMMA FailKeeps ==
  ASSUME StoreInv, NEW s \in Stores, Fail(s)
  PROVE  StepOK
<1>1. /\ lock = s /\ lock' = NoStore /\ cache' = cache /\ UNCHANGED <<manifestVars, history>>
      /\ work' = [work EXCEPT ![s] = NoWork]
      /\ pc' = [pc EXCEPT ![s] = IF pc[s] = "open_manifest" THEN "closed" ELSE "open"]
      /\ IF pc[s] = "append_write" THEN PartialWrite(s) ELSE UNCHANGED ledgerVars
  BY DEF Fail, Return
<1>2. /\ DOMAIN pc = Stores /\ DOMAIN work = Stores /\ DOMAIN cache = Stores
      /\ FilesOK /\ CacheOK(s)
  BY DEF StoreInv
<1>3. FilesOK' /\ HistoryOK' /\ LedgerStep /\ LogStep
  BY <1>1, CutKeeps
<1>4. CacheOK(s)'
  BY <1>1, <1>2, <1>3, CacheKeeps
<1>5. pc'[s] \in {"closed", "open"}
  BY <1>1, <1>2
<1>6. WorkOK(s)'
  BY <1>1, <1>5, NoStoreAssumption DEF WorkOK, Busy
<1>7. StoreInv'
  BY <1>1, <1>2, <1>3, <1>4, <1>6, StoreStepKeeps
<1>8. QED
  BY <1>1, <1>3, <1>7 DEF StepOK, Onward, history

\* A process dies, inside the lock or while another is.
LEMMA CrashKeeps ==
  ASSUME StoreInv, NEW s \in Stores, Crash(s)
  PROVE  StepOK
<1>1. /\ lock' = (IF lock = s THEN NoStore ELSE lock) /\ UNCHANGED <<manifestVars, history>>
      /\ work' = [work EXCEPT ![s] = NoWork] /\ cache' = [cache EXCEPT ![s] = NoCache]
      /\ pc' = [pc EXCEPT ![s] = "closed"]
      /\ IF pc[s] = "append_write" THEN PartialWrite(s) ELSE UNCHANGED ledgerVars
  BY DEF Crash
<1>2. /\ DOMAIN pc = Stores /\ DOMAIN work = Stores /\ DOMAIN cache = Stores
      /\ FilesOK /\ HistoryOK /\ WorkOK(s) /\ lock \in Stores \cup {NoStore}
  BY DEF StoreInv
<1>3. FilesOK' /\ HistoryOK' /\ LedgerStep /\ LogStep
  BY <1>1, CutKeeps
<1>4. pc'[s] = "closed" /\ cache'[s] = NoCache /\ lock' # s
  BY <1>1, <1>2, NoStoreAssumption
<1>5. CacheOK(s)' /\ WorkOK(s)'
  BY <1>4 DEF CacheOK, WorkOK, Busy
<1>6. CASE lock \in {s, NoStore}
  <2>1. StoreInv'
    BY <1>1, <1>2, <1>3, <1>5, <1>6, StoreStepKeeps
  <2>2. QED
    BY <1>1, <1>3, <2>1 DEF StepOK, Onward, history
<1>7. CASE lock \notin {s, NoStore}
  <2>1. pc[s] # "append_write"
    BY <1>2, <1>7 DEF WorkOK, Busy
  <2>2. /\ lines' = lines /\ tail' = tail /\ ledgerVer' = ledgerVer /\ manifest' = manifest /\ lock' = lock
    BY <1>1, <1>7, <2>1 DEF ledgerVars, manifestVars
  <2>3. ASSUME NEW d \in Stores \ {s} PROVE CacheOK(d)' /\ WorkOK(d)'
    <3>1. /\ CacheOK(d) /\ WorkOK(d) /\ pc'[d] = pc[d] /\ work'[d] = work[d] /\ cache'[d] = cache[d]
      BY <1>1, <1>2 DEF StoreInv
    <3>2. HighWater' = HighWater
      BY <2>2 DEF HighWater
    <3>3. CacheOK(d)'
      BY <1>2, <1>3, <3>1, CacheKeeps
    <3>4. WorkOK(d)'
      BY <2>2, <3>1, <3>2 DEF WorkOK, Fresh, Describes, Selected
    <3>5. QED
      BY <3>3, <3>4
  <2>4. StoreInv'
    BY <1>1, <1>2, <1>3, <1>5, <2>2, <2>3 DEF StoreInv
  <2>5. QED
    BY <1>1, <1>3, <2>4 DEF StepOK, Onward, history
<1>8. QED
  BY <1>6, <1>7

\* Every step of a store.
LEMMA StoreStepOK ==
  ASSUME StoreInv, NEW s \in Stores, StoreStep(s)
  PROVE  StepOK /\ reader' = reader
<1>1. ASSUME NEW id \in RecordIds, AppendStart(s, id) \/ AppendRefused(s, id)
      PROVE  StepOK /\ reader' = reader
  BY <1>1, AppendStartKeeps, AppendRefusedKeeps DEF AppendStart, AppendRefused
<1>2. ASSUME NEW ids \in SUBSET RecordIds, CompactStart(s, ids) PROVE StepOK /\ reader' = reader
  BY <1>2, CompactStartKeeps DEF CompactStart
<1>3. ASSUME OpenStart(s) \/ OpenManifest(s) PROVE StepOK /\ reader' = reader
  BY <1>3, OpenStartKeeps, OpenManifestKeeps DEF OpenStart, OpenManifest, Return
<1>4. ASSUME AppendWrite(s) \/ AppendManifest(s) PROVE StepOK /\ reader' = reader
  BY <1>4, AppendWriteKeeps, AppendManifestKeeps DEF AppendWrite, AppendManifest, Goto, Return
<1>5. ASSUME CompactHighWater(s) \/ CompactReplace(s) \/ CompactManifest(s)
      PROVE  StepOK /\ reader' = reader
  BY <1>5, CompactHighWaterKeeps, CompactReplaceKeeps, CompactManifestKeeps
     DEF CompactHighWater, CompactReplace, CompactManifest, Goto, Return
<1>6. ASSUME Fail(s) \/ Crash(s) PROVE StepOK /\ reader' = reader
  BY <1>6, FailKeeps, CrashKeeps DEF Fail, Crash, Return
<1>7. QED
  BY <1>1, <1>2, <1>3, <1>4, <1>5, <1>6 DEF StoreStep

-----------------------------------------------------------------------------
(* Readers *)

\* What a reader has read: the ledger as it was at some point since the call.
HasRead(rd) ==
  /\ rd.base.acked \ pruned \subseteq ToSet(rd.records)
  /\ rd.base.pruned \cap ToSet(rd.records) = {}
  /\ Increasing(rd.records)

\* What it finds corrupt has changed since it was opened.
ReaderOK(r) ==
  LET rd == reader[r]
  IN  /\ rd.pc \in {"open", "read", "check"} =>
           rd.base.acked \subseteq acked /\ rd.base.pruned \subseteq pruned
      /\ rd.pc \in {"read", "check"} => rd.lver \in Nat /\ rd.lver <= ledgerVer /\ HasRead(rd)
      /\ rd.pc = "check" /\ rd.corrupt => rd.lver < ledgerVer
      /\ rd.pc = "done" => rd.status # "ledger_corruption"
      /\ rd.pc = "done" /\ rd.status # "in_progress" => HasRead(rd)

ReadersInv == DOMAIN reader = Readers /\ \A r \in Readers : ReaderOK(r)

\* A reader is not disturbed by the stores.
LEMMA ReaderStays ==
  ASSUME StoreInv, NEW r \in Readers, ReaderOK(r), reader'[r] = reader[r], Onward
  PROVE  ReaderOK(r)'
<1>1. /\ ledgerVer \in Nat /\ ledgerVer' \in Nat /\ ledgerVer <= ledgerVer'
      /\ acked \subseteq acked' /\ pruned \subseteq pruned'
  BY DEF Onward, LedgerStep, StoreInv, FilesOK, ledgerVars
<1>2. \A rd : HasRead(rd) => HasRead(rd)'
  BY <1>1 DEF HasRead, Increasing
<1>3. QED
  BY <1>1, <1>2 DEF ReaderOK

\* Each step of a reader.
LEMMA ReadStepKeeps ==
  ASSUME StoreInv, ReadersInv, NEW r \in Readers, ReadStep(r)
  PROVE  ReadersInv' /\ UNCHANGED <<ledgerVars, manifestVars, storeVars, history>>
<1>1. PICK state : /\ reader' = [reader EXCEPT ![r] = state]
                   /\ UNCHANGED <<ledgerVars, manifestVars, storeVars, history>>
  BY Zenon DEF ReadStep, ReadStart, ReadOpen, ReadBytes, ReadReturn, ReadRetry, ReadForget, ReaderStep
<1>2. /\ lines' = lines /\ tail' = tail /\ ledgerVer' = ledgerVer /\ manifest' = manifest
      /\ acked' = acked /\ pruned' = pruned
  BY <1>1 DEF ledgerVars, manifestVars, history
<1>3. DOMAIN reader = Readers /\ ReaderOK(r) /\ FilesOK /\ HistoryOK
  BY DEF ReadersInv, StoreInv
<1>4. reader'[r] = state
  BY <1>1, <1>3
<1>5. ASSUME ReadStart(r) PROVE ReaderOK(r)'
  <2>1. reader'[r] = [pc |-> "open", attempt |-> 1, mver |-> manifestVer,
                      base |-> [acked |-> acked, pruned |-> pruned]]
    BY <1>3, <1>5 DEF ReadStart, ReaderStep
  <2>2. /\ reader'[r].pc = "open" /\ reader'[r].base.acked = acked
        /\ reader'[r].base.pruned = pruned
    BY <2>1
  <2>3. QED
    BY <1>2, <2>2 DEF ReaderOK
<1>6. ASSUME ReadOpen(r) PROVE ReaderOK(r)'
  <2>1. /\ reader[r].pc = "open"
        /\ reader'[r] = [pc |-> "read", attempt |-> reader[r].attempt,
                         mver |-> reader[r].mver, base |-> reader[r].base,
                         lver |-> ledgerVer, records |-> lines, tail |-> tail]
    BY <1>3, <1>6 DEF ReadOpen, ReaderStep
  <2>2. /\ reader'[r].pc = "read" /\ reader'[r].base = reader[r].base
        /\ reader'[r].lver = ledgerVer /\ reader'[r].records = lines
    BY <2>1
  <2>3. reader[r].base.acked \subseteq acked /\ reader[r].base.pruned \subseteq pruned
    BY <1>3, <2>1 DEF ReaderOK
  <2>4. HasRead(reader[r])'
    BY <1>2, <1>3, <2>2, <2>3 DEF HasRead, FilesOK, HistoryOK
  <2>5. QED
    BY <1>2, <1>3, <2>2, <2>3, <2>4 DEF ReaderOK, FilesOK
<1>7. ASSUME NEW garbled \in BOOLEAN, ReadBytes(r, garbled) PROVE ReaderOK(r)'
  <2> DEFINE bad == \/ garbled
                    \/ /\ reader[r].lver = 0
                       /\ manifest # NoManifest
                       /\ manifest.recordCount > 0
  <2>1. /\ reader[r].pc = "read" /\ (garbled => MayGarble(r))
        /\ reader'[r] = [pc |-> "check", attempt |-> reader[r].attempt,
                         mver |-> reader[r].mver, base |-> reader[r].base,
                         lver |-> reader[r].lver, records |-> reader[r].records,
                         whole |-> reader[r].tail = NoTail, corrupt |-> bad]
    BY <1>3, <1>7 DEF ReadBytes, ReaderStep
  <2>2. /\ reader'[r].pc = "check" /\ reader'[r].base = reader[r].base
        /\ reader'[r].lver = reader[r].lver /\ reader'[r].records = reader[r].records
    BY <2>1
  <2>3. reader'[r].corrupt = bad
    <3>1. ASSUME NEW whole, NEW b,
                 reader'[r] = [pc |-> "check", attempt |-> reader[r].attempt,
                               mver |-> reader[r].mver, base |-> reader[r].base,
                               lver |-> reader[r].lver, records |-> reader[r].records,
                               whole |-> whole, corrupt |-> b]
          PROVE  reader'[r].corrupt = b
      BY <3>1
    <3> HIDE DEF bad
    <3>2. QED
      BY <2>1, <3>1, Zenon
  <2>4. /\ reader[r].base.acked \subseteq acked /\ reader[r].base.pruned \subseteq pruned
        /\ reader[r].lver \in Nat /\ reader[r].lver <= ledgerVer /\ HasRead(reader[r])
    BY <1>3, <2>1 DEF ReaderOK
  <2>5. bad => reader[r].lver < ledgerVer
    BY <1>3, <2>1, <2>4 DEF MayGarble, FilesOK
  <2> HIDE DEF bad
  <2>6. HasRead(reader[r])'
    BY <1>2, <2>2, <2>4 DEF HasRead
  <2>7. reader'[r].corrupt => reader'[r].lver < ledgerVer'
    BY <1>2, <2>2, <2>3, <2>5
  <2>8. QED
    BY <1>2, <2>2, <2>4, <2>6, <2>7 DEF ReaderOK
<1>8. ASSUME ReadReturn(r) PROVE ReaderOK(r)'
  <2>1. /\ reader[r].pc = "check" /\ reader[r].lver = ledgerVer
        /\ reader'[r] = [pc |-> "done", base |-> reader[r].base,
                         status |-> IF reader[r].corrupt THEN "ledger_corruption"
                                    ELSE IF reader[r].whole THEN "complete"
                                    ELSE "incomplete_tail",
                         records |-> reader[r].records]
    BY <1>3, <1>8 DEF ReadReturn, ReaderStep, Unchanged, SameLedger
  <2>2. ~reader[r].corrupt /\ HasRead(reader[r])
    BY <1>3, <2>1 DEF ReaderOK, FilesOK
  <2>3. /\ reader'[r].pc = "done" /\ reader'[r].base = reader[r].base
        /\ reader'[r].records = reader[r].records /\ reader'[r].status # "ledger_corruption"
    BY <2>1, <2>2
  <2>4. HasRead(reader[r])'
    BY <1>2, <2>2, <2>3 DEF HasRead
  <2>5. QED
    BY <2>3, <2>4 DEF ReaderOK
<1>9. ASSUME ReadRetry(r) PROVE ReaderOK(r)'
  <2>1. /\ reader[r].pc = "check"
        /\ reader'[r] \in {[pc |-> "open", attempt |-> reader[r].attempt + 1,
                            mver |-> manifestVer, base |-> reader[r].base],
                           [pc |-> "done", base |-> reader[r].base,
                            status |-> "in_progress", records |-> <<>>]}
    BY <1>3, <1>9 DEF ReadRetry, ReaderStep
  <2>2. reader[r].base.acked \subseteq acked /\ reader[r].base.pruned \subseteq pruned
    BY <1>3, <2>1 DEF ReaderOK
  <2>3. \/ reader'[r].pc = "open" /\ reader'[r].base = reader[r].base
        \/ reader'[r].pc = "done" /\ reader'[r].status = "in_progress"
    BY <2>1
  <2>4. QED
    BY <1>2, <2>2, <2>3 DEF ReaderOK
<1>10. ASSUME ReadForget(r) PROVE ReaderOK(r)'
  <2>1. reader'[r].pc = "idle"
    BY <1>3, <1>10 DEF ReadForget, ReaderStep
  <2>2. QED
    BY <2>1 DEF ReaderOK
<1>11. ReaderOK(r)'
  BY <1>5, <1>6, <1>7, <1>8, <1>9, <1>10 DEF ReadStep
<1>12. ASSUME NEW q \in Readers \ {r} PROVE ReaderOK(q)'
  <2>1. ReaderOK(q) /\ reader'[q] = reader[q]
    BY <1>1 DEF ReadersInv
  <2>2. Onward
    BY <1>1, <1>2, <1>3 DEF Onward, LedgerStep, FilesOK, ledgerVars
  <2>3. QED
    BY <2>1, <2>2, ReaderStays
<1>13. QED
  BY <1>1, <1>3, <1>11, <1>12 DEF ReadersInv

-----------------------------------------------------------------------------
(* The theorems *)

\* The inductive invariant.
IInv == StoreInv /\ ReadersInv

\* The initial state satisfies it.
LEMMA InitEstablishes == Init => IInv
<1> SUFFICES ASSUME Init PROVE IInv
  OBVIOUS
<1>1. FilesOK
  BY DEF Init, FilesOK, Increasing
<1>2. HistoryOK
  BY DEF Init, HistoryOK
<1>3. ASSUME NEW s \in Stores PROVE CacheOK(s) /\ WorkOK(s)
  BY NoStoreAssumption DEF Init, CacheOK, WorkOK, Busy
<1>4. ASSUME NEW r \in Readers PROVE ReaderOK(r)
  BY DEF Init, ReaderOK
<1>5. QED
  BY <1>1, <1>2, <1>3, <1>4 DEF Init, IInv, StoreInv, ReadersInv

\* Every step keeps it, and is a step of the log or leaves the log alone.
LEMMA NextKeeps == IInv /\ [Next]_vars => IInv' /\ LogStep
<1> SUFFICES ASSUME IInv, [Next]_vars PROVE IInv' /\ LogStep
  OBVIOUS
<1>1. StoreInv /\ ReadersInv
  BY DEF IInv
<1>2. ASSUME UNCHANGED <<ledgerVars, manifestVars, storeVars, history>>
      PROVE  StoreInv' /\ LogStep
  <2>1. /\ lines' = lines /\ tail' = tail /\ ledgerVer' = ledgerVer
        /\ manifest' = manifest /\ manifestVer' = manifestVer /\ acked' = acked /\ pruned' = pruned
        /\ lock' = lock /\ pc' = pc /\ work' = work /\ cache' = cache
    BY <1>2 DEF ledgerVars, manifestVars, storeVars, history
  <2>2. HighWater' = HighWater
    BY <2>1 DEF HighWater
  <2>3. FilesOK' /\ HistoryOK'
    BY <1>1, <2>1, <2>2 DEF StoreInv, FilesOK, HistoryOK, Increasing, Fresh
  <2>4. ASSUME NEW s \in Stores PROVE CacheOK(s)' /\ WorkOK(s)'
    <3>1. CacheOK(s) /\ WorkOK(s)
      BY <1>1 DEF StoreInv
    <3>2. QED
      BY <2>1, <2>2, <3>1 DEF CacheOK, WorkOK, Fresh, Describes, Selected
  <2>5. QED
    BY <1>1, <2>1, <2>2, <2>3, <2>4 DEF StoreInv, LogStep
<1>3. ASSUME NEW s \in Stores, StoreStep(s) PROVE IInv' /\ LogStep
  <2>1. StepOK /\ reader' = reader
    BY <1>1, <1>3, StoreStepOK
  <2>2. ReadersInv'
    BY <1>1, <2>1, ReaderStays DEF StepOK, ReadersInv
  <2>3. QED
    BY <2>1, <2>2 DEF StepOK, IInv
<1>4. ASSUME NEW r \in Readers, ReadStep(r) PROVE IInv' /\ LogStep
  BY <1>1, <1>2, <1>4, ReadStepKeeps DEF IInv
<1>5. CASE UNCHANGED vars
  <2>1. UNCHANGED <<ledgerVars, manifestVars, storeVars, history>> /\ reader' = reader
    BY <1>5 DEF vars
  <2>2. Onward
    <3>1. acked' = acked /\ pruned' = pruned /\ ledgerVer' = ledgerVer /\ UNCHANGED ledgerVars
      BY <2>1 DEF history, ledgerVars
    <3>2. QED
      BY <1>1, <3>1 DEF Onward, LedgerStep, StoreInv, FilesOK
  <2>3. ReadersInv'
    BY <1>1, <2>1, <2>2, ReaderStays DEF ReadersInv
  <2>4. QED
    BY <1>2, <2>1, <2>3 DEF IInv
<1>6. QED
  BY <1>3, <1>4, <1>5 DEF Next

\* So it always holds.
LEMMA Invariance == Spec => []IInv
  BY InitEstablishes, NextKeeps, PTL DEF Spec

\* The types of the files, and the lock belongs to the store inside it.
THEOREM TypeCorrect == Spec => []TypeOK
<1>1. IInv => TypeOK
  <2> SUFFICES ASSUME IInv PROVE TypeOK
    OBVIOUS
  <2>1. tail \in Record \cup {NoTail, Torn}
    BY DEF IInv, StoreInv, FilesOK, Fresh
  <2>2. \A s \in Stores : lock = s <=> pc[s] \in Busy
    BY DEF IInv, StoreInv, WorkOK
  <2>3. QED
    BY <2>1, <2>2 DEF IInv, StoreInv, FilesOK, HistoryOK, TypeOK, Busy
<1>2. QED
  BY <1>1, Invariance, PTL

\* Whatever initialize finds, after whichever crashes and failures, it accepts and
\* repairs.
THEOREM RecoverableHolds == Spec => []Recoverable
<1>1. IInv => Recoverable
  <2> SUFFICES ASSUME IInv PROVE Recoverable
    OBVIOUS
  <2>1. FilesOK
    BY DEF IInv, StoreInv
  <2>2. CASE tail \in {NoTail, Torn}
    BY <2>1, <2>2 DEF Recoverable, RepairedLines, FilesOK
  <2>3. CASE tail \notin {NoTail, Torn}
    <3>1. Fresh(tail) /\ lines \in Seq(Record) /\ Increasing(lines)
      BY <2>1, <2>3 DEF FilesOK
    <3>2. tail \in Record /\ tail.seq > LastSeq(lines) /\ tail.id \notin IdsOf(lines)
      BY <2>1, <3>1, HighWaterType DEF Fresh
    <3>3. Increasing(Append(lines, tail))
      BY <3>1, <3>2, AppendIncreasing
    <3>4. QED
      BY <2>1, <2>3, <3>3 DEF Recoverable, RepairedLines, FilesOK
  <2>4. QED
    BY <2>2, <2>3
<1>2. QED
  BY <1>1, Invariance, PTL

\* An acknowledged append is lost by nothing but a compaction that drops it.
THEOREM AckedSurvivesHolds == Spec => []AckedSurvives
<1>1. IInv => AckedSurvives
  BY DEF IInv, StoreInv, HistoryOK, AckedSurvives
<1>2. QED
  BY <1>1, Invariance, PTL

\* A cache that appendRecord trusts is true of the file.
THEOREM CacheSoundHolds == Spec => []CacheSound
<1>1. IInv => CacheSound
  BY DEF IInv, StoreInv, CacheOK, CacheValid, Describes, CacheSound
<1>2. QED
  BY <1>1, Invariance, PTL

\* readLedgerSnapshot, which takes no lock, answers with a state of the ledger.
THEOREM SnapshotLinearizableHolds == Spec => []SnapshotLinearizable
<1>1. IInv => SnapshotLinearizable
  BY DEF IInv, ReadersInv, ReaderOK, HasRead, SnapshotLinearizable, Answered
<1>2. QED
  BY <1>1, Invariance, PTL

\* It reports no corruption of a ledger that is being written.
THEOREM NoFalseCorruptionHolds == Spec => []NoFalseCorruption
<1>1. IInv => NoFalseCorruption
  BY DEF IInv, ReadersInv, ReaderOK, NoFalseCorruption
<1>2. QED
  BY <1>1, Invariance, PTL

\* The ledger with its crashes, repairs and compactions implements the append-only
\* log of AppendOnlyLog.
THEOREM LedgerImplementsLog == Spec => ImplementsLog
<1>1. Init => Log!Init
  BY DEF Init, Log!Init, HighWater, LastSeq, MaxOf
<1>2. IInv /\ [Next]_vars => [Log!Next]_<<lines, HighWater>>
  BY NextKeeps DEF LogStep
<1>3. QED
  BY <1>1, <1>2, Invariance, PTL DEF Spec, ImplementsLog, Log!Spec
=============================================================================
