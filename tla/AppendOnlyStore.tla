--------------------------- MODULE AppendOnlyStore ---------------------------
(***************************************************************************)
(* The JSONL state ledger: AppendOnlyStore                                  *)
(* (packages/state-ledger/src/append-only-store.ts) and its lock-free       *)
(* reader readLedgerSnapshot (packages/state-ledger/src/ledger-snapshot.ts).*)
(*                                                                         *)
(* Writers run initialize, appendRecord and compactRecords inside           *)
(* store.lock, one durable effect per step; a writer may die, or an I/O     *)
(* call may fail, between any two of them and in the middle of a write of   *)
(* the ledger.  Readers take no lock: they stat, open, read and stat again  *)
(* while writers go on.  A file is its contents plus a version that every   *)
(* change of its inode, size or times moves on.  The size limit is counted  *)
(* in records.  The index files and the repair counter are left out: the    *)
(* code writes them and reads neither to decide anything.                   *)
(***************************************************************************)
EXTENDS Integers, Sequences, FiniteSets, SequencesExt, Subsequence

CONSTANTS
  Stores,      \* AppendOnlyStore instances, each with a record cache
  Readers,     \* callers of readLedgerSnapshot
  RecordIds,   \* record identities callers may ask for
  MaxRecords,  \* maxSnapshotBytes, in records
  MaxAttempts, \* attempts of a reader (3 in the code)
  MaxOps,      \* bound on the operations started
  NoStore, NoTail, Torn, NoManifest, NoCache, NoWork

ASSUME LimitsAssumption ==
  MaxRecords \in Nat /\ MaxAttempts \in Nat \ {0} /\ MaxOps \in Nat

ASSUME NoStoreAssumption == NoStore \notin Stores

Record   == [id: RecordIds, seq: Nat]
Manifest == [recordCount: Nat, lastSequence: Nat]

ASSUME NoManifestAssumption == NoManifest \notin Manifest

VARIABLES
  lines,      \* ledger.jsonl: the newline-terminated records
  tail,       \* what follows the last newline: NoTail, Torn, or a whole
              \* record that lacks only its newline
  ledgerVer,  \* version of ledger.jsonl, 0 while there is no file
  manifest,   \* manifest.json: [recordCount, lastSequence] or NoManifest
  manifestVer,
  lock,       \* the store inside store.lock, or NoStore
  pc,         \* what each store is doing
  work,       \* the data of its operation
  cache,      \* its record cache, or NoCache
  reader,     \* the state of each reader
  acked,      \* history: records whose append was acknowledged
  pruned,     \* history: records a compaction dropped
  ops         \* operations started so far

ledgerVars  == <<lines, tail, ledgerVer>>
manifestVars == <<manifest, manifestVer>>
storeVars   == <<lock, pc, work, cache>>
history     == <<acked, pruned>>
vars == <<ledgerVars, manifestVars, storeVars, reader, history, ops>>

-----------------------------------------------------------------------------
(* The files *)

LastSeq(recs) == IF recs = <<>> THEN 0 ELSE Last(recs).seq
MaxOf(a, b) == IF a >= b THEN a ELSE b
IdsOf(recs) == {recs[k].id : k \in DOMAIN recs}

\* What writableRecords returns, and leaves in the ledger: a whole record is
\* given its newline, a torn one is cut off.
RepairedLines == IF tail \in {NoTail, Torn} THEN lines ELSE Append(lines, tail)

Repair ==
  /\ lines' = RepairedLines
  /\ tail' = NoTail
  /\ ledgerVer' = IF tail = NoTail THEN ledgerVer ELSE ledgerVer + 1

WriteManifest(count, lastSequence) ==
  /\ manifest' = [recordCount |-> count, lastSequence |-> lastSequence]
  /\ manifestVer' = manifestVer + 1

\* cacheRecords
CacheOf(recs, ver) ==
  [identity |-> ver, count |-> Len(recs),
   lastSequence |-> LastSeq(recs), ids |-> IdsOf(recs)]

\* As CacheAfter, without the new identity.
CacheAfterForgettingId(c, rec, ver) ==
  [identity |-> ver, count |-> c.count + 1,
   lastSequence |-> rec.seq, ids |-> c.ids]

\* The cache after a successful append, with the identity read last.
CacheAfter(c, rec, ver) ==
  [identity |-> ver, count |-> c.count + 1,
   lastSequence |-> rec.seq, ids |-> c.ids \cup {rec.id}]

Init ==
  /\ lines = <<>> /\ tail = NoTail /\ ledgerVer = 0
  /\ manifest = NoManifest /\ manifestVer = 0
  /\ lock = NoStore
  /\ pc = [s \in Stores |-> "closed"]
  /\ work = [s \in Stores |-> NoWork]
  /\ cache = [s \in Stores |-> NoCache]
  /\ reader = [r \in Readers |-> [pc |-> "idle"]]
  /\ acked = {} /\ pruned = {}
  /\ ops = 0

\* As Enter, without the lock.
EnterWithoutLock(s, from, to, w) ==
  /\ pc[s] = from
  /\ ops < MaxOps
  /\ ops' = ops + 1
  /\ lock' = s
  /\ pc' = [pc EXCEPT ![s] = to]
  /\ work' = [work EXCEPT ![s] = w]

\* Entry into store.lock.
Enter(s, from, to, w) ==
  /\ pc[s] = from
  /\ ops < MaxOps
  /\ ops' = ops + 1
  /\ lock = NoStore
  /\ lock' = s
  /\ pc' = [pc EXCEPT ![s] = to]
  /\ work' = [work EXCEPT ![s] = w]

Goto(s, to, w) ==
  /\ pc' = [pc EXCEPT ![s] = to]
  /\ work' = [work EXCEPT ![s] = w]
  /\ UNCHANGED <<lock, reader, ops>>

\* As Return, with the lock kept.
ReturnLocked(s, to) ==
  /\ pc' = [pc EXCEPT ![s] = to]
  /\ work' = [work EXCEPT ![s] = NoWork]
  /\ UNCHANGED <<lock, reader, ops>>

\* The operation is over, acknowledged or not.
Return(s, to) ==
  /\ lock' = NoStore
  /\ pc' = [pc EXCEPT ![s] = to]
  /\ work' = [work EXCEPT ![s] = NoWork]
  /\ UNCHANGED <<reader, ops>>

-----------------------------------------------------------------------------
(* initialize *)

\* The lock, the manifest check and the repair.
OpenStart(s) ==
  /\ Enter(s, "closed", "open_manifest", NoWork)
  /\ ~(manifest = NoManifest /\ ledgerVer # 0)
  /\ Repair
  /\ UNCHANGED <<manifestVars, cache, reader, history>>

OpenManifest(s) ==
  /\ pc[s] = "open_manifest"
  /\ WriteManifest(Len(lines),
       MaxOf(IF manifest = NoManifest THEN 0 ELSE manifest.lastSequence,
             LastSeq(lines)))
  /\ cache' = [cache EXCEPT ![s] = CacheOf(lines, ledgerVer)]
  /\ Return(s, "open")
  /\ UNCHANGED <<ledgerVars, history>>

-----------------------------------------------------------------------------
(* appendRecord *)

\* Any cache is taken at its word.
CacheTrusted(s) == cache[s] # NoCache

\* The records an append trusts: its cache while the file is the one it
\* described, the repaired file otherwise.
CacheValid(s) == cache[s] # NoCache /\ cache[s].identity = ledgerVer

Trusted(s) ==
  IF CacheValid(s) THEN cache[s]
  ELSE CacheOf(RepairedLines, IF tail = NoTail THEN ledgerVer ELSE ledgerVer + 1)

\* The sequence number follows the records alone.
NextSequenceOfRecords(s) == Trusted(s).lastSequence + 1

NextSequence(s) == MaxOf(manifest.lastSequence, Trusted(s).lastSequence) + 1

RepairUnlessCached(s) ==
  IF CacheValid(s) THEN UNCHANGED ledgerVars ELSE Repair

\* The lock, the cache or the repair, the sequence number and the checks.
\* The cache is dropped before the write.
AppendStart(s, id) ==
  /\ Enter(s, "open", "append_write",
           [rec |-> [id |-> id, seq |-> NextSequence(s)], cache |-> Trusted(s)])
  /\ manifest # NoManifest
  /\ id \notin Trusted(s).ids
  /\ Trusted(s).count < MaxRecords
  /\ RepairUnlessCached(s)
  /\ cache' = [cache EXCEPT ![s] = NoCache]
  /\ UNCHANGED <<manifestVars, reader, history>>

\* A duplicate identity or a full ledger: the append throws after the repair.
AppendRefused(s, id) ==
  /\ pc[s] = "open"
  /\ ops < MaxOps
  /\ ops' = ops + 1
  /\ lock = NoStore
  /\ manifest # NoManifest
  /\ id \in Trusted(s).ids \/ Trusted(s).count >= MaxRecords
  /\ RepairUnlessCached(s)
  /\ cache' = [cache EXCEPT ![s] = Trusted(s)]
  /\ UNCHANGED <<manifestVars, lock, pc, work, reader, history>>

AppendWrite(s) ==
  /\ pc[s] = "append_write"
  /\ lines' = Append(lines, work[s].rec)
  /\ ledgerVer' = ledgerVer + 1
  /\ Goto(s, "append_manifest", work[s])
  /\ UNCHANGED <<tail, manifestVars, cache, history>>

AppendManifest(s) ==
  /\ pc[s] = "append_manifest"
  /\ WriteManifest(work[s].cache.count + 1, work[s].rec.seq)
  /\ cache' = [cache EXCEPT ![s] =
                 CacheAfter(work[s].cache, work[s].rec, ledgerVer)]
  /\ acked' = acked \cup {work[s].rec}
  /\ Return(s, "open")
  /\ UNCHANGED <<ledgerVars, pruned>>

\* The write stops part way: nothing, a fragment, or all but the newline is
\* in the file.
PartialWrite(s) ==
  /\ pc[s] = "append_write"
  /\ tail' \in {NoTail, Torn, work[s].rec}
  /\ ledgerVer' = ledgerVer + 1
  /\ UNCHANGED lines

-----------------------------------------------------------------------------
(* compactRecords *)

\* The lock, the repair and the selection of what to keep; work holds the
\* manifest value the whole operation started from.
CompactStart(s, keep) ==
  /\ Enter(s, "open", "compact_highwater",
           [keep |-> Subsequence(RepairedLines,
                                 {k \in DOMAIN RepairedLines : RepairedLines[k].id \in keep}),
            drop |-> {r \in ToSet(RepairedLines) : r.id \notin keep},
            last |-> MaxOf(manifest.lastSequence, LastSeq(RepairedLines))])
  /\ manifest # NoManifest
  /\ keep \subseteq IdsOf(RepairedLines)
  /\ Repair
  /\ UNCHANGED <<manifestVars, cache, reader, history>>

\* The manifest is left to the checkpoint at the end.
CompactHighWaterSkipped(s) ==
  /\ pc[s] = "compact_highwater"
  /\ cache' = [cache EXCEPT ![s] = NoCache]
  /\ Goto(s, "compact_replace", work[s])
  /\ UNCHANGED <<ledgerVars, manifestVars, history>>

\* The high-water mark is durable before any record goes.
CompactHighWater(s) ==
  /\ pc[s] = "compact_highwater"
  /\ WriteManifest(manifest.recordCount, work[s].last)
  /\ cache' = [cache EXCEPT ![s] = NoCache]
  /\ Goto(s, "compact_replace", work[s])
  /\ UNCHANGED <<ledgerVars, history>>

CompactReplace(s) ==
  /\ pc[s] = "compact_replace"
  /\ pruned' = pruned \cup work[s].drop
  /\ lines' = work[s].keep
  /\ ledgerVer' = ledgerVer + 1
  /\ Goto(s, "compact_manifest", work[s])
  /\ UNCHANGED <<tail, manifestVars, cache, acked>>

CompactManifest(s) ==
  /\ pc[s] = "compact_manifest"
  /\ WriteManifest(Len(lines), work[s].last)
  /\ cache' = [cache EXCEPT ![s] = CacheOf(lines, ledgerVer)]
  /\ Return(s, "open")
  /\ UNCHANGED <<ledgerVars, history>>

-----------------------------------------------------------------------------
(* Failures *)

\* An I/O call throws: the lock is left, the instance lives on with the
\* cache it has at that point.  A failed open leaves no instance.
Fail(s) ==
  /\ lock = s
  /\ IF pc[s] = "append_write" THEN PartialWrite(s) ELSE UNCHANGED ledgerVars
  /\ Return(s, IF pc[s] = "open_manifest" THEN "closed" ELSE "open")
  /\ UNCHANGED <<manifestVars, cache, history>>

\* The process dies; SQLite's lock dies with it.
Crash(s) ==
  /\ pc[s] # "closed"
  /\ IF pc[s] = "append_write" THEN PartialWrite(s) ELSE UNCHANGED ledgerVars
  /\ lock' = IF lock = s THEN NoStore ELSE lock
  /\ pc' = [pc EXCEPT ![s] = "closed"]
  /\ work' = [work EXCEPT ![s] = NoWork]
  /\ cache' = [cache EXCEPT ![s] = NoCache]
  /\ UNCHANGED <<manifestVars, reader, history, ops>>

-----------------------------------------------------------------------------
(* readLedgerSnapshot *)

ReaderStep(r, state) ==
  /\ reader' = [reader EXCEPT ![r] = state]
  /\ UNCHANGED <<ledgerVars, manifestVars, storeVars, history>>

\* The first attempt: stat of the manifest.  base is history: what had
\* been acknowledged and pruned when the call began.
ReadStart(r) ==
  /\ reader[r].pc = "idle"
  /\ ops < MaxOps
  /\ ops' = ops + 1
  /\ ReaderStep(r, [pc |-> "open", attempt |-> 1, mver |-> manifestVer,
                    base |-> [acked |-> acked, pruned |-> pruned]])

\* Open of the ledger, stat of its handle: the bytes to read are those below
\* the size seen here.
ReadOpen(r) ==
  /\ reader[r].pc = "open"
  /\ ReaderStep(r, [pc |-> "read", attempt |-> reader[r].attempt,
                    mver |-> reader[r].mver, base |-> reader[r].base,
                    lver |-> ledgerVer, records |-> lines, tail |-> tail])
  /\ UNCHANGED ops

\* truncatedJson takes the start of a record for a write still under way and
\* anything else for damage.  A tail is the start of a record as it is
\* written; one cut and overwritten under the reader may be anything.
MayGarble(r) == reader[r].tail # NoTail /\ reader[r].lver # ledgerVer

\* The bytes and the manifest.  Terminated lines below that size never
\* change under an open handle: they are only appended to, or renamed away.
\* A missing ledger whose manifest counts records is corrupt.
ReadBytes(r, garbled) ==
  /\ reader[r].pc = "read"
  /\ garbled => MayGarble(r)
  /\ ReaderStep(r, [pc |-> "check", attempt |-> reader[r].attempt,
                    mver |-> reader[r].mver, base |-> reader[r].base,
                    lver |-> reader[r].lver, records |-> reader[r].records,
                    whole |-> reader[r].tail = NoTail,
                    corrupt |-> \/ garbled
                                \/ /\ reader[r].lver = 0
                                   /\ manifest # NoManifest
                                   /\ manifest.recordCount > 0])
  /\ UNCHANGED ops

\* The ledger is not looked at again.
AnyLedger(r) == TRUE

\* The second stats: handle and path of the ledger.
SameLedger(r) == reader[r].lver = ledgerVer

Unchanged(r) == SameLedger(r) /\ reader[r].mver = manifestVer

\* Nothing moved: the result, or the failure, is the answer.
ReadReturn(r) ==
  /\ reader[r].pc = "check"
  /\ Unchanged(r)
  /\ ReaderStep(r, [pc |-> "done", base |-> reader[r].base,
                    status |-> IF reader[r].corrupt THEN "ledger_corruption"
                               ELSE IF reader[r].whole THEN "complete"
                               ELSE "incomplete_tail",
                    records |-> reader[r].records])
  /\ UNCHANGED ops

\* Something moved: next attempt, or in_progress after the last.
ReadRetry(r) ==
  /\ reader[r].pc = "check"
  /\ ~Unchanged(r)
  /\ IF reader[r].attempt < MaxAttempts
     THEN ReaderStep(r, [pc |-> "open", attempt |-> reader[r].attempt + 1,
                         mver |-> manifestVer, base |-> reader[r].base])
     ELSE ReaderStep(r, [pc |-> "done", base |-> reader[r].base,
                         status |-> "in_progress", records |-> <<>>])
  /\ UNCHANGED ops

ReadForget(r) ==
  /\ reader[r].pc = "done"
  /\ ReaderStep(r, [pc |-> "idle"])
  /\ UNCHANGED ops

-----------------------------------------------------------------------------
StoreStep(s) ==
  \/ OpenStart(s) \/ OpenManifest(s)
  \/ \E id \in RecordIds : AppendStart(s, id) \/ AppendRefused(s, id)
  \/ AppendWrite(s) \/ AppendManifest(s)
  \/ \E keep \in SUBSET RecordIds : CompactStart(s, keep)
  \/ CompactHighWater(s) \/ CompactReplace(s) \/ CompactManifest(s)
  \/ Fail(s) \/ Crash(s)

ReadStep(r) ==
  \/ ReadStart(r) \/ ReadOpen(r)
  \/ \E garbled \in BOOLEAN : ReadBytes(r, garbled)
  \/ ReadReturn(r) \/ ReadRetry(r) \/ ReadForget(r)

Next == (\E s \in Stores : StoreStep(s)) \/ (\E r \in Readers : ReadStep(r))

Spec == Init /\ [][Next]_vars

-----------------------------------------------------------------------------
(* Properties *)

Increasing(recs) ==
  \A k, m \in DOMAIN recs :
    k < m => recs[k].seq < recs[m].seq /\ recs[k].id # recs[m].id

\* Type invariant of the files, the writers and the history.
TypeOK ==
  /\ lines \in Seq(Record)
  /\ tail \in Record \cup {NoTail, Torn}
  /\ ledgerVer \in Nat /\ manifestVer \in Nat
  /\ manifest \in Manifest \cup {NoManifest}
  /\ lock \in Stores \cup {NoStore}
  /\ \A s \in Stores :
       (lock = s) <=> (pc[s] \in {"open_manifest", "append_write", "append_manifest",
                   "compact_highwater", "compact_replace", "compact_manifest"})
  /\ acked \subseteq Record /\ pruned \subseteq Record

\* Whatever a crash, a failed call or a torn write leaves behind, the next
\* open accepts and repairs: a ledger never exists without its manifest, and
\* the repaired records have increasing sequence numbers and distinct
\* identities (the checks of initialize and parseBytes).
Recoverable ==
  /\ manifest = NoManifest => ledgerVer = 0
  /\ Increasing(RepairedLines)

\* An acknowledged append stays in the ledger until a compaction drops it:
\* no crash, repair or other writer loses it.
AckedSurvives == acked \ pruned \subseteq ToSet(lines)

\* A cache whose identity is the file's describes the file: appends of other
\* instances, repairs and compactions all invalidate it.
CacheSound ==
  \A s \in Stores : CacheValid(s) =>
    /\ tail = NoTail
    /\ cache[s].count = Len(lines)
    /\ cache[s].ids = IdsOf(lines)
    /\ cache[s].lastSequence = LastSeq(lines)

Answered(r) ==
  reader[r].pc = "done" /\ reader[r].status \in {"complete", "incomplete_tail"}

\* A snapshot read without the lock is a state the ledger had during the
\* call: it holds every record acknowledged before the call and not dropped
\* since, and none that was dropped before it.
SnapshotLinearizable ==
  \A r \in Readers : Answered(r) =>
    /\ reader[r].base.acked \ pruned \subseteq ToSet(reader[r].records)
    /\ reader[r].base.pruned \cap ToSet(reader[r].records) = {}
    /\ Increasing(reader[r].records)

\* A reader that races writers never calls a sound ledger corrupt.
NoFalseCorruption ==
  \A r \in Readers :
    reader[r].pc = "done" => reader[r].status # "ledger_corruption"

-----------------------------------------------------------------------------
\* The sequence number the next append builds on.
HighWater ==
  MaxOf(IF manifest = NoManifest THEN 0 ELSE manifest.lastSequence, LastSeq(lines))

Log == INSTANCE AppendOnlyLog WITH log <- lines, highWater <- HighWater

\* Through every crash, repair and compaction the ledger is an append-only
\* log: sequence numbers are never given twice, even after the records that
\* had them are gone.
ImplementsLog == Log!Spec
=============================================================================
