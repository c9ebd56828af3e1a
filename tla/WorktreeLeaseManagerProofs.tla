----------------------- MODULE WorktreeLeaseManagerProofs -----------------------
(***************************************************************************)
(* Proofs about WorktreeLeaseManager, for any processes, requests, paths    *)
(* and bounds.  The argument follows the write-ahead protocol: an intent    *)
(* has no effect until its row is in the ledger, and from then on it is     *)
(* carried out and never taken back; whoever finds it finishes it before    *)
(* anything else is decided about its branch and its path.                  *)
(***************************************************************************)
EXTENDS WorktreeLeaseManager, SubsequenceProofs

-----------------------------------------------------------------------------
(* The inductive invariant *)

\* Records as they are stored: of a task and a branch that somebody asked for.
Stored  == {r \in Record : Key(r) \in Keys}
Intents == {i \in IntentRecord : i.record \in Stored}
Row     == [recordId: LeaseIds, lease: LeaseIds, status: {"active", "released"}]

FileTypes ==
  /\ records \in [LeaseIds -> Stored \cup {NoRecord}]
  /\ pending \in [LeaseIds -> Intents \cup {NoIntent}]
  /\ reclamation \in Reclamation \cup {NoReclamation}
  /\ reclaimedThrough \in [Keys -> Times \cup {None}]
  /\ activeMap \subseteq LeaseIds
  /\ rows \in Seq(Row) /\ Len(rows) <= MaxRows
  /\ issued \in 0..MaxMutations

WorldTypes ==
  /\ clock \in Times /\ alive \subseteq Procs
  /\ trees \in 0..MaxTrees
  /\ DOMAIN tree = Paths
  /\ \A path \in Paths : /\ DOMAIN tree[path] = {"there", "id", "clean", "branch"}
                         /\ tree[path].id \in 0..trees
  /\ belief \in [Procs -> [LeaseIds -> {"none", "held", "given"}]]

\* Whose lease it is, of what, never changes.
Same(r, s) ==
  r.task = s.task /\ r.branch = s.branch /\ r.path = s.path /\ r.holder = s.holder

\* The row of an intent is its first effect.
Begun(l) == HasRow(pending[l].recordId)

\* The worktree a removal was prepared for is not there and cannot come back.
Gone(l) ==
  LET i == pending[l]
  IN  ~(Present(i.record.path) /\ tree[i.record.path].id = i.identity)

\* An intent against the record it is to replace.
IntentOK(l) ==
  LET i == pending[l]
      r == records[l]
  IN  /\ l <= i.recordId /\ i.recordId <= issued /\ i.identity <= trees
      /\ i.operation = "acquire" <=> i.recordId = l
      /\ i.operation = "acquire" => i.record.status = "active" /\ r \in {NoRecord, i.record}
      /\ i.operation = "renew" => i.record.status = "active" /\ l \in Active
      /\ i.operation \in {"release", "remove"} =>
           i.record.status = "released" /\ (l \in Active \/ r = i.record)
      /\ i.removal # "none" => i.operation = "remove"
      /\ r # NoRecord => Same(i.record, r)
      /\ ~Begun(l) => IF i.operation = "acquire" THEN r = NoRecord ELSE l \in Active
      /\ Prepared(l) /\ Begun(l) => Gone(l)

\* The three files agree about a lease no intent of which has had an effect.
Agree(l) ==
  /\ l \in activeMap <=> l \in Active
  /\ records[l] = NoRecord => RowsOf(l) = {}
  /\ \A k \in RowsOf(l) : LastRow(k) => rows[k].status = records[l].status

LeaseOK(l) ==
  /\ l > issued => records[l] = NoRecord /\ l \notin Pending
  /\ l \in Pending => IntentOK(l)
  /\ l \notin Pending \/ ~Begun(l) => Agree(l)
  /\ l \in Active => \E k \in RowsOf(l) : rows[k].recordId = l
  /\ l \in Released =>
       RowsOf(l) # {} \/ (reclamation # NoReclamation /\ l \in reclamation.leaseIds)

\* Every row has an id of its own, an acquisition's row is the first of its
\* lease, that of an unresolved intent the last.
RowsOK ==
  /\ \A j, k \in DOMAIN rows : rows[j].recordId = rows[k].recordId => j = k
  /\ \A k \in DOMAIN rows :
       /\ rows[k].lease <= rows[k].recordId /\ rows[k].recordId <= issued
       /\ rows[k].recordId = rows[k].lease => FirstRow(k)
       /\ \A l \in Pending : rows[k].recordId = pending[l].recordId =>
            rows[k].lease = l /\ rows[k].status = pending[l].record.status /\ LastRow(k)

ClaimsOK ==
  /\ ClaimsExclude
  /\ \A l, m \in Pending : pending[l].recordId = pending[m].recordId => l = m

FilesInv == FileTypes /\ ClaimsOK /\ RowsOK /\ \A l \in LeaseIds : LeaseOK(l)

-----------------------------------------------------------------------------
Applying == {"append", "record", "map", "clear"}
Removing == {"recheck", "remove", "removed"}

\* The arguments of the call.
CallOK(c) ==
  /\ c.op \in {"acquire", "renew", "release", "cleanup", "recover", "retain", "reconcile"}
  /\ c.op = "acquire" => c.request \in Requests /\ c.dirty \in DirtyStates
  /\ c.op \in {"acquire", "recover"} => c.now \in Times /\ c.now <= clock
  /\ c.op = "renew" => c.dirty \in DirtyStates
  /\ c.op \in {"renew", "release", "cleanup", "recover"} => c.lease \in LeaseIds
  /\ c.op = "retain" => c.cutoff \in Nat /\ c.cutoff <= clock

\* What retainHistory has selected, of rows to keep.
Selection(kept) ==
  /\ reclamation.recordIds = {rows[k].recordId : k \in DOMAIN rows \ kept}
  /\ reclamation.leaseIds =
       {l \in Released \ Pending : RowsOf(l) # {} /\ RowsOf(l) \cap kept = {}}
SelectedOK == \E named \in SUBSET Released : Selection(Selected(work.call.cutoff, named))

\* What is at the path of a removal, if it is not what was last looked at.
SeenOK ==
  LET l    == work.call.lease
      path == records[l].path
  IN  /\ work.seen \in Nat /\ work.seen <= trees
      /\ Present(path) => \/ tree[path].id = records[l].identity /\ Registered(path, records[l].branch)
                          \/ tree[path].id > work.seen

BusyOK ==
  /\ DOMAIN work = {"call", "todo", "lease", "from", "seen"}
  /\ CallOK(work.call)
  /\ work.todo \subseteq Pending
  /\ work.from \in {"none", "replay", "publish"}
  /\ pc \in {"reclaim", "replay", "append", "record", "map", "clear",
             "select", "compact", "reclaim_after"} \cup Removing
  /\ pc \in {"select", "compact", "reclaim_after"} => work.call.op = "retain"
  /\ pc \in Removing => work.call.op = "cleanup"
  /\ work.from # "publish" /\ pc \notin Removing /\ work.call.op \notin {"retain", "reconcile"}
       => issued < MaxMutations
  /\ work.from = "publish" => pc \in Applying
  /\ pc \in Applying =>
       LET l == work.lease
       IN  /\ l \in Pending
           /\ pc # "append" => Begun(l)
           /\ pc \in {"map", "clear"} => records[l] = pending[l].record
           /\ pc = "clear" => activeMap = Active
           /\ Prepared(l) => Gone(l)
           /\ work.from # "none"
           /\ work.from = "publish" /\ pending[l].operation = "acquire" =>
                pending[l].record.holder = lock
  /\ pc \in Removing =>
       LET l == work.call.lease
       IN  l \in Active \cap Pending /\ Prepared(l) /\ pending[l].operation = "remove"
  /\ pc = "remove" => Missing(records[work.call.lease].holder) /\ SeenOK
  /\ pc = "select" => reclamation = NoReclamation
  /\ pc = "compact" => reclamation # NoReclamation /\ SelectedOK

WorkInv ==
  /\ lock \in alive \cup {NoProc}
  /\ lock = NoProc <=> pc = "idle"
  /\ pc # "idle" => BusyOK

-----------------------------------------------------------------------------
\* Who relies on a lease, or did.
BeliefOK(p, l) ==
  /\ belief[p][l] # "none" =>
       /\ p \in alive /\ l <= issued
       /\ l \in Pending => records[l] # NoRecord
       /\ records[l] # NoRecord => records[l].holder = p
  /\ belief[p][l] = "held" =>
       l \in Active /\ (l \in Pending => pending[l].record.status = "active")

\* A call to release or clean up does not come from one that relies on it.
CallerOK ==
  lock # NoProc =>
    /\ work.call.op \in {"renew", "release"} => belief[lock][work.call.lease] # "none"
    /\ work.call.op \in {"release", "cleanup"} => belief[lock][work.call.lease] # "held"

BeliefInv == CallerOK /\ \A p \in Procs, l \in LeaseIds : BeliefOK(p, l)

-----------------------------------------------------------------------------
\* When r was released, or the earliest that it may be.
Over(r) == IF r.status = "released" THEN r.updatedAt ELSE r.expiresAt

\* r is of another key, over later than f, or the watermark tells of f.
Later(r, f) ==
  Key(r) = Key(f) => Over(r) > f.updatedAt \/ f.updatedAt <= reclaimedThrough[Key(f)]

\* Before now, and before the end of a lease that is being acquired.
Before(t) ==
  /\ t < clock
  /\ pc # "idle" /\ work.call.op = "acquire" => t < work.call.now + Ttl

\* A released record that retention has reclaimed.
Lost(f) ==
  /\ Before(f.updatedAt)
  /\ \A l \in Active \cup Released : Later(records[l], f)
  /\ \A l \in Pending : Later(pending[l].record, f)

\* A lease is not over before it was last written.
Lives(r) == r.status = "active" => r.updatedAt <= r.expiresAt

ReclamationOK ==
  reclamation # NoReclamation =>
    \A l \in reclamation.leaseIds :
      /\ l \in Released
      /\ records[l].updatedAt <= reclamation.watermarks[Key(records[l])]
      /\ Before(records[l].updatedAt)

HistoryInv ==
  /\ \A l \in Pending : pending[l].record.updatedAt <= clock /\ Lives(pending[l].record)
  /\ \A l \in Active : Lives(records[l])
  /\ \A l \in Released : records[l] \in finished
  /\ \A f \in finished : f \in Stored /\ f.updatedAt <= clock
  /\ \A f \in finished : (\E l \in Released : records[l] = f) \/ Lost(f)
  /\ ReclamationOK

IInv == FilesInv /\ WorldTypes /\ WorkInv /\ BeliefInv /\ HistoryInv

-----------------------------------------------------------------------------
(* What steps leave alone *)

\* Worktrees come and go, but none that is gone comes back, and one that stays
\* is on its branch.
WorldStep ==
  /\ trees' >= trees /\ trees' \in Nat
  /\ \A path \in Paths : Present(path)' =>
       \/ tree'[path].id > trees
       \/ Present(path) /\ tree'[path].id = tree[path].id /\ tree'[path].branch = tree[path].branch
  /\ \A l \in LeaseIds : l \in Pending /\ pending[l].identity <= trees /\ Gone(l) => Gone(l)'

\* A step that writes no file.
LEMMA FilesStay ==
  ASSUME FilesInv, UNCHANGED files, issued' = issued, WorldStep, trees \in Nat
  PROVE  FilesInv'
<1>1. /\ records' = records /\ pending' = pending /\ reclamation' = reclamation
      /\ reclaimedThrough' = reclaimedThrough /\ activeMap' = activeMap /\ rows' = rows
  BY DEF files, registry
<1>2. FileTypes' /\ ClaimsOK' /\ RowsOK'
  BY <1>1 DEF FilesInv, FileTypes, ClaimsOK, RowsOK, ClaimsExclude, Claims, Active, Pending, RecordOf,
              FirstRow, LastRow, RowsOf
<1>3. ASSUME NEW l \in LeaseIds PROVE LeaseOK(l)'
  <2>1. LeaseOK(l)
    BY DEF FilesInv
  <2>2. l \in Pending => IntentOK(l)'
    <3>1. ASSUME l \in Pending PROVE IntentOK(l)'
      <4>1. IntentOK(l) /\ pending[l].identity <= trees
        BY <2>1, <3>1 DEF LeaseOK, IntentOK
      <4>2. pending[l].identity <= trees'
        <5>1. pending[l].identity \in Nat
          BY <3>1 DEF FilesInv, FileTypes, Pending, Intents, IntentRecord
        <5>2. QED
          BY <4>1, <5>1 DEF WorldStep
      <4>3. Gone(l) => Gone(l)'
        BY <3>1, <4>1 DEF WorldStep
      <4>4. QED
        BY <1>1, <4>1, <4>2, <4>3 DEF IntentOK, Begun, HasRow, Prepared, Active
    <3>2. QED
      BY <3>1
  <2>3. QED
    BY <1>1, <2>1, <2>2 DEF LeaseOK, Agree, Begun, HasRow, Active, Released, Pending, RowsOf, LastRow
<1>4. QED
  BY <1>2, <1>3 DEF FilesInv

\* What is past stays past while a call goes on, and when it is over.
LEMMA BeforeStays ==
  ASSUME clock \in Nat, clock' \in Nat, clock <= clock',
         pc' # "idle" => pc # "idle" /\ work'.call = work.call
  PROVE  \A t \in Nat : Before(t) => Before(t)'
BY DEF Before

\* The same of what was finished, as time goes on.
LEMMA HistoryStays ==
  ASSUME HistoryInv, UNCHANGED <<records, pending, reclamation, reclaimedThrough, finished>>,
         clock \in Nat, clock' \in Nat, clock <= clock', FileTypes,
         \A t \in Nat : Before(t) => Before(t)'
  PROVE  HistoryInv'
<1>1. \A f \in Stored : f.updatedAt \in Nat
  BY DEF Stored, Record, Times
<1>2. \A f \in finished : Lost(f) => Lost(f)'
  <2>1. ASSUME NEW f \in finished, Lost(f) PROVE Lost(f)'
    <3>1. f.updatedAt \in Nat
      BY <1>1 DEF HistoryInv
    <3>2. Before(f.updatedAt)'
      BY <2>1, <3>1 DEF Lost
    <3>3. QED
      BY <2>1, <3>2 DEF Lost, Later, Over, Active, Released, Pending, Key
  <2>2. QED
    BY <2>1
<1>3. ReclamationOK'
  <2>1. ASSUME reclamation # NoReclamation, NEW l \in reclamation.leaseIds
        PROVE  /\ l \in Released
               /\ records[l].updatedAt <= reclamation.watermarks[Key(records[l])]
               /\ Before(records[l].updatedAt)'
    <3>1. l \in Released /\ Before(records[l].updatedAt)
                /\ records[l].updatedAt <= reclamation.watermarks[Key(records[l])]
      BY <2>1 DEF HistoryInv, ReclamationOK
    <3>2. records[l].updatedAt \in Nat
      BY <1>1, <3>1 DEF Released, FileTypes
    <3>3. QED
      BY <3>1, <3>2
  <2>2. QED
    BY <2>1 DEF ReclamationOK, Released, Key
<1>4. \A f \in finished : f.updatedAt <= clock'
  BY <1>1 DEF HistoryInv
<1>5. \A l \in Pending : pending[l].record.updatedAt <= clock' /\ Lives(pending[l].record)
  <2>1. \A l \in Pending : pending[l].record.updatedAt \in Nat
    BY <1>1 DEF FileTypes, Pending, Intents
  <2>2. QED
    BY <2>1 DEF HistoryInv
<1>6. QED
  BY <1>2, <1>3, <1>4, <1>5 DEF HistoryInv, Lives, Active, Released, Pending

\* Of what is relied on, when neither records nor intents change.
LEMMA BeliefsStay ==
  ASSUME BeliefInv, UNCHANGED <<records, pending, belief, alive, issued>>
  PROVE  \A p \in Procs, l \in LeaseIds : BeliefOK(p, l)'
BY DEF BeliefInv, BeliefOK, Active, Pending

\* The call goes on, and still does not rely on what it gives up.
LEMMA CallerStays ==
  ASSUME CallerOK, UNCHANGED <<lock, belief>>, work'.call = work.call
  PROVE  CallerOK'
BY DEF CallerOK

\* A call that ends.
LEMMA LeaveKeeps ==
  ASSUME WorkInv, Leave, alive' = alive, NoProc \notin alive
  PROVE  WorkInv' /\ CallerOK'
BY DEF WorkInv, Leave, CallerOK

\* A call that answers, refuses or throws, having written nothing.
LEMMA QuietLeave ==
  ASSUME IInv, Leave, UNCHANGED <<files, world, belief, finished, issued>>
  PROVE  IInv'
<1>1. /\ records' = records /\ pending' = pending /\ reclamation' = reclamation
      /\ reclaimedThrough' = reclaimedThrough /\ activeMap' = activeMap /\ rows' = rows
      /\ clock' = clock /\ alive' = alive /\ tree' = tree /\ trees' = trees
      /\ UNCHANGED files
  BY DEF files, registry, world
<1>2. clock \in Nat /\ trees \in Nat /\ NoProc \notin alive
  BY NoProcAssumption, BoundsAssumption DEF IInv, WorldTypes, Times
<1>3. WorldStep
  BY <1>1, <1>2 DEF WorldStep, Gone, Present
<1>4. FilesInv'
  BY <1>1, <1>2, <1>3, FilesStay DEF IInv
<1>5. WorldTypes'
  BY <1>1 DEF IInv, WorldTypes
<1>6. WorkInv' /\ CallerOK'
  BY <1>1, <1>2, LeaveKeeps DEF IInv
<1>7. BeliefInv'
  BY <1>1, <1>6, BeliefsStay DEF IInv, BeliefInv
<1>8. HistoryInv'
  BY <1>1, <1>2, BeforeStays, HistoryStays DEF IInv, FilesInv, Leave
<1>9. QED
  BY <1>4, <1>5, <1>6, <1>7, <1>8 DEF IInv

\* A call that goes on, having written nothing.
LEMMA QuietMove ==
  ASSUME IInv, UNCHANGED <<files, world, belief, finished, issued, lock>>,
         lock # NoProc, pc' # "idle", BusyOK', work'.call = work.call
  PROVE  IInv'
<1>1. /\ records' = records /\ pending' = pending /\ reclamation' = reclamation
      /\ reclaimedThrough' = reclaimedThrough /\ activeMap' = activeMap /\ rows' = rows
      /\ clock' = clock /\ alive' = alive /\ tree' = tree /\ trees' = trees
      /\ UNCHANGED files
  BY DEF files, registry, world
<1>2. clock \in Nat /\ trees \in Nat
  BY BoundsAssumption DEF IInv, WorldTypes, Times
<1>3. WorldStep
  BY <1>1, <1>2 DEF WorldStep, Gone, Present
<1>4. FilesInv'
  BY <1>1, <1>2, <1>3, FilesStay DEF IInv
<1>5. WorldTypes'
  BY <1>1 DEF IInv, WorldTypes
<1>6. WorkInv'
  BY <1>1 DEF IInv, WorkInv
<1>7. BeliefInv'
  BY <1>1, CallerStays, BeliefsStay DEF IInv, BeliefInv
<1>8. HistoryInv'
  BY <1>1, <1>2, BeforeStays, HistoryStays DEF IInv, FilesInv, WorkInv
<1>9. QED
  BY <1>4, <1>5, <1>6, <1>7, <1>8 DEF IInv

-----------------------------------------------------------------------------
(* The environment *)

\* The call inside is not disturbed by time, deaths of others and worktrees.
LEMMA BusyStays ==
  ASSUME IInv, pc # "idle", UNCHANGED <<files, lock, pc, work, issued>>, WorldStep,
         clock' \in Nat, clock <= clock', alive' \subseteq alive, WorldTypes'
  PROVE  BusyOK'
<1>1. /\ records' = records /\ pending' = pending /\ reclamation' = reclamation
      /\ activeMap' = activeMap /\ rows' = rows /\ BusyOK
  BY DEF IInv, WorkInv, files, registry
<1>2. CallOK(work.call)'
  <2>1. work.call.op = "retain" => work.call.cutoff <= clock'
    BY <1>1, BoundsAssumption DEF BusyOK, CallOK, IInv, WorldTypes, Times
  <2>2. work.call.op \in {"acquire", "recover"} => work.call.now <= clock'
    BY <1>1, BoundsAssumption DEF BusyOK, CallOK, IInv, WorldTypes, Times
  <2>3. QED
    BY <1>1, <2>1, <2>2 DEF BusyOK, CallOK
<1>3. \A l \in LeaseIds : l \in Pending /\ Prepared(l) /\ Gone(l) => Gone(l)'
  <2>1. \A l \in LeaseIds : l \in Pending => pending[l].identity <= trees
    BY DEF IInv, FilesInv, LeaseOK, IntentOK
  <2>2. QED
    BY <2>1 DEF WorldStep
<1>4. SelectedOK => SelectedOK'
  <2>1. /\ Released' = Released /\ Active' = Active /\ Pending' = Pending
        /\ \A l : RowsOf(l)' = RowsOf(l)
    BY <1>1 DEF Released, Active, Pending, RowsOf
  <2>2. \A k : FirstRow(k)' = FirstRow(k) /\ LastRow(k)' = LastRow(k)
    BY <1>1, <2>1 DEF FirstRow, LastRow
  <2>3. \A k, cutoff : Pinned(k, cutoff)' = Pinned(k, cutoff)
    BY <1>1, <2>1, <2>2 DEF Pinned
  <2>4. \A cutoff, named : Selected(cutoff, named)' = Selected(cutoff, named)
    BY <1>1, <2>1, <2>2, <2>3 DEF Selected
  <2>5. work' = work
    OBVIOUS
  <2>6. QED
    <3>1. \A kept : Selection(kept) => Selection(kept)'
      BY <1>1, <2>1 DEF Selection
    <3>2. ASSUME NEW named \in SUBSET Released, Selection(Selected(work.call.cutoff, named))
          PROVE  SelectedOK'
      <4>1. Selected(work.call.cutoff, named)' = Selected(work.call.cutoff, named)
        BY <2>4, <2>5
      <4>2. Selection(Selected(work.call.cutoff, named))'
        BY <3>1, <3>2, <4>1 DEF Selection
      <4>3. QED
        BY <2>1, <4>2 DEF SelectedOK
    <3>3. QED
      BY <3>2 DEF SelectedOK
<1>5. pc = "remove" => Missing(records[work.call.lease].holder)' /\ SeenOK'
  <2> DEFINE l    == work.call.lease
             path == records[l].path
  <2>1. SUFFICES ASSUME pc = "remove"
                 PROVE  Missing(records[l].holder)' /\ SeenOK'
    OBVIOUS
  <2>2. Missing(records[l].holder) /\ SeenOK /\ path \in Paths
    <3>1. l \in Active /\ l \in LeaseIds
      BY <1>1, <2>1 DEF BusyOK, Removing, Active
    <3>2. records[l] \in Record
      BY <3>1 DEF IInv, FilesInv, FileTypes, Stored, Active
    <3>3. QED
      BY <1>1, <2>1, <3>2 DEF BusyOK, Record
  <2>3. /\ trees \in Nat /\ trees' \in Nat /\ trees <= trees' /\ tree[path].id \in Nat
        /\ Present(path)' => \/ tree'[path].id > trees
                             \/ /\ Present(path) /\ tree'[path].id = tree[path].id
                                /\ tree'[path].branch = tree[path].branch
    <3>1. tree[path].id \in 0..trees /\ trees \in 0..MaxTrees /\ MaxTrees \in Nat
      BY <2>2, BoundsAssumption DEF IInv, WorldTypes
    <3>2. tree[path].id \in Nat /\ trees \in Nat
      BY <3>1
    <3>3. Present(path)' => tree'[path].there
      BY <1>1 DEF Present
    <3>4. QED
      BY <2>2, <3>2, <3>3 DEF WorldStep, Present
  <2>4. SeenOK'
    <3>1. work.seen \in Nat /\ work.seen <= trees'
      BY <2>2, <2>3 DEF SeenOK
    <3>2. ASSUME Present(path)', tree'[path].id > trees PROVE SeenOK'
      <4>1. tree'[path].id \in Nat
        BY <2>2 DEF WorldTypes
      <4>2. tree'[path].id > work.seen
        BY <2>2, <2>3, <3>2, <4>1 DEF SeenOK
      <4>3. QED
        BY <1>1, <3>1, <4>2 DEF SeenOK
    <3>3. ASSUME Present(path), tree'[path].id = tree[path].id, tree'[path].branch = tree[path].branch
          PROVE  SeenOK'
      BY <1>1, <2>2, <3>1, <3>3 DEF SeenOK, Registered
    <3>4. ASSUME ~Present(path)' PROVE SeenOK'
      BY <1>1, <3>1, <3>4 DEF SeenOK, Present
    <3>5. QED
      BY <2>3, <3>2, <3>3, <3>4
  <2>5. QED
    BY <1>1, <2>2, <2>4 DEF Missing
<1>6. pc \in Applying => LET l == work.lease IN Prepared(l) => Gone(l)'
  BY <1>1, <1>3 DEF BusyOK, Pending
<1>7. QED
  BY <1>1, <1>2, <1>4, <1>5, <1>6 DEF BusyOK, Pending, Active, Begun, HasRow, Prepared

\* A step that only the world takes part in.
LEMMA WorldKeeps ==
  ASSUME IInv, UNCHANGED <<files, lock, pc, work, finished, issued>>, WorldTypes', WorldStep,
         clock <= clock', alive' \subseteq alive, lock \in alive' \cup {NoProc}
  PROVE  FilesInv' /\ WorkInv' /\ HistoryInv'
<1>1. clock \in Nat /\ clock' \in Nat /\ trees \in Nat
  BY BoundsAssumption DEF IInv, WorldTypes, Times
<1>2. FilesInv'
  BY <1>1, FilesStay DEF IInv
<1>3. WorkInv'
  BY <1>1, BusyStays DEF IInv, WorkInv
<1>4. HistoryInv'
  BY <1>1, BeforeStays, HistoryStays DEF IInv, FilesInv, files, registry
<1>5. QED
  BY <1>2, <1>3, <1>4

\* The clock.
LEMMA TickKeeps ==
  ASSUME IInv, Tick
  PROVE  IInv'
<1>1. /\ clock \in Times /\ clock < MaxTime /\ clock' = clock + 1
      /\ UNCHANGED <<files, alive, tree, trees, lock, pc, work, belief, finished, issued>>
  BY DEF Tick, IInv, WorldTypes
<1>2. /\ clock' \in Times /\ clock <= clock' /\ trees \in Nat
      /\ records' = records /\ pending' = pending
  BY <1>1, BoundsAssumption DEF Times, IInv, WorldTypes, files, registry
<1>3. WorldTypes'
  BY <1>1, <1>2 DEF IInv, WorldTypes
<1>4. WorldStep
  BY <1>1, <1>2 DEF WorldStep, Gone, Present
<1>5. lock \in alive' \cup {NoProc}
  BY <1>1 DEF IInv, WorkInv
<1>6. FilesInv' /\ WorkInv' /\ HistoryInv'
  BY <1>1, <1>2, <1>3, <1>4, <1>5, WorldKeeps
<1>7. BeliefInv'
  BY <1>1, <1>2, CallerStays, BeliefsStay DEF IInv, BeliefInv
<1>8. QED
  BY <1>3, <1>6, <1>7 DEF IInv

\* Worktrees that are added, removed and edited.
LEMMA TreeKeeps ==
  ASSUME IInv, NEW path \in Paths,
         \/ \E b \in Branches : TreeAdded(path, b)
         \/ \E b \in Branches \cup {NoBranch} : TreeGone(path, b)
         \/ TreeEdited(path)
  PROVE  IInv'
<1> DEFINE t == tree'[path]
<1>1. /\ trees \in Nat /\ trees <= MaxTrees /\ DOMAIN tree = Paths
      /\ \A q \in Paths : DOMAIN tree[q] = {"there", "id", "clean", "branch"} /\ tree[q].id \in 0..trees
      /\ MaxTrees \in Nat
  BY BoundsAssumption DEF IInv, WorldTypes
<1>2. /\ UNCHANGED <<files, clock, alive, lock, pc, work, belief, finished, issued>>
      /\ DOMAIN tree' = Paths /\ \A q \in Paths \ {path} : tree'[q] = tree[q]
  BY <1>1, Zenon DEF TreeAdded, TreeGone, TreeEdited, TreeIs
<1>3. /\ trees' \in Nat /\ trees' <= MaxTrees /\ trees <= trees'
      /\ DOMAIN t = {"there", "id", "clean", "branch"} /\ t.id \in 0..trees'
      /\ t.there => \/ t.id = trees + 1
                    \/ tree[path].there /\ t.id = tree[path].id /\ t.branch = tree[path].branch
  <2>1. ASSUME NEW b, TreeAdded(path, b)
        PROVE  trees' = trees + 1 /\ trees < MaxTrees
               /\ t = [there |-> TRUE, id |-> trees + 1, clean |-> TRUE, branch |-> b]
    BY <1>1, <2>1 DEF TreeAdded, TreeIs
  <2>2. ASSUME NEW b, TreeGone(path, b)
        PROVE  trees' = trees /\ t = [tree[path] EXCEPT !.there = FALSE, !.branch = b]
    BY <1>1, <2>2 DEF TreeGone, TreeIs
  <2>3. ASSUME TreeEdited(path)
        PROVE  trees' = trees /\ tree[path].there /\ t = [tree[path] EXCEPT !.clean = ~@]
    BY <1>1, <2>3, Zenon DEF TreeEdited, TreeIs, Present
  <2>4. DOMAIN tree[path] = {"there", "id", "clean", "branch"} /\ tree[path].id \in 0..trees
    BY <1>1
  <2> HIDE DEF t
  <2>5. CASE \E b \in Branches : TreeAdded(path, b)
    BY <1>1, <2>1, <2>5
  <2>6. CASE \E b \in Branches \cup {NoBranch} : TreeGone(path, b)
    <3>1. PICK b : trees' = trees /\ t = [tree[path] EXCEPT !.there = FALSE, !.branch = b]
      BY <2>2, <2>6
    <3>2. ~t.there /\ t.id = tree[path].id /\ DOMAIN t = DOMAIN tree[path]
      BY <2>4, <3>1
    <3>3. QED
      BY <1>1, <2>4, <3>1, <3>2
  <2>7. CASE TreeEdited(path)
    <3>1. DOMAIN t = DOMAIN tree[path] /\ t.id = tree[path].id /\ t.branch = tree[path].branch
      BY <2>3, <2>4, <2>7
    <3>2. QED
      BY <1>1, <2>3, <2>4, <2>7, <3>1
  <2>8. QED
    BY <2>5, <2>6, <2>7
<1>4. /\ records' = records /\ pending' = pending /\ clock \in Nat
      /\ clock' = clock /\ alive' = alive /\ belief' = belief
  BY <1>2, BoundsAssumption DEF files, registry, IInv, WorldTypes, Times
<1>5. WorldTypes'
  <2>1. \A q \in Paths : DOMAIN tree'[q] = {"there", "id", "clean", "branch"} /\ tree'[q].id \in 0..trees'
    BY <1>1, <1>2, <1>3
  <2>2. QED
    BY <1>1, <1>2, <1>3, <1>4, <2>1 DEF IInv, WorldTypes
<1>6. WorldStep
  <2>1. ASSUME NEW l \in LeaseIds, l \in Pending, pending[l].identity <= trees, Gone(l) PROVE Gone(l)'
    <3>1. pending[l].identity \in Nat
      BY <2>1 DEF IInv, FilesInv, FileTypes, Pending, Intents, IntentRecord
    <3>2. pending[l].record.path \in Paths
      BY <2>1 DEF IInv, FilesInv, FileTypes, Pending, Intents, IntentRecord, Stored, Record
    <3> HIDE DEF t
    <3>3. CASE pending[l].record.path = path
      BY <1>1, <1>3, <1>4, <2>1, <3>1, <3>3 DEF Gone, Present, t
    <3>4. CASE pending[l].record.path # path
      BY <1>2, <1>4, <2>1, <3>2, <3>4 DEF Gone, Present
    <3>5. QED
      BY <3>3, <3>4
  <2>2. \A q \in Paths : Present(q)' =>
            \/ tree'[q].id > trees
            \/ Present(q) /\ tree'[q].id = tree[q].id /\ tree'[q].branch = tree[q].branch
    BY <1>1, <1>2, <1>3 DEF Present
  <2> HIDE DEF t
  <2>3. QED
    BY <1>1, <1>3, <2>1, <2>2 DEF WorldStep
<1>7. lock \in alive' \cup {NoProc}
  BY <1>2 DEF IInv, WorkInv
<1>8. FilesInv' /\ WorkInv' /\ HistoryInv'
  BY <1>2, <1>4, <1>5, <1>6, <1>7, WorldKeeps
<1>9. BeliefInv'
  BY <1>2, <1>4, CallerStays, BeliefsStay DEF IInv, BeliefInv
<1>10. QED
  BY <1>5, <1>8, <1>9 DEF IInv

\* A process dies, and what it relied on with it.
LEMMA CrashKeeps ==
  ASSUME IInv, NEW p \in Procs, Crash(p)
  PROVE  IInv'
<1>1. /\ p \in alive /\ alive' = alive \ {p} /\ belief' = [belief EXCEPT ![p] = NoBelief]
      /\ IF lock = p THEN Leave ELSE UNCHANGED <<lock, pc, work>>
      /\ UNCHANGED <<files, clock, tree, trees, finished, issued>>
  BY DEF Crash
<1>2. /\ records' = records /\ pending' = pending /\ reclamation' = reclamation
      /\ reclaimedThrough' = reclaimedThrough /\ activeMap' = activeMap /\ rows' = rows
      /\ clock' = clock /\ tree' = tree /\ trees' = trees /\ alive' \subseteq alive
      /\ clock \in Nat /\ trees \in Nat /\ p # NoProc /\ NoProc \notin alive
      /\ belief \in [Procs -> [LeaseIds -> {"none", "held", "given"}]]
  BY <1>1, NoProcAssumption, BoundsAssumption DEF files, registry, IInv, WorldTypes, Times
<1>3. /\ \A l \in LeaseIds : belief'[p][l] = "none"
      /\ \A q \in Procs \ {p} : belief'[q] = belief[q]
      /\ belief' \in [Procs -> [LeaseIds -> {"none", "held", "given"}]]
  <2>1. NoBelief \in [LeaseIds -> {"none", "held", "given"}] /\ \A l \in LeaseIds : NoBelief[l] = "none"
    BY DEF NoBelief
  <2>2. QED
    BY <1>1, <1>2, <2>1
<1>4. WorldTypes'
  BY <1>1, <1>2, <1>3 DEF IInv, WorldTypes
<1>5. WorldStep
  BY <1>2 DEF WorldStep, Gone, Present
<1>6. FilesInv'
  BY <1>1, <1>2, <1>5, FilesStay DEF IInv
<1>7. HistoryInv'
  BY <1>1, <1>2, BeforeStays, HistoryStays DEF IInv, FilesInv, Leave
<1>8. WorkInv'
  <2>1. CASE lock = p
    BY <1>1, <1>2, <2>1 DEF WorkInv, Leave
  <2>2. CASE lock # p
    <3>1. UNCHANGED <<files, lock, pc, work, issued>>
      BY <1>1, <2>2
    <3>2. lock \in alive' \cup {NoProc}
      BY <1>1, <2>2 DEF IInv, WorkInv
    <3>3. pc # "idle" => BusyOK'
      BY <1>2, <1>4, <1>5, <3>1, BusyStays
    <3>4. QED
      BY <3>1, <3>2, <3>3 DEF IInv, WorkInv
  <2>3. QED
    BY <2>1, <2>2
<1>9. CallerOK'
  <2>1. CASE lock = p
    BY <1>1, <2>1 DEF CallerOK, Leave
  <2>2. CASE lock # p
    <3>1. lock' = lock /\ work' = work
      BY <1>1, <2>2
    <3>2. lock # NoProc => lock \in Procs \ {p}
      BY <1>1, <2>2 DEF IInv, WorkInv, WorldTypes
    <3>3. QED
      BY <1>3, <3>1, <3>2 DEF IInv, BeliefInv, CallerOK
  <2>3. QED
    BY <2>1, <2>2
<1>10. ASSUME NEW q \in Procs, NEW l \in LeaseIds PROVE BeliefOK(q, l)'
  <2>1. BeliefOK(q, l)
    BY DEF IInv, BeliefInv
  <2>2. CASE q = p
    BY <1>3, <2>2 DEF BeliefOK
  <2>3. CASE q # p
    BY <1>1, <1>2, <1>3, <2>1, <2>3 DEF BeliefOK, Active, Pending
  <2>4. QED
    BY <2>2, <2>3
<1>11. QED
  BY <1>4, <1>6, <1>7, <1>8, <1>9, <1>10 DEF IInv, BeliefInv

-----------------------------------------------------------------------------
(* Steps that write no file *)

\* A call that enters: one that gives its lease up relies on it no more.
LEMMA EnterKeeps ==
  ASSUME IInv, NEW p \in Procs, NEW c \in Calls, Enter(p, c)
  PROVE  IInv'
<1>1. /\ lock = NoProc /\ p \in alive /\ MayCall(p, c)
      /\ c.op \notin {"retain", "reconcile"} => issued < MaxMutations
      /\ lock' = p /\ pc' = "reclaim"
      /\ work' = [call |-> c, todo |-> {}, lease |-> 0, from |-> "none", seen |-> 0]
      /\ belief' = IF c.op \in {"release", "cleanup"}
                   THEN [belief EXCEPT ![p][c.lease] = IF @ = "held" THEN "given" ELSE @]
                   ELSE belief
      /\ UNCHANGED <<files, world, finished, issued>>
  BY DEF Enter
<1>2. /\ records' = records /\ pending' = pending /\ reclamation' = reclamation
      /\ reclaimedThrough' = reclaimedThrough /\ activeMap' = activeMap /\ rows' = rows
      /\ clock' = clock /\ alive' = alive /\ tree' = tree /\ trees' = trees
  BY <1>1 DEF files, registry, world
<1>3. /\ clock \in Nat /\ trees \in Nat /\ clock \in Times /\ p # NoProc
      /\ belief \in [Procs -> [LeaseIds -> {"none", "held", "given"}]]
  BY NoProcAssumption, BoundsAssumption DEF IInv, WorldTypes, Times
<1>4. /\ c.op \in {"acquire", "renew", "release", "cleanup", "recover", "retain", "reconcile"}
      /\ c.op = "acquire" => /\ c.request \in Requests /\ c.dirty \in DirtyStates
                             /\ clock <= c.now + MaxWait
      /\ c.op \in {"acquire", "recover"} => c.now \in Times /\ c.now <= clock
      /\ c.op = "renew" => c.dirty \in DirtyStates
      /\ c.op \in {"renew", "release", "cleanup", "recover"} => c.lease \in LeaseIds
      /\ c.op = "retain" => c.cutoff \in Nat /\ c.cutoff <= clock
  BY <1>3, BoundsAssumption DEF Calls, Times
<1>5. c.op \in {"renew", "release"} => belief[p][c.lease] # "none"
  BY <1>1 DEF MayCall
<1> HIDE DEF Calls
<1>6. /\ \A q \in Procs, l \in LeaseIds :
           /\ belief'[q][l] \in {"none", "held", "given"}
           /\ belief'[q][l] = "none" <=> belief[q][l] = "none"
           /\ belief'[q][l] = "held" => belief[q][l] = "held"
      /\ c.op \in {"release", "cleanup"} => belief'[p][c.lease] # "held"
      /\ belief' \in [Procs -> [LeaseIds -> {"none", "held", "given"}]]
  <2>1. CASE c.op \in {"release", "cleanup"}
    <3> DEFINE g == [belief[p] EXCEPT ![c.lease] = IF @ = "held" THEN "given" ELSE @]
    <3>1. belief' = [belief EXCEPT ![p] = g]
      BY <1>1, <2>1, Zenon
    <3>2. /\ g \in [LeaseIds -> {"none", "held", "given"}] /\ g[c.lease] # "held"
          /\ \A l \in LeaseIds : /\ g[l] = "none" <=> belief[p][l] = "none"
                                 /\ g[l] = "held" => belief[p][l] = "held"
      BY <1>3, <1>4, <2>1
    <3> HIDE DEF g
    <3>3. QED
      BY <1>3, <3>1, <3>2
  <2>2. CASE c.op \notin {"release", "cleanup"}
    BY <1>1, <1>3, <2>2
  <2>3. QED
    BY <2>1, <2>2
<1>7. WorldStep
  BY <1>2, <1>3 DEF WorldStep, Gone, Present
<1>8. FilesInv'
  BY <1>1, <1>3, <1>7, FilesStay DEF IInv
<1>9. WorldTypes'
  BY <1>2, <1>6 DEF IInv, WorldTypes
<1>10. WorkInv'
  <2>1. work'.call = c /\ work'.todo = {} /\ work'.from = "none"
        /\ DOMAIN work' = {"call", "todo", "lease", "from", "seen"}
    BY <1>1
  <2>2. CallOK(work.call)'
    BY <1>2, <1>4, <2>1 DEF CallOK
  <2>3. BusyOK'
    BY <1>1, <1>2, <2>1, <2>2 DEF BusyOK, Applying, Removing
  <2>4. QED
    BY <1>1, <1>2, <1>3, <2>3 DEF WorkInv
<1>11. BeliefInv'
  <2>1. CallerOK'
    BY <1>1, <1>4, <1>5, <1>6 DEF CallerOK
  <2>2. ASSUME NEW q \in Procs, NEW l \in LeaseIds PROVE BeliefOK(q, l)'
    <3>1. BeliefOK(q, l)
      BY DEF IInv, BeliefInv
    <3>2. QED
      BY <1>1, <1>2, <1>6, <3>1 DEF BeliefOK, Active, Pending
  <2>3. QED
    BY <2>1, <2>2 DEF BeliefInv
<1>12. HistoryInv'
  <2>1. ASSUME NEW t \in Nat, Before(t) PROVE Before(t)'
    <3>1. c.op = "acquire" => t < c.now + Ttl
      BY <1>3, <1>4, <2>1, WaitAssumption, BoundsAssumption DEF Before, Times
    <3>2. QED
      BY <1>1, <1>2, <2>1, <3>1 DEF Before
  <2>2. QED
    BY <1>1, <1>2, <1>3, <2>1, HistoryStays DEF IInv, FilesInv
<1>13. QED
  BY <1>8, <1>9, <1>10, <1>11, <1>12 DEF IInv

\* The replay comes to an intent, and passes over one it cannot decide about.
LEMMA ReplayKeeps ==
  ASSUME IInv, NEW l \in LeaseIds, ReplayApply(l) \/ ReplayQuarantine(l)
  PROVE  IInv'
<1>1. /\ pc = "replay" /\ l \in work.todo /\ UNCHANGED <<files, world, belief, finished, issued, lock>>
      /\ BusyOK /\ lock # NoProc
  BY DEF ReplayApply, ReplayQuarantine, Replaying, Apply, IInv, WorkInv
<1>2. /\ records' = records /\ pending' = pending /\ reclamation' = reclamation
      /\ activeMap' = activeMap /\ rows' = rows
      /\ clock' = clock /\ alive' = alive /\ tree' = tree /\ trees' = trees
  BY <1>1 DEF files, registry, world
<1>3. DOMAIN work = {"call", "todo", "lease", "from", "seen"} /\ work.todo \subseteq Pending
  BY <1>1 DEF BusyOK
<1>4. work.from # "publish" /\ (work.call.op \notin {"retain", "reconcile"} => issued < MaxMutations)
  BY <1>1 DEF BusyOK, Applying, Removing
<1>5. ASSUME work'.call = work.call PROVE CallOK(work.call)'
  BY <1>1, <1>2, <1>5 DEF BusyOK, CallOK
<1>6. CASE ReplayApply(l)
  <2>1. pc' = "append" /\ work' = [work EXCEPT !.lease = l, !.from = "replay"]
        /\ (Prepared(l) => TookEffect(l))
    BY <1>6 DEF ReplayApply, Apply
  <2>2. Prepared(l) => Gone(l)
    BY <2>1 DEF TookEffect, Gone, Present
  <2>3. Prepared(l)' = Prepared(l) /\ Gone(l)' = Gone(l)
    BY <1>2 DEF Prepared, Gone, Present
  <2>4. work'.call = work.call /\ work'.todo = work.todo /\ work'.lease = l /\ work'.from = "replay"
        /\ DOMAIN work' = {"call", "todo", "lease", "from", "seen"}
    BY <1>3, <2>1
  <2>5. BusyOK'
    BY <1>1, <1>2, <1>3, <1>4, <1>5, <2>1, <2>2, <2>3, <2>4 DEF BusyOK, Pending, Applying, Removing
  <2>6. QED
    BY <1>1, <2>1, <2>4, <2>5, QuietMove
<1>7. CASE ReplayQuarantine(l)
  <2>1. pc' = pc /\ work' = [work EXCEPT !.todo = @ \ {l}]
    BY <1>7 DEF ReplayQuarantine
  <2>2. work'.call = work.call /\ work'.todo \subseteq work.todo /\ work'.lease = work.lease
        /\ work'.from = work.from /\ DOMAIN work' = {"call", "todo", "lease", "from", "seen"}
    BY <1>3, <2>1
  <2>3. BusyOK'
    BY <1>1, <1>2, <1>3, <1>5, <2>1, <2>2 DEF BusyOK, Pending, Applying, Removing
  <2>4. QED
    BY <1>1, <2>1, <2>2, <2>3, QuietMove
<1>8. QED
  BY <1>6, <1>7

\* The second round of checks is passed.
LEMMA RecheckKeeps ==
  ASSUME IInv, Recheck
  PROVE  IInv'
<1>1. /\ pc = "recheck" /\ pc' = "remove" /\ Removable(work.call.lease)
      /\ UNCHANGED <<files, world, belief, finished, issued, lock>>
      /\ work' = [work EXCEPT !.seen = trees]
      /\ BusyOK /\ lock # NoProc
  BY DEF Recheck, IInv, WorkInv
<1>2. /\ records' = records /\ pending' = pending /\ reclamation' = reclamation
      /\ activeMap' = activeMap /\ rows' = rows
      /\ clock' = clock /\ alive' = alive /\ tree' = tree /\ trees' = trees
  BY <1>1 DEF files, registry, world
<1>3. /\ work'.call = work.call /\ work'.todo = work.todo /\ work'.lease = work.lease
      /\ work'.from = work.from /\ work'.seen = trees
      /\ DOMAIN work' = {"call", "todo", "lease", "from", "seen"}
  BY <1>1 DEF BusyOK
<1>4. CallOK(work.call)'
  BY <1>1, <1>2, <1>3 DEF BusyOK, CallOK
<1>5. Missing(records[work.call.lease].holder)' /\ SeenOK'
  <2>1. trees \in Nat
    BY DEF IInv, WorldTypes
  <2>2. QED
    BY <1>1, <1>2, <1>3, <2>1 DEF Removable, Intact, Missing, SeenOK, Registered
<1>6. BusyOK'
  BY <1>1, <1>2, <1>3, <1>4, <1>5 DEF BusyOK, Pending, Active, Prepared, Applying, Removing
<1>7. QED
  BY <1>1, <1>3, <1>6, QuietMove

\* git removes the worktree.
LEMMA RemoveKeeps ==
  ASSUME IInv, RemoveWorktree
  PROVE  IInv'
<1> DEFINE path == records[work.call.lease].path
<1>1. /\ pc = "remove" /\ pc' = "removed" /\ BusyOK /\ lock # NoProc
      /\ tree' = [tree EXCEPT ![path] = [@ EXCEPT !.there = FALSE, !.branch = NoBranch]]
      /\ UNCHANGED <<files, clock, alive, trees, lock, work, belief, finished, issued>>
  BY DEF RemoveWorktree, IInv, WorkInv
<1>2. /\ records' = records /\ pending' = pending /\ reclamation' = reclamation
      /\ activeMap' = activeMap /\ rows' = rows
  BY <1>1 DEF files, registry
<1>3. /\ clock \in Nat /\ trees \in Nat /\ trees <= MaxTrees /\ DOMAIN tree = Paths
      /\ \A q \in Paths : DOMAIN tree[q] = {"there", "id", "clean", "branch"} /\ tree[q].id \in 0..trees
  BY BoundsAssumption DEF IInv, WorldTypes, Times
<1>4. /\ DOMAIN tree' = Paths
      /\ \A q \in Paths : /\ DOMAIN tree'[q] = {"there", "id", "clean", "branch"}
                          /\ tree'[q].id = tree[q].id
                          /\ tree'[q].there => tree[q].there /\ tree'[q].branch = tree[q].branch
  <2> DEFINE t == [tree[path] EXCEPT !.there = FALSE, !.branch = NoBranch]
  <2>1. path \in Paths => /\ DOMAIN t = {"there", "id", "clean", "branch"}
                          /\ t.id = tree[path].id /\ ~t.there
    BY <1>3
  <2>2. tree' = [tree EXCEPT ![path] = t]
    BY <1>1
  <2> HIDE DEF t, path
  <2>3. QED
    BY <1>3, <2>1, <2>2
<1> HIDE DEF path
<1>5. WorldTypes'
  BY <1>1, <1>3, <1>4 DEF IInv, WorldTypes
<1>6. WorldStep
  <2>1. ASSUME NEW l \in LeaseIds, l \in Pending, Gone(l) PROVE Gone(l)'
    <3>1. pending[l].record.path \in Paths
      BY <2>1 DEF IInv, FilesInv, FileTypes, Pending, Intents, IntentRecord, Stored, Record
    <3>2. QED
      BY <1>2, <1>4, <2>1, <3>1 DEF Gone, Present
  <2>2. QED
    BY <1>1, <1>3, <1>4, <2>1 DEF WorldStep, Present
<1>7. FilesInv'
  BY <1>1, <1>3, <1>6, FilesStay DEF IInv
<1>8. WorkInv'
  <2>1. CallOK(work.call)'
    BY <1>1 DEF BusyOK, CallOK
  <2>2. BusyOK'
    BY <1>1, <1>2, <2>1 DEF BusyOK, Pending, Active, Prepared, Applying, Removing
  <2>3. QED
    BY <1>1, <2>2 DEF IInv, WorkInv
<1>9. BeliefInv'
  BY <1>1, <1>2, CallerStays, BeliefsStay DEF IInv, BeliefInv
<1>10. HistoryInv'
  BY <1>1, <1>2, <1>3, BeforeStays, HistoryStays DEF IInv, FilesInv, files, registry
<1>11. QED
  BY <1>5, <1>7, <1>8, <1>9, <1>10 DEF IInv

-----------------------------------------------------------------------------
(* The files, when a step is about one lease *)

\* A row of l is appended, which is not the row of another's intent.
Appended(row, l) ==
  /\ rows' = Append(rows, row) /\ row.lease = l
  /\ \A m \in Pending \ {l} : pending[m].recordId # row.recordId

LEMMA AppendedRows ==
  ASSUME NEW l, NEW row, Appended(row, l), rows \in Seq(Row)
  PROVE  LET n == Len(rows)
         IN  /\ n \in Nat /\ DOMAIN rows = 1..n /\ DOMAIN rows' = (DOMAIN rows) \cup {n + 1}
             /\ n + 1 \notin DOMAIN rows /\ rows'[n + 1] = row
             /\ \A k \in DOMAIN rows : rows'[k] = rows[k] /\ k \in Int /\ k < n + 1
<1>1. /\ Len(rows) \in Nat /\ DOMAIN rows = 1..Len(rows)
      /\ DOMAIN rows' = 1..(Len(rows) + 1) /\ rows'[Len(rows) + 1] = row
      /\ \A k \in 1..Len(rows) : rows'[k] = rows[k]
  BY DEF Appended
<1>2. 1..(Len(rows) + 1) = (1..Len(rows)) \cup {Len(rows) + 1}
  BY <1>1
<1>3. QED
  BY <1>1, <1>2

\* The other leases, when a row of l may be appended and the map rewritten.
LEMMA OthersKeep ==
  ASSUME FilesInv, NEW l \in LeaseIds,
         \A m \in LeaseIds \ {l} : records'[m] = records[m] /\ pending'[m] = pending[m],
         activeMap' = activeMap \/ activeMap' = Active',
         UNCHANGED <<reclamation, tree, trees>>,
         issued' \in Nat, issued' = issued \/ issued' = issued + 1,
         rows' = rows \/ \E row : Appended(row, l)
  PROVE  \A m \in LeaseIds \ {l} : LeaseOK(m)'
<1>1. ASSUME NEW m \in LeaseIds \ {l} PROVE LeaseOK(m)'
  <2>1. /\ records'[m] = records[m] /\ pending'[m] = pending[m] /\ m \in LeaseIds
        /\ m \in Active' <=> m \in Active
        /\ m \in Released' <=> m \in Released
        /\ m \in Pending' <=> m \in Pending
    BY <1>1 DEF Active, Released, Pending
  <2>2. LeaseOK(m) /\ rows \in Seq(Row) /\ issued \in Nat /\ m \in Int
    BY BoundsAssumption, <2>1 DEF FilesInv, FileTypes, LeaseIds
  <2>3. /\ RowsOf(m)' = RowsOf(m)
        /\ \A k \in RowsOf(m) : rows'[k] = rows[k]
        /\ \A k \in DOMAIN rows : k \in DOMAIN rows' /\ rows'[k] = rows[k]
    <3>1. CASE rows' = rows
      BY <3>1 DEF RowsOf
    <3>2. ASSUME NEW row, Appended(row, l)
          PROVE  /\ RowsOf(m)' = RowsOf(m)
                 /\ \A k \in RowsOf(m) : rows'[k] = rows[k]
                 /\ \A k \in DOMAIN rows : k \in DOMAIN rows' /\ rows'[k] = rows[k]
      <4>1. row.lease = l
        BY <3>2 DEF Appended
      <4>2. \A k : k \in RowsOf(m)' <=> k \in RowsOf(m)
        BY <1>1, <2>2, <3>2, <4>1, AppendedRows DEF RowsOf
      <4>3. QED
        BY <2>2, <3>2, <4>2, AppendedRows DEF RowsOf
    <3>3. QED
      BY <3>1, <3>2
  <2>4. \A k \in RowsOf(m) : LastRow(k)' <=> LastRow(k)
    BY <2>3 DEF LastRow, RowsOf
  <2>5. m \in Pending => (Begun(m)' <=> Begun(m))
    <3>1. ASSUME m \in Pending PROVE Begun(m)' <=> Begun(m)
      <4>1. CASE rows' = rows
        BY <2>1, <4>1 DEF Begun, HasRow
      <4>2. ASSUME NEW row, Appended(row, l) PROVE Begun(m)' <=> Begun(m)
        <5>1. pending[m].recordId # row.recordId
          BY <1>1, <3>1, <4>2 DEF Appended
        <5>2. QED
          BY <2>1, <2>2, <4>2, <5>1, AppendedRows DEF Begun, HasRow
      <4>3. QED
        BY <1>1, <3>1, <4>1, <4>2
    <3>2. QED
      BY <3>1
  <2>6. m \in Pending => IntentOK(m)'
    <3>1. ASSUME m \in Pending PROVE IntentOK(m)'
      <4>1. IntentOK(m) /\ pending[m].recordId \in Nat
        BY <2>2, <3>1 DEF LeaseOK, FilesInv, FileTypes, Pending, Intents, IntentRecord, LeaseIds
      <4>2. Gone(m)' <=> Gone(m)
        BY <2>1 DEF Gone, Present
      <4>3. Prepared(m)' <=> Prepared(m)
        BY <2>1 DEF Prepared
      <4>4. pending[m].recordId <= issued'
        BY <2>2, <4>1 DEF IntentOK
      <4>5. QED
        BY <2>1, <2>5, <3>1, <4>1, <4>2, <4>3, <4>4 DEF IntentOK
    <3>2. QED
      BY <3>1
  <2>7. m \notin Pending \/ ~Begun(m) => Agree(m)'
    <3>1. Agree(m) => Agree(m)'
      BY <2>1, <2>3, <2>4 DEF Agree
    <3>2. QED
      BY <2>2, <3>1 DEF LeaseOK
  <2>8. m > issued' => m > issued
    BY <2>2
  <2>9. QED
    BY <2>1, <2>2, <2>3, <2>5, <2>6, <2>7, <2>8 DEF LeaseOK
<1>2. QED
  BY <1>1

\* Nobody claims more than before.
LEMMA ClaimsStay ==
  ASSUME ClaimsOK,
         \A m \in Claims' : /\ m \in Claims
                            /\ RecordOf(m)'.branch = RecordOf(m).branch
                            /\ RecordOf(m)'.path = RecordOf(m).path,
         \A m \in Pending' : m \in Pending /\ pending'[m].recordId = pending[m].recordId
  PROVE  ClaimsOK'
BY DEF ClaimsOK, ClaimsExclude

\* The record of a claim names the branch and the path of its intent.
LEMMA ClaimOf ==
  ASSUME FilesInv, NEW l \in LeaseIds, l \in Active
  PROVE  /\ l \in Claims /\ RecordOf(l).branch = records[l].branch
         /\ RecordOf(l).path = records[l].path /\ records[l] \in Stored
BY DEF FilesInv, FileTypes, LeaseOK, IntentOK, Same, Active, Claims, RecordOf

\* An intent that has had no effect is taken back.
LEMMA DropIntent ==
  ASSUME FilesInv, NEW l \in LeaseIds, l \in Pending, ~Begun(l),
         pending' = [pending EXCEPT ![l] = NoIntent],
         UNCHANGED <<records, reclamation, reclaimedThrough, activeMap, rows, issued, tree, trees>>
  PROVE  FilesInv'
<1>1. /\ DOMAIN pending = LeaseIds /\ issued \in Nat
      /\ pending'[l] = NoIntent /\ \A m \in LeaseIds \ {l} : pending'[m] = pending[m]
      /\ Pending' = Pending \ {l}
      /\ Active' = Active /\ Released' = Released
  BY BoundsAssumption DEF FilesInv, FileTypes, Pending, Active, Released
<1>2. LeaseOK(l) /\ IntentOK(l)
  BY DEF FilesInv, LeaseOK
<1>3. FileTypes'
  BY <1>1 DEF FilesInv, FileTypes
<1>4. ClaimsOK'
  <2>1. \A m \in Claims' : /\ m \in Claims
                           /\ RecordOf(m)'.branch = RecordOf(m).branch
                           /\ RecordOf(m)'.path = RecordOf(m).path
    <3>1. \A m \in Claims' : m # l => m \in Claims /\ RecordOf(m)' = RecordOf(m)
      BY <1>1 DEF Claims, RecordOf, Pending
    <3>2. l \in Claims' => l \in Active /\ RecordOf(l)' = records[l]
      BY <1>1 DEF Claims, RecordOf
    <3>3. QED
      BY <3>1, <3>2, ClaimOf
  <2>2. QED
    BY <1>1, <2>1, ClaimsStay DEF FilesInv, Pending
<1>5. RowsOK'
  <2>1. \A k : (FirstRow(k)' <=> FirstRow(k)) /\ (LastRow(k)' <=> LastRow(k))
    BY DEF FirstRow, LastRow, RowsOf
  <2>2. \A m \in Pending' : m \in Pending /\ pending'[m] = pending[m]
    BY <1>1 DEF Pending
  <2>3. QED
    BY <2>1, <2>2 DEF FilesInv, RowsOK
<1>6. \A m \in LeaseIds \ {l} : LeaseOK(m)'
  <2>1. /\ UNCHANGED <<reclamation, tree, trees>> /\ activeMap' = activeMap /\ rows' = rows
        /\ issued' = issued /\ issued' \in Nat
        /\ \A m \in LeaseIds \ {l} : records'[m] = records[m] /\ pending'[m] = pending[m]
    BY <1>1
  <2>2. QED
    BY <2>1, OthersKeep, Zenon
<1>7. LeaseOK(l)'
  <2>1. Agree(l)'
    BY <1>1, <1>2 DEF LeaseOK, Agree, RowsOf, LastRow
  <2>2. QED
    BY <1>1, <1>2, <2>1 DEF LeaseOK, RowsOf
<1>8. QED
  BY <1>3, <1>4, <1>5, <1>6, <1>7 DEF FilesInv

-----------------------------------------------------------------------------
(* applyIntent *)

\* What is known at any point of applying an intent.
LEMMA ApplyingFacts ==
  ASSUME IInv, pc \in Applying
  PROVE  LET l == work.lease
             i == pending[l]
         IN  /\ lock # NoProc /\ lock \in alive /\ lock \in Procs /\ BusyOK
             /\ l \in LeaseIds /\ l \in Pending /\ i \in Intents /\ i # NoIntent
             /\ LeaseOK(l) /\ IntentOK(l)
             /\ clock \in Nat /\ issued \in Nat /\ trees \in Nat /\ rows \in Seq(Row)
             /\ DOMAIN work = {"call", "todo", "lease", "from", "seen"} /\ work.todo \subseteq Pending
             /\ DOMAIN records = LeaseIds /\ DOMAIN pending = LeaseIds
<1>1. lock # NoProc /\ BusyOK /\ lock \in alive /\ lock \in Procs
  BY DEF IInv, WorkInv, WorldTypes, Applying
<1>2. work.lease \in Pending
  BY <1>1 DEF BusyOK
<1>3. work.lease \in LeaseIds /\ pending[work.lease] \in Intents /\ pending[work.lease] # NoIntent
  BY <1>2 DEF Pending, IInv, FilesInv, FileTypes
<1>4. LeaseOK(work.lease) /\ IntentOK(work.lease)
  BY <1>2, <1>3 DEF IInv, FilesInv, LeaseOK
<1>5. clock \in Nat /\ issued \in Nat /\ trees \in Nat /\ rows \in Seq(Row)
  BY BoundsAssumption DEF IInv, WorldTypes, Times, FilesInv, FileTypes
<1>6. /\ DOMAIN work = {"call", "todo", "lease", "from", "seen"} /\ work.todo \subseteq Pending
      /\ DOMAIN records = LeaseIds /\ DOMAIN pending = LeaseIds
  BY <1>1 DEF BusyOK, IInv, FilesInv, FileTypes
<1>7. QED
  BY <1>1, <1>2, <1>3, <1>4, <1>5, <1>6

\* The files after the row of an intent was appended.
LEMMA AppendFiles ==
  ASSUME IInv, AppendRow, ~Begun(work.lease)
  PROVE  FilesInv'
<1> DEFINE l   == work.lease
           i   == pending[l]
           row == [recordId |-> i.recordId, lease |-> l, status |-> i.record.status]
           n   == Len(rows)
<1>1. /\ pc = "append" /\ n < MaxRows /\ rows' = Append(rows, row)
      /\ UNCHANGED <<registry, activeMap, world, lock, work, belief, finished, issued>>
  BY DEF AppendRow, Begun
<1>2. /\ lock # NoProc /\ BusyOK /\ l \in LeaseIds /\ l \in Pending /\ i \in Intents
      /\ LeaseOK(l) /\ IntentOK(l) /\ rows \in Seq(Row)
  BY <1>1, ApplyingFacts DEF Applying
<1>3. /\ records' = records /\ pending' = pending /\ reclamation' = reclamation
      /\ reclaimedThrough' = reclaimedThrough /\ activeMap' = activeMap /\ issued' = issued
      /\ tree' = tree /\ trees' = trees /\ work' = work
  BY <1>1 DEF registry, world
<1>4. Agree(l)
  BY <1>2 DEF LeaseOK
<1>5. /\ i.recordId \in LeaseIds /\ i.record.status \in {"active", "released"}
      /\ row \in Row /\ row.lease = l /\ row.recordId = i.recordId /\ row.status = i.record.status
  BY <1>2 DEF Intents, IntentRecord, Stored, Record, Row
<1>6. Appended(row, l)
  BY <1>1, <1>2, <1>5 DEF IInv, FilesInv, ClaimsOK, Appended
<1> HIDE DEF row
<1>7. /\ n \in Nat /\ DOMAIN rows = 1..n /\ DOMAIN rows' = (DOMAIN rows) \cup {n + 1}
      /\ n + 1 \notin DOMAIN rows /\ rows'[n + 1] = row
      /\ \A k \in DOMAIN rows : rows'[k] = rows[k] /\ k \in Int /\ k < n + 1
  BY <1>2, <1>6, AppendedRows
<1>8. FileTypes'
  <2>1. rows' \in Seq(Row) /\ Len(rows') <= MaxRows
    BY <1>1, <1>2, <1>5, <1>7, BoundsAssumption
  <2>2. QED
    BY <1>3, <2>1 DEF IInv, FilesInv, FileTypes
<1>9. ClaimsOK'
  BY <1>3 DEF IInv, FilesInv, ClaimsOK, ClaimsExclude, Claims, RecordOf, Active, Pending
<1>10. \A k \in DOMAIN rows : rows[k].recordId # i.recordId
  BY <1>2 DEF Begun, HasRow
<1>11. RowsOK'
  <2>1. \A j, k \in DOMAIN rows' : rows'[j].recordId = rows'[k].recordId => j = k
    BY <1>5, <1>7, <1>10 DEF IInv, FilesInv, RowsOK
  <2>2. ASSUME NEW k \in DOMAIN rows'
        PROVE  /\ rows'[k].lease <= rows'[k].recordId /\ rows'[k].recordId <= issued
               /\ rows'[k].recordId = rows'[k].lease => FirstRow(k)'
               /\ \A m \in Pending : rows'[k].recordId = pending[m].recordId =>
                    rows'[k].lease = m /\ rows'[k].status = pending[m].record.status /\ LastRow(k)'
    <3>1. CASE k = n + 1
      <4>1. rows'[k] = row
        BY <1>7, <3>1
      <4>2. l <= i.recordId /\ i.recordId <= issued
        BY <1>2 DEF IntentOK
      <4>3. i.recordId = l => FirstRow(k)'
        <5>1. ASSUME i.recordId = l PROVE RowsOf(l) = {}
          BY <1>2, <1>4, <5>1 DEF IntentOK, Agree
        <5>2. ASSUME i.recordId = l PROVE \A j \in DOMAIN rows : rows[j].lease # l
          BY <5>1, <5>2 DEF RowsOf
        <5>3. QED
          BY <1>5, <1>7, <3>1, <4>1, <5>2 DEF FirstRow, RowsOf
      <4>4. LastRow(k)'
        BY <1>7, <3>1 DEF LastRow, RowsOf
      <4>5. \A m \in Pending : i.recordId = pending[m].recordId => m = l
        BY <1>2 DEF IInv, FilesInv, ClaimsOK
      <4>6. QED
        BY <1>5, <4>1, <4>2, <4>3, <4>4, <4>5
    <3>2. CASE k \in DOMAIN rows
      <4>1. rows'[k] = rows[k] /\ rows[k].lease <= rows[k].recordId /\ rows[k].recordId <= issued
        BY <1>7, <3>2 DEF IInv, FilesInv, RowsOK
      <4>2. FirstRow(k) => FirstRow(k)'
        BY <1>7, <3>2 DEF FirstRow, RowsOf
      <4>3. ASSUME NEW m \in Pending, rows[k].recordId = pending[m].recordId
            PROVE  rows[k].lease = m /\ rows[k].status = pending[m].record.status /\ LastRow(k)'
        <5>1. rows[k].lease = m /\ rows[k].status = pending[m].record.status /\ LastRow(k)
          BY <3>2, <4>3 DEF IInv, FilesInv, RowsOK
        <5>2. m # l
          BY <1>10, <3>2, <4>3
        <5>3. LastRow(k)'
          BY <1>5, <1>7, <3>2, <5>1, <5>2 DEF LastRow, RowsOf
        <5>4. QED
          BY <5>1, <5>3
      <4>4. rows[k].recordId = rows[k].lease => FirstRow(k)
        BY <3>2 DEF IInv, FilesInv, RowsOK
      <4>5. QED
        BY <4>1, <4>2, <4>3, <4>4
    <3>3. QED
      BY <1>7, <3>1, <3>2
  <2>3. QED
    BY <1>3, <2>1, <2>2 DEF RowsOK, Pending
<1>12. \A m \in LeaseIds \ {l} : LeaseOK(m)'
  <2>1. /\ UNCHANGED <<reclamation, tree, trees>> /\ activeMap' = activeMap
        /\ issued' = issued /\ issued' \in Nat
        /\ \A m \in LeaseIds \ {l} : records'[m] = records[m] /\ pending'[m] = pending[m]
    BY <1>3, BoundsAssumption DEF IInv, FilesInv, FileTypes
  <2>2. FilesInv /\ l \in LeaseIds
    BY <1>2 DEF IInv
  <2>3. QED
    BY <1>6, <2>1, <2>2, OthersKeep, Zenon
<1>13. LeaseOK(l)'
  <2>1. n + 1 \in RowsOf(l)' /\ RowsOf(l) \subseteq RowsOf(l)'
    BY <1>3, <1>5, <1>7 DEF RowsOf
  <2>2. Begun(l)'
    BY <1>3, <1>5, <1>7 DEF Begun, HasRow
  <2>3. Prepared(l) => Gone(l)
    BY <1>1, <1>2 DEF BusyOK, Applying
  <2>4. IntentOK(l)'
    <3>1. Gone(l)' = Gone(l) /\ Prepared(l)' = Prepared(l)
      BY <1>3 DEF Gone, Prepared, Present
    <3>2. QED
      BY <1>2, <1>3, <2>2, <2>3, <3>1 DEF IntentOK, Active
  <2>5. l \in Active => \E k \in RowsOf(l) : rows[k].recordId = l
    BY <1>2 DEF LeaseOK
  <2>6. l \in Active => \E k \in RowsOf(l)' : rows'[k].recordId = l
    BY <1>7, <2>1, <2>5 DEF RowsOf
  <2>7. QED
    BY <1>2, <1>3, <2>1, <2>2, <2>4, <2>6 DEF LeaseOK, Active, Released, Pending
<1>14. QED
  BY <1>3, <1>8, <1>9, <1>11, <1>12, <1>13 DEF FilesInv

\* The row is appended, or was.
LEMMA AppendKeeps ==
  ASSUME IInv, AppendRow
  PROVE  IInv'
<1>1. /\ pc = "append" /\ pc' = "record" /\ lock # NoProc
      /\ UNCHANGED <<registry, activeMap, world, lock, work, belief, finished, issued>>
      /\ Begun(work.lease) => rows' = rows
      /\ \E row : rows' = rows \/ rows' = Append(rows, row)
  BY ApplyingFacts DEF AppendRow, Begun, Applying
<1>2. /\ records' = records /\ pending' = pending /\ reclamation' = reclamation
      /\ reclaimedThrough' = reclaimedThrough /\ activeMap' = activeMap /\ issued' = issued
      /\ clock' = clock /\ alive' = alive /\ tree' = tree /\ trees' = trees /\ work' = work
  BY <1>1 DEF registry, world
<1>3. BusyOK /\ work.lease \in Pending
  BY <1>1, ApplyingFacts DEF Applying
<1>4. Begun(work.lease)'
  <2>1. CASE Begun(work.lease)
    BY <1>1, <1>2, <2>1 DEF Begun, HasRow
  <2>2. CASE ~Begun(work.lease)
    <3> DEFINE row == [recordId |-> pending[work.lease].recordId, lease |-> work.lease,
                       status |-> pending[work.lease].record.status]
    <3>1. rows' = Append(rows, row) /\ row.recordId = pending[work.lease].recordId
      BY <2>2 DEF AppendRow, Begun
    <3> HIDE DEF row
    <3>2. rows \in Seq(Row)
      BY DEF IInv, FilesInv, FileTypes
    <3>3. Len(rows) + 1 \in DOMAIN rows' /\ rows'[Len(rows) + 1] = row
      BY <3>1, <3>2
    <3>4. QED
      BY <1>2, <3>1, <3>3 DEF Begun, HasRow
  <2>3. QED
    BY <2>1, <2>2
<1>5. BusyOK'
  <2>1. CallOK(work.call)'
    BY <1>2, <1>3 DEF BusyOK, CallOK
  <2>2. Prepared(work.lease)' = Prepared(work.lease) /\ Gone(work.lease)' = Gone(work.lease)
    BY <1>2 DEF Prepared, Gone, Present
  <2>3. QED
    BY <1>1, <1>2, <1>3, <1>4, <2>1, <2>2 DEF BusyOK, Pending, Applying, Removing
<1>6. CASE Begun(work.lease)
  BY <1>1, <1>5, <1>6, <1>2, QuietMove DEF files
<1>7. CASE ~Begun(work.lease)
  <2>1. FilesInv'
    BY <1>7, AppendFiles
  <2>2. WorldTypes'
    BY <1>1, <1>2 DEF IInv, WorldTypes
  <2>3. WorkInv'
    BY <1>1, <1>2, <1>5 DEF IInv, WorkInv
  <2>4. BeliefInv'
    BY <1>1, <1>2, CallerStays, BeliefsStay DEF IInv, BeliefInv
  <2>5. HistoryInv'
    <3>1. clock \in Nat /\ FileTypes
      BY BoundsAssumption DEF IInv, WorldTypes, Times, FilesInv
    <3>2. QED
      BY <1>1, <1>2, <3>1, BeforeStays, HistoryStays DEF IInv
  <2>6. QED
    BY <2>1, <2>2, <2>3, <2>4, <2>5 DEF IInv
<1>8. QED
  BY <1>6, <1>7

\* Intents that go take no belief and no history with them.
LEMMA IntentsGo ==
  ASSUME IInv, UNCHANGED <<records, reclamation, reclaimedThrough, alive, issued, clock, finished>>,
         pc' # "idle" => pc # "idle" /\ work'.call = work.call,
         \A m \in Pending' : m \in Pending /\ pending'[m] = pending[m]
  PROVE  /\ HistoryInv'
         /\ \A p \in Procs, m \in LeaseIds : BeliefOK(p, m) /\ belief'[p][m] = belief[p][m] => BeliefOK(p, m)'
<1>1. HistoryInv'
  <2>1. \A t : Before(t) => Before(t)'
    BY DEF Before
  <2>2. \A f \in finished : Lost(f) => Lost(f)'
    BY <2>1 DEF Lost, Later, Over, Active, Released, Key
  <2>3. ReclamationOK'
    BY <2>1 DEF IInv, HistoryInv, ReclamationOK, Released, Key
  <2>4. \A l \in Pending' : pending'[l].record.updatedAt <= clock /\ Lives(pending'[l].record)
    BY DEF IInv, HistoryInv
  <2>5. QED
    BY <2>2, <2>3, <2>4 DEF IInv, HistoryInv, Lives, Active, Released
<1>2. ASSUME NEW p \in Procs, NEW m \in LeaseIds, BeliefOK(p, m), belief'[p][m] = belief[p][m]
      PROVE  BeliefOK(p, m)'
  BY <1>2 DEF BeliefOK, Active
<1>3. QED
  BY <1>1, <1>2

\* The intent is dealt with: the replay goes on, or the call is over.
LEMMA AppliedKeeps ==
  ASSUME IInv, pc \in Applying, Applied, UNCHANGED <<clock, alive, issued>>,
         \A m \in Pending : m # work.lease => m \in Pending'
  PROVE  /\ WorkInv'
         /\ (work.from = "replay" /\ lock' = lock /\ work'.call = work.call) \/ (work.from # "replay" /\ Leave)
<1>1. /\ lock # NoProc /\ BusyOK /\ DOMAIN work = {"call", "todo", "lease", "from", "seen"}
      /\ work.todo \subseteq Pending /\ NoProc \notin alive
  BY ApplyingFacts, NoProcAssumption DEF IInv, WorldTypes
<1>2. CASE work.from = "replay"
  <2>1. pc' = "replay" /\ work' = [work EXCEPT !.todo = @ \ {work.lease}] /\ lock' = lock
    BY <1>2 DEF Applied
  <2>2. work'.call = work.call /\ work'.todo = work.todo \ {work.lease} /\ work'.from = "replay"
        /\ DOMAIN work' = {"call", "todo", "lease", "from", "seen"}
    BY <1>1, <1>2, <2>1
  <2>3. CallOK(work.call)'
    BY <1>1, <2>2 DEF BusyOK, CallOK
  <2>4. work.call.op \notin {"retain", "reconcile"} => issued < MaxMutations
    BY <1>1, <1>2 DEF BusyOK, Applying, Removing
  <2>5. BusyOK'
    BY <1>1, <2>1, <2>2, <2>3, <2>4 DEF BusyOK, Applying, Removing
  <2>6. QED
    BY <1>1, <1>2, <2>1, <2>2, <2>5 DEF IInv, WorkInv
<1>3. CASE work.from # "replay"
  <2>1. Leave
    BY <1>3 DEF Applied
  <2>2. WorkInv'
    BY <1>1, <2>1, LeaveKeeps DEF IInv
  <2>3. QED
    BY <1>3, <2>1, <2>2
<1>4. QED
  BY <1>2, <1>3

\* The ledger is full.
LEMMA LimitKeeps ==
  ASSUME IInv, AppendLimit
  PROVE  IInv'
<1> DEFINE l == work.lease
<1>1. /\ pc = "append" /\ ~Begun(l) /\ Applied
      /\ pending' = [pending EXCEPT ![l] = NoIntent] \/ pending' = pending
      /\ UNCHANGED <<records, reclamation, reclaimedThrough, activeMap, rows, world, belief, finished, issued>>
  BY DEF AppendLimit, Begun
<1>2. /\ clock' = clock /\ alive' = alive /\ tree' = tree /\ trees' = trees
  BY <1>1 DEF world
<1>3. /\ l \in LeaseIds /\ l \in Pending /\ trees \in Nat /\ DOMAIN pending = LeaseIds
      /\ NoProc \notin alive
  BY <1>1, ApplyingFacts, NoProcAssumption DEF Applying, IInv, WorldTypes
<1>4. FilesInv'
  <2>1. CASE pending' = pending
    <3>1. WorldStep
      BY <1>2, <1>3, <2>1 DEF WorldStep, Gone, Present
    <3>2. QED
      BY <1>1, <1>3, <2>1, <3>1, FilesStay DEF IInv, files, registry
  <2>2. CASE pending' = [pending EXCEPT ![l] = NoIntent]
    BY <1>1, <1>2, <1>3, <2>2, DropIntent DEF IInv
  <2>3. QED
    BY <1>1, <2>1, <2>2
<1>5. /\ \A m \in Pending' : m \in Pending /\ pending'[m] = pending[m]
      /\ \A m \in Pending : m # l => m \in Pending'
  BY <1>1, <1>3 DEF Pending
<1>6. /\ WorkInv'
      /\ (work.from = "replay" /\ lock' = lock /\ work'.call = work.call) \/ (work.from # "replay" /\ Leave)
  BY <1>1, <1>2, <1>5, AppliedKeeps DEF Applying
<1>7. CallerOK'
  BY <1>1, <1>2, <1>3, <1>6, CallerStays, LeaveKeeps DEF IInv, BeliefInv
<1>8. pc' # "idle" => pc # "idle" /\ work'.call = work.call
  BY <1>1, <1>6 DEF Leave
<1>9. HistoryInv' /\ \A p \in Procs, m \in LeaseIds : BeliefOK(p, m)'
  BY <1>1, <1>2, <1>5, <1>8, IntentsGo DEF IInv, BeliefInv
<1>10. WorldTypes'
  BY <1>1, <1>2 DEF IInv, WorldTypes
<1>11. QED
  BY <1>4, <1>6, <1>7, <1>9, <1>10 DEF IInv, BeliefInv

\* A prepared removal that had no effect is dropped: its row was never written,
\* or its worktree would be gone for good.
LEMMA ReplayDropKeeps ==
  ASSUME IInv, NEW l \in LeaseIds, ReplayDrop(l)
  PROVE  IInv'
<1>1. /\ pc = "replay" /\ l \in work.todo /\ Prepared(l) /\ NoEffect(l)
      /\ pending' = [pending EXCEPT ![l] = NoIntent] /\ work' = [work EXCEPT !.todo = @ \ {l}]
      /\ UNCHANGED <<records, reclamation, reclaimedThrough, activeMap, rows, world, lock, pc,
                     belief, finished, issued>>
  BY DEF ReplayDrop, Replaying
<1>2. /\ clock' = clock /\ alive' = alive /\ tree' = tree /\ trees' = trees
  BY <1>1 DEF world
<1>3. /\ BusyOK /\ lock # NoProc /\ l \in Pending /\ DOMAIN pending = LeaseIds
      /\ DOMAIN work = {"call", "todo", "lease", "from", "seen"} /\ work.todo \subseteq Pending
  <2>1. BusyOK /\ lock # NoProc
    BY <1>1 DEF IInv, WorkInv
  <2>2. QED
    BY <1>1, <2>1 DEF BusyOK, IInv, FilesInv, FileTypes
<1>4. ~Begun(l)
  <2>1. ~Gone(l)
    BY <1>1 DEF NoEffect, Gone
  <2>2. IntentOK(l)
    BY <1>3 DEF IInv, FilesInv, LeaseOK
  <2>3. QED
    BY <1>1, <2>1, <2>2 DEF IntentOK
<1>5. FilesInv'
  BY <1>1, <1>2, <1>3, <1>4, DropIntent DEF IInv
<1>6. /\ \A m \in Pending' : m \in Pending /\ pending'[m] = pending[m]
      /\ \A m \in Pending : m # l => m \in Pending'
  BY <1>1, <1>3 DEF Pending
<1>7. WorkInv'
  <2>1. work'.call = work.call /\ work'.todo = work.todo \ {l} /\ work'.from = work.from
        /\ DOMAIN work' = {"call", "todo", "lease", "from", "seen"}
    BY <1>1, <1>3
  <2>2. CallOK(work.call)'
    BY <1>2, <1>3, <2>1 DEF BusyOK, CallOK
  <2>3. BusyOK'
    BY <1>1, <1>3, <1>6, <2>1, <2>2 DEF BusyOK, Applying, Removing
  <2>4. QED
    BY <1>1, <1>2, <2>3 DEF IInv, WorkInv
<1>8. CallerOK'
  BY <1>1, <1>3, CallerStays DEF IInv, BeliefInv
<1>9. HistoryInv' /\ \A p \in Procs, m \in LeaseIds : BeliefOK(p, m)'
  BY <1>1, <1>2, <1>6, IntentsGo DEF IInv, BeliefInv
<1>10. WorldTypes'
  BY <1>1, <1>2 DEF IInv, WorldTypes
<1>11. QED
  BY <1>5, <1>7, <1>8, <1>9, <1>10 DEF IInv, BeliefInv

\* The files after the record of an intent was written.
LEMMA RecordFiles ==
  ASSUME IInv, WriteRecord
  PROVE  /\ FilesInv'
         /\ LET l == work.lease
            IN  /\ records'[l] = pending[l].record /\ l \in Pending' /\ work.todo \subseteq Pending'
                /\ \A m \in LeaseIds \ {l} : records'[m] = records[m]
                /\ Begun(l)
                /\ records' \in [LeaseIds -> Stored \cup {NoRecord}]
<1> DEFINE l == work.lease
           r == pending[l].record
<1>1. /\ pc = "record" /\ records' = [records EXCEPT ![l] = r]
      /\ UNCHANGED <<pending, reclamation, reclaimedThrough, activeMap, rows, world, work, issued>>
  BY DEF WriteRecord
<1>2. /\ BusyOK /\ l \in LeaseIds /\ l \in Pending /\ pending[l] \in Intents
      /\ LeaseOK(l) /\ IntentOK(l) /\ DOMAIN records = LeaseIds /\ work.todo \subseteq Pending
  BY <1>1, ApplyingFacts DEF Applying
<1>3. /\ tree' = tree /\ trees' = trees /\ r \in Stored /\ Begun(l) /\ r # NoRecord
      /\ r.status \in {"active", "released"}
  BY <1>1, <1>2, NothingAssumption DEF world, Intents, BusyOK, Applying, Stored, Record
<1>4. /\ records'[l] = r /\ \A m \in LeaseIds \ {l} : records'[m] = records[m]
      /\ records' \in [LeaseIds -> Stored \cup {NoRecord}]
      /\ Pending' = Pending
  BY <1>1, <1>2, <1>3 DEF IInv, FilesInv, FileTypes, Pending
<1> HIDE DEF r
<1>5. FileTypes'
  BY <1>1, <1>4 DEF IInv, FilesInv, FileTypes
<1>6. ClaimsOK'
  <2>1. \A m \in Claims' : m \in Claims /\ RecordOf(m)' = RecordOf(m)
    <3>1. ASSUME NEW m \in Claims' PROVE m \in Claims /\ RecordOf(m)' = RecordOf(m)
      <4>1. m \in LeaseIds /\ (m \in Active' \/ m \in Pending)
        BY <1>4, <3>1 DEF Claims, Active, Pending
      <4>2. CASE m = l
        BY <1>1, <1>2, <1>4, <4>2 DEF Claims, RecordOf
      <4>3. CASE m # l
        <5>1. m \in Active' => m \in Active
          BY <1>4, <4>1, <4>3 DEF Active
        <5>2. QED
          BY <1>1, <1>4, <4>1, <4>3, <5>1 DEF Claims, RecordOf
      <4>4. QED
        BY <4>2, <4>3
    <3>2. QED
      BY <3>1
  <2>2. QED
    BY <1>1, <1>4, <2>1, ClaimsStay DEF IInv, FilesInv
<1>7. RowsOK'
  BY <1>1, <1>4 DEF IInv, FilesInv, RowsOK, FirstRow, LastRow, RowsOf
<1>8. \A m \in LeaseIds \ {l} : LeaseOK(m)'
  <2>1. /\ UNCHANGED <<reclamation, tree, trees>> /\ activeMap' = activeMap /\ rows' = rows
        /\ issued' = issued /\ issued' \in Nat
        /\ \A m \in LeaseIds \ {l} : records'[m] = records[m] /\ pending'[m] = pending[m]
    BY <1>1, <1>3, <1>4, BoundsAssumption DEF IInv, FilesInv, FileTypes
  <2>2. FilesInv /\ l \in LeaseIds
    BY <1>2 DEF IInv
  <2>3. QED
    BY <2>1, <2>2, OthersKeep, Zenon
<1>9. LeaseOK(l)'
  <2>1. \E k \in RowsOf(l) : rows[k].recordId = pending[l].recordId
    <3>1. PICK k \in DOMAIN rows : rows[k].recordId = pending[l].recordId
      BY <1>3 DEF Begun, HasRow
    <3>2. rows[k].lease = l
      BY <1>2, <3>1 DEF IInv, FilesInv, RowsOK
    <3>3. QED
      BY <3>1, <3>2 DEF RowsOf
  <2>2. RowsOf(l)' = RowsOf(l) /\ Begun(l)' = Begun(l) /\ Gone(l)' = Gone(l) /\ Prepared(l)' = Prepared(l)
        /\ l \in Pending'
    BY <1>1, <1>2, <1>3, <1>4 DEF RowsOf, Begun, HasRow, Gone, Present, Prepared
  <2>3. l \in Active' <=> r.status = "active"
    BY <1>2, <1>3, <1>4 DEF Active
  <2>4. IntentOK(l)'
    <3>1. pending[l].operation \in {"acquire", "renew", "release", "remove"}
      BY <1>2 DEF Intents, IntentRecord
    <3>2. r.status = "active" <=> pending[l].operation \in {"acquire", "renew"}
      BY <1>2, <3>1 DEF IntentOK, r
    <3>3. QED
      BY <1>1, <1>2, <1>3, <1>4, <2>2, <2>3, <3>2 DEF IntentOK, Same, r
  <2>5. l \in Active' => \E k \in RowsOf(l) : rows[k].recordId = l
    <3>1. CASE pending[l].operation = "acquire"
      BY <1>2, <2>1, <3>1 DEF IntentOK
    <3>2. CASE pending[l].operation # "acquire"
      <4>1. l \in Active' => l \in Active
        BY <1>2, <1>3, <2>3, <3>2 DEF IntentOK, Intents, IntentRecord, r
      <4>2. QED
        BY <1>2, <4>1 DEF LeaseOK
    <3>3. QED
      BY <3>1, <3>2
  <2>6. ~(l > issued)
    BY <1>2 DEF LeaseOK
  <2>7. QED
    BY <1>1, <1>3, <2>1, <2>2, <2>4, <2>5, <2>6 DEF LeaseOK
<1>10. FilesInv'
  BY <1>1, <1>5, <1>6, <1>7, <1>8, <1>9 DEF FilesInv
<1>11. QED
  BY <1>1, <1>2, <1>3, <1>4, <1>10 DEF r

\* The record is written: what a lease is of does not change by it, and a
\* released record joins what was finished.
LEMMA RecordKeeps ==
  ASSUME IInv, WriteRecord
  PROVE  IInv'
<1> DEFINE l == work.lease
           r == pending[l].record
<1>1. /\ pc = "record" /\ pc' = "map"
      /\ finished' = IF r.status = "released" THEN finished \cup {r} ELSE finished
      /\ UNCHANGED <<pending, reclamation, reclaimedThrough, activeMap, rows, world, lock, work,
                     belief, issued>>
  BY DEF WriteRecord
<1>2. /\ clock' = clock /\ alive' = alive /\ tree' = tree /\ trees' = trees
  BY <1>1 DEF world
<1>3. /\ FilesInv' /\ records'[l] = r /\ l \in Pending' /\ work.todo \subseteq Pending'
      /\ \A m \in LeaseIds \ {l} : records'[m] = records[m]
      /\ Begun(l) /\ records' \in [LeaseIds -> Stored \cup {NoRecord}]
  BY RecordFiles
<1>4. /\ BusyOK /\ lock # NoProc /\ l \in LeaseIds /\ l \in Pending /\ pending[l] \in Intents
      /\ IntentOK(l) /\ clock \in Nat
  BY <1>1, ApplyingFacts DEF Applying
<1>5. r \in Stored /\ r # NoRecord /\ r.status \in {"active", "released"} /\ r.updatedAt \in Nat
  BY <1>4, NothingAssumption DEF Intents, Stored, Record, Times
<1>6. l \in Released => records[l] = r
  BY <1>4, <1>5 DEF IntentOK, Released, Active, Intents, IntentRecord
<1>7. /\ \A m \in LeaseIds \ {l} : (m \in Active' <=> m \in Active) /\ (m \in Released' <=> m \in Released)
      /\ l \in Active' <=> r.status = "active"
      /\ l \in Released' <=> r.status = "released"
      /\ Pending' = Pending
  BY <1>1, <1>3, <1>4, <1>5 DEF Active, Released, Pending
<1> HIDE DEF r
<1>8. WorldTypes'
  BY <1>1, <1>2 DEF IInv, WorldTypes
<1>9. WorkInv'
  <2>1. CallOK(work.call)'
    BY <1>1, <1>2, <1>4 DEF BusyOK, CallOK
  <2>2. /\ Begun(l)' /\ Prepared(l)' = Prepared(l) /\ Gone(l)' = Gone(l)
    BY <1>1, <1>2, <1>3 DEF Begun, HasRow, Prepared, Gone, Present
  <2>3. BusyOK'
    BY <1>1, <1>3, <1>4, <1>7, <2>1, <2>2 DEF BusyOK, Applying, Removing, r
  <2>4. QED
    BY <1>1, <1>2, <2>3 DEF IInv, WorkInv
<1>10. BeliefInv'
  <2>1. CallerOK'
    BY <1>1, CallerStays DEF IInv, BeliefInv
  <2>2. ASSUME NEW p \in Procs, NEW m \in LeaseIds PROVE BeliefOK(p, m)'
    <3>1. BeliefOK(p, m)
      BY DEF IInv, BeliefInv
    <3>2. CASE m # l
      BY <1>1, <1>2, <1>3, <1>7, <3>1, <3>2 DEF BeliefOK
    <3>3. CASE m = l
      <4>1. records[l] # NoRecord => r.holder = records[l].holder
        BY <1>4 DEF IntentOK, Same, r
      <4>2. QED
        BY <1>1, <1>2, <1>3, <1>4, <1>5, <1>7, <3>1, <3>3, <4>1 DEF BeliefOK, r
    <3>4. QED
      BY <3>2, <3>3
  <2>3. QED
    BY <2>1, <2>2 DEF BeliefInv
<1>11. HistoryInv'
  <2>1. \A f : f \in finished' <=> f \in finished \/ (f = r /\ r.status = "released")
    BY <1>1
  <2>2. \A m \in Released' : records'[m] \in finished'
    BY <1>3, <1>7, <2>1 DEF IInv, HistoryInv, Released
  <2>3. r.updatedAt <= clock /\ Lives(r)
    BY <1>4 DEF IInv, HistoryInv, r
  <2>4. \A m \in Released : m \in Released' /\ records'[m] = records[m]
    BY <1>3, <1>6, <1>7 DEF Released
  <2>5. ASSUME NEW f \in finished, Lost(f) PROVE Lost(f)'
    <3>1. ASSUME NEW m \in (Active \cup Released)' PROVE Later(records[m], f)'
      <4>1. CASE m = l
        BY <1>1, <1>3, <1>4, <1>7, <2>5, <3>1, <4>1 DEF Lost, Later, Over, Key, r
      <4>2. CASE m # l
        <5>1. m \in Active \cup Released /\ records'[m] = records[m]
          BY <1>3, <1>7, <3>1, <4>2 DEF Active, Released
        <5>2. QED
          BY <1>1, <2>5, <5>1 DEF Lost, Later, Over, Key
      <4>3. QED
        BY <4>1, <4>2
    <3>2. \A m \in Pending' : Later(pending[m].record, f)'
      BY <1>1, <1>7, <2>5 DEF Lost, Later, Over, Key
    <3>3. Before(f.updatedAt)'
      BY <1>1, <1>2, <2>5 DEF Lost, Before
    <3>4. QED
      BY <3>1, <3>2, <3>3 DEF Lost
  <2>6. \A f \in finished' : (\E m \in Released' : records'[m] = f) \/ Lost(f)'
    <3>1. ASSUME NEW f \in finished PROVE (\E m \in Released' : records'[m] = f) \/ Lost(f)'
      BY <2>4, <2>5 DEF IInv, HistoryInv
    <3>2. r.status = "released" => \E m \in Released' : records'[m] = r
      BY <1>3, <1>7
    <3>3. QED
      BY <2>1, <3>1, <3>2
  <2>7. ReclamationOK'
    BY <1>1, <1>2, <2>4 DEF IInv, HistoryInv, ReclamationOK, Before, Key
  <2>8. \A f \in finished' : f \in Stored /\ f.updatedAt <= clock'
    BY <1>2, <1>5, <2>1, <2>3 DEF IInv, HistoryInv
  <2>9. \A m \in Pending' : pending'[m].record.updatedAt <= clock' /\ Lives(pending'[m].record)
    BY <1>1, <1>2, <1>7 DEF IInv, HistoryInv
  <2>10. \A m \in Active' : Lives(records'[m])
    <3>1. ASSUME NEW m \in Active' PROVE Lives(records'[m])
      <4>1. CASE m = l
        BY <1>3, <2>3, <4>1
      <4>2. CASE m # l
        BY <1>3, <1>7, <3>1, <4>2 DEF IInv, HistoryInv, Active
      <4>3. QED
        BY <4>1, <4>2
    <3>2. QED
      BY <3>1
  <2>11. QED
    BY <2>2, <2>6, <2>7, <2>8, <2>9, <2>10 DEF HistoryInv, Lives
<1>12. QED
  BY <1>3, <1>8, <1>9, <1>10, <1>11 DEF IInv

\* The active map is written anew.
LEMMA MapKeeps ==
  ASSUME IInv, WriteMap
  PROVE  IInv'
<1> DEFINE l == work.lease
<1>1. /\ pc = "map" /\ pc' = "clear" /\ activeMap' = Active
      /\ UNCHANGED <<registry, rows, world, lock, work, belief, finished, issued>>
  BY DEF WriteMap
<1>2. /\ records' = records /\ pending' = pending /\ reclamation' = reclamation
      /\ reclaimedThrough' = reclaimedThrough
      /\ clock' = clock /\ alive' = alive /\ tree' = tree /\ trees' = trees /\ work' = work
      /\ rows' = rows /\ issued' = issued /\ lock' = lock /\ belief' = belief /\ finished' = finished
      /\ Active' = Active /\ Pending' = Pending /\ Released' = Released
  BY <1>1 DEF registry, world, Active, Pending, Released
<1>3. /\ BusyOK /\ lock # NoProc /\ l \in LeaseIds /\ l \in Pending
      /\ LeaseOK(l) /\ IntentOK(l) /\ clock \in Nat /\ issued \in Nat /\ Begun(l)
      /\ records[l] = pending[l].record
  BY <1>1, ApplyingFacts DEF Applying, BusyOK
<1>4. /\ \A m : Begun(m)' = Begun(m) /\ Gone(m)' = Gone(m) /\ Prepared(m)' = Prepared(m)
      /\ \A m : RowsOf(m)' = RowsOf(m)
  BY <1>2 DEF Begun, HasRow, Prepared, Gone, Present, RowsOf
<1>5. FilesInv'
  <2>1. FileTypes'
    BY <1>1, <1>2 DEF IInv, FilesInv, FileTypes, Active
  <2>2. ClaimsOK' /\ RowsOK'
    BY <1>2 DEF IInv, FilesInv, ClaimsOK, ClaimsExclude, Claims, RecordOf, RowsOK, FirstRow, LastRow, RowsOf
  <2>3. \A m \in LeaseIds \ {l} : LeaseOK(m)'
    <3>1. /\ UNCHANGED <<reclamation, tree, trees>> /\ activeMap' = Active' /\ rows' = rows
          /\ issued' = issued /\ issued' \in Nat
          /\ \A m \in LeaseIds \ {l} : records'[m] = records[m] /\ pending'[m] = pending[m]
      BY <1>1, <1>2, <1>3
    <3>2. FilesInv /\ l \in LeaseIds
      BY <1>3 DEF IInv
    <3>3. QED
      BY <3>1, <3>2, OthersKeep, Zenon
  <2>4. LeaseOK(l)'
    <3>1. IntentOK(l)'
      BY <1>2, <1>3, <1>4 DEF IntentOK
    <3>2. QED
      BY <1>2, <1>3, <1>4, <3>1 DEF LeaseOK
  <2>5. QED
    BY <1>2, <2>1, <2>2, <2>3, <2>4 DEF FilesInv
<1>6. WorldTypes'
  BY <1>1, <1>2 DEF IInv, WorldTypes
<1>7. WorkInv'
  <2>1. CallOK(work.call)'
    BY <1>2, <1>3 DEF BusyOK, CallOK
  <2>2. BusyOK'
    BY <1>1, <1>2, <1>3, <1>4, <2>1 DEF BusyOK, Applying, Removing
  <2>3. QED
    BY <1>1, <1>2, <2>2 DEF IInv, WorkInv
<1>8. BeliefInv'
  BY <1>1, <1>2, CallerStays, BeliefsStay DEF IInv, BeliefInv
<1>9. HistoryInv'
  BY <1>1, <1>2, <1>3, BeforeStays, HistoryStays DEF IInv, FilesInv
<1>10. QED
  BY <1>5, <1>6, <1>7, <1>8, <1>9 DEF IInv

\* Begun and recorded: the last row of the lease tells of its record.
LEMMA LastTells ==
  ASSUME FilesInv, NEW l \in LeaseIds, l \in Pending, Begun(l), records[l] = pending[l].record
  PROVE  /\ RowsOf(l) # {}
         /\ \A k \in RowsOf(l) : LastRow(k) => rows[k].status = records[l].status
<1>1. PICK k \in DOMAIN rows : rows[k].recordId = pending[l].recordId
  BY DEF Begun, HasRow
<1>2. rows[k].lease = l /\ rows[k].status = pending[l].record.status /\ LastRow(k)
  BY <1>1 DEF FilesInv, RowsOK
<1>3. ASSUME NEW j \in RowsOf(l), LastRow(j) PROVE j = k
  <2>1. j \in DOMAIN rows /\ rows[j].lease = l /\ k \in RowsOf(l)
    BY <1>1, <1>2 DEF RowsOf
  <2>2. j <= k /\ k <= j
    BY <1>2, <1>3, <2>1 DEF LastRow
  <2>3. j \in Int /\ k \in Int
    BY <1>1, <2>1 DEF FilesInv, FileTypes
  <2>4. QED
    BY <2>2, <2>3
<1>4. QED
  BY <1>1, <1>2, <1>3 DEF RowsOf

\* The intent is cleared.
LEMMA ClearKeeps ==
  ASSUME IInv, ClearPending
  PROVE  IInv'
<1> DEFINE l == work.lease
<1>1. /\ pc = "clear" /\ Applied /\ pending' = [pending EXCEPT ![l] = NoIntent]
      /\ belief' = IF work.from = "publish" /\ pending[l].operation = "acquire"
                   THEN [belief EXCEPT ![lock][l] = "held"]
                   ELSE belief
      /\ UNCHANGED <<records, reclamation, reclaimedThrough, activeMap, rows, world, finished, issued>>
  BY DEF ClearPending
<1>2. clock' = clock /\ alive' = alive /\ tree' = tree /\ trees' = trees
  BY <1>1 DEF world
<1>3. /\ BusyOK /\ lock # NoProc /\ lock \in Procs /\ lock \in alive /\ l \in LeaseIds /\ l \in Pending
      /\ LeaseOK(l) /\ IntentOK(l) /\ issued \in Nat /\ Begun(l) /\ DOMAIN pending = LeaseIds
      /\ records[l] = pending[l].record /\ activeMap = Active
      /\ pending[l] \in Intents
  BY <1>1, ApplyingFacts DEF Applying, BusyOK
<1>4. /\ pending'[l] = NoIntent /\ \A m \in LeaseIds \ {l} : pending'[m] = pending[m]
      /\ Pending' = Pending \ {l} /\ Active' = Active /\ Released' = Released
  BY <1>1, <1>3 DEF Pending, Active, Released
<1>5. FilesInv'
  <2>1. FileTypes'
    BY <1>1, <1>4 DEF IInv, FilesInv, FileTypes
  <2>2. ClaimsOK'
    <3>1. \A m \in Claims' : /\ m \in Claims
                             /\ RecordOf(m)'.branch = RecordOf(m).branch
                             /\ RecordOf(m)'.path = RecordOf(m).path
      <4>1. \A m \in Claims' : m # l => m \in Claims /\ RecordOf(m)' = RecordOf(m)
        BY <1>1, <1>4 DEF Claims, RecordOf, Pending
      <4>2. \A m \in Claims' : m = l => m \in Active /\ RecordOf(m)' = records[m]
        BY <1>1, <1>4 DEF Claims, RecordOf
      <4>3. QED
        BY <1>3, <4>1, <4>2, ClaimOf DEF IInv
    <3>2. QED
      BY <1>4, <3>1, ClaimsStay DEF IInv, FilesInv, Pending
  <2>3. RowsOK'
    <3>1. \A k : (FirstRow(k)' <=> FirstRow(k)) /\ (LastRow(k)' <=> LastRow(k))
      BY <1>1 DEF FirstRow, LastRow, RowsOf
    <3>2. \A m \in Pending' : m \in Pending /\ pending'[m] = pending[m]
      BY <1>4 DEF Pending
    <3>3. QED
      BY <1>1, <3>1, <3>2 DEF IInv, FilesInv, RowsOK
  <2>4. \A m \in LeaseIds \ {l} : LeaseOK(m)'
    <3>1. /\ UNCHANGED <<reclamation, tree, trees>> /\ activeMap' = activeMap /\ rows' = rows
          /\ issued' = issued /\ issued' \in Nat
          /\ \A m \in LeaseIds \ {l} : records'[m] = records[m] /\ pending'[m] = pending[m]
      BY <1>1, <1>2, <1>3, <1>4
    <3>2. FilesInv /\ l \in LeaseIds
      BY <1>3 DEF IInv
    <3>3. QED
      BY <3>1, <3>2, OthersKeep, Zenon
  <2>5. \A m : m = l => LeaseOK(m)'
    <3>1. /\ RowsOf(l) # {}
          /\ \A k \in RowsOf(l) : LastRow(k) => rows[k].status = records[l].status
      BY <1>3, LastTells DEF IInv
    <3>2. records[l] # NoRecord
      BY <1>3, NothingAssumption DEF Intents, Stored
    <3>3. \A m : m = l => Agree(m)'
      BY <1>1, <1>3, <1>4, <3>1, <3>2 DEF Agree, RowsOf, LastRow
    <3>4. QED
      BY <1>1, <1>3, <1>4, <3>1, <3>3 DEF LeaseOK, RowsOf
  <2>6. QED
    BY <2>1, <2>2, <2>3, <2>4, <2>5 DEF FilesInv
<1>6. /\ \A m \in Pending' : m \in Pending /\ pending'[m] = pending[m]
      /\ \A m \in Pending : m # l => m \in Pending'
  BY <1>4 DEF Pending
<1>7. /\ WorkInv'
      /\ (work.from = "replay" /\ lock' = lock /\ work'.call = work.call) \/ (work.from # "replay" /\ Leave)
  BY <1>1, <1>2, <1>6, AppliedKeeps DEF Applying
<1>8. belief \in [Procs -> [LeaseIds -> {"none", "held", "given"}]]
  BY DEF IInv, WorldTypes
<1>9. /\ belief' \in [Procs -> [LeaseIds -> {"none", "held", "given"}]]
      /\ \A p \in Procs, m \in LeaseIds :
           \/ belief'[p][m] = belief[p][m]
           \/ /\ p = lock /\ m = l /\ belief'[p][m] = "held"
              /\ work.from = "publish" /\ pending[l].operation = "acquire"
  <2>1. CASE work.from = "publish" /\ pending[l].operation = "acquire"
    <3> DEFINE g == [belief[lock] EXCEPT ![l] = "held"]
    <3>1. belief' = [belief EXCEPT ![lock] = g]
      BY <1>1, <2>1
    <3>2. g \in [LeaseIds -> {"none", "held", "given"}] /\ g[l] = "held"
          /\ \A m \in LeaseIds \ {l} : g[m] = belief[lock][m]
      BY <1>3, <1>8
    <3> HIDE DEF g
    <3>3. QED
      BY <1>3, <1>8, <2>1, <3>1, <3>2
  <2>2. CASE ~(work.from = "publish" /\ pending[l].operation = "acquire")
    BY <1>1, <1>8, <2>2
  <2>3. QED
    BY <2>1, <2>2
<1>10. WorldTypes'
  BY <1>1, <1>2, <1>9 DEF IInv, WorldTypes
<1>11. CallerOK'
  <2>1. CASE work.from = "replay"
    <3>1. belief' = belief /\ lock' = lock /\ work'.call = work.call
      BY <1>1, <1>7, <2>1
    <3>2. QED
      BY <3>1, CallerStays DEF IInv, BeliefInv
  <2>2. CASE work.from # "replay"
    <3>1. Leave /\ NoProc \notin alive
      BY <1>7, <2>2, NoProcAssumption DEF IInv, WorldTypes
    <3>2. QED
      BY <1>2, <3>1, LeaveKeeps DEF IInv
  <2>3. QED
    BY <2>1, <2>2
<1>12. /\ HistoryInv'
       /\ \A p \in Procs, m \in LeaseIds :
            BeliefOK(p, m) /\ belief'[p][m] = belief[p][m] => BeliefOK(p, m)'
  <2>1. pc' # "idle" => pc # "idle" /\ work'.call = work.call
    BY <1>1, <1>7 DEF Leave
  <2>2. QED
    BY <1>1, <1>2, <1>6, <2>1, IntentsGo
<1>13. ASSUME NEW p \in Procs, NEW m \in LeaseIds PROVE BeliefOK(p, m)'
  <2>1. BeliefOK(p, m)
    BY DEF IInv, BeliefInv
  <2>2. CASE belief'[p][m] = belief[p][m]
    BY <1>12, <2>1, <2>2
  <2>3. CASE p = lock /\ m = l /\ work.from = "publish" /\ pending[l].operation = "acquire"
    <3>1. records[l].holder = lock /\ records[l].status = "active" /\ l <= issued /\ records[l] # NoRecord
      <4>1. pending[l].record.holder = lock
        BY <1>1, <1>3, <2>3 DEF BusyOK, Applying
      <4>2. pending[l].record.status = "active" /\ l <= issued
        BY <1>3, <2>3 DEF IntentOK, LeaseIds, Intents, IntentRecord
      <4>3. pending[l].record # NoRecord
        BY <1>3, NothingAssumption DEF Intents, Stored
      <4>4. QED
        BY <1>3, <4>1, <4>2, <4>3
    <3>2. m \notin Pending' /\ m \in Active' /\ p \in alive'
      BY <1>2, <1>3, <1>4, <2>3, <3>1 DEF Active
    <3>3. QED
      BY <1>1, <2>3, <3>1, <3>2 DEF BeliefOK
  <2>4. QED
    BY <1>9, <2>2, <2>3
<1>14. QED
  BY <1>5, <1>7, <1>10, <1>11, <1>12, <1>13 DEF IInv, BeliefInv

-----------------------------------------------------------------------------
(* publishMutation, stageRemoval *)

\* A new intent for l: of a new lease whose branch and path nobody claims, or
\* about an active one.  Only one that nobody relies on is released, and
\* it is over later than what was reclaimed.
Fits(l, i) ==
  /\ l \notin Pending /\ i.recordId = issued + 1 /\ i.identity <= trees
  /\ \/ /\ i.operation = "acquire" /\ l = issued + 1 /\ i.removal = "none"
        /\ i.record.status = "active"
        /\ \A m \in Claims : /\ RecordOf(m).branch # i.record.branch
                             /\ RecordOf(m).path # i.record.path
     \/ /\ i.operation \in {"renew", "release", "remove"} /\ l \in Active
        /\ Same(i.record, records[l])
        /\ i.record.status = IF i.operation = "renew" THEN "active" ELSE "released"
        /\ i.removal # "none" => i.operation = "remove"
  /\ i.record.updatedAt <= clock /\ Lives(i.record)
  /\ \A f \in finished : Lost(f) => Later(i.record, f)
  /\ i.record.status = "released" => \A p \in Procs : belief[p][l] # "held"

\* The intent is written, and nothing else.
Written(l, i) ==
  /\ pending' = [pending EXCEPT ![l] = i]
  /\ issued' = issued + 1
  /\ UNCHANGED <<records, reclamation, reclaimedThrough, activeMap, rows, world, belief,
                 finished>>

\* What is known of the lease the intent is for.
LEMMA FitsFacts ==
  ASSUME IInv, NEW l \in LeaseIds, NEW i \in Intents, Fits(l, i), Written(l, i)
  PROVE  /\ LeaseOK(l) /\ Agree(l) /\ l <= issued + 1 /\ issued \in Nat /\ issued < MaxMutations
         /\ pending'[l] = i /\ \A m \in LeaseIds \ {l} : pending'[m] = pending[m]
         /\ Pending' = Pending \cup {l} /\ Active' = Active /\ Released' = Released
         /\ \A m \in Pending : pending[m].recordId <= issued /\ pending[m].recordId \in Nat
         /\ clock' = clock /\ alive' = alive /\ tree' = tree /\ trees' = trees
         /\ records[l] = NoRecord <=> i.operation = "acquire"
         /\ i # NoIntent
<1>1. LeaseOK(l) /\ Agree(l) /\ issued \in Nat /\ i.recordId \in LeaseIds /\ i # NoIntent
  BY BoundsAssumption, NothingAssumption
     DEF IInv, FilesInv, FileTypes, LeaseOK, Fits, Intents, IntentRecord
<1>2. issued < MaxMutations
  BY <1>1, BoundsAssumption DEF Fits, LeaseIds
<1>3. i.operation # "acquire" => l \in Active
  BY DEF Fits
<1>4. l \in Active => l <= issued /\ records[l] # NoRecord
  BY <1>1, BoundsAssumption DEF LeaseOK, LeaseIds, Active
<1>5. i.operation = "acquire" => l = issued + 1 /\ records[l] = NoRecord
  BY <1>1, BoundsAssumption DEF LeaseOK, Fits, LeaseIds
<1>6. l <= issued + 1
  BY <1>1, <1>3, <1>4, <1>5, BoundsAssumption DEF LeaseIds
<1>7. /\ pending'[l] = i /\ \A m \in LeaseIds \ {l} : pending'[m] = pending[m]
      /\ Pending' = Pending \cup {l} /\ Active' = Active /\ Released' = Released
  BY <1>1 DEF Written, IInv, FilesInv, FileTypes, Pending, Active, Released
<1>8. \A m \in Pending : pending[m].recordId <= issued /\ pending[m].recordId \in Nat
  BY DEF IInv, FilesInv, FileTypes, LeaseOK, IntentOK, Pending, Intents, IntentRecord, LeaseIds
<1>9. clock' = clock /\ alive' = alive /\ tree' = tree /\ trees' = trees
  BY DEF Written, world
<1>10. QED
  BY <1>1, <1>2, <1>3, <1>4, <1>5, <1>6, <1>7, <1>8, <1>9

\* What a row holds.
LEMMA RowIds ==
  ASSUME FileTypes
  PROVE  \A k \in DOMAIN rows : /\ rows[k] \in Row /\ rows[k].recordId \in Nat
                               /\ rows[k].lease \in LeaseIds /\ rows[k].lease \in Nat /\ k \in Nat
<1>1. rows \in Seq(Row)
  BY DEF FileTypes
<1>2. \A k \in DOMAIN rows : rows[k] \in Row /\ k \in Nat
  BY <1>1
<1>3. QED
  BY <1>2 DEF Row, LeaseIds

\* No row has the id of the new intent, so it has had no effect.
LEMMA NotBegun ==
  ASSUME IInv, NEW l \in LeaseIds, NEW i \in Intents, Fits(l, i), Written(l, i)
  PROVE  /\ ~Begun(l)'
         /\ \A k \in DOMAIN rows : rows[k].recordId # i.recordId
<1>1. \A k \in DOMAIN rows : rows[k].recordId <= issued /\ rows[k].recordId \in Nat
  BY RowIds DEF IInv, FilesInv, RowsOK
<1>2. i.recordId = issued + 1 /\ issued \in Nat /\ pending'[l] = i
  BY FitsFacts DEF Fits
<1>3. \A k \in DOMAIN rows : rows[k].recordId # i.recordId
  BY <1>1, <1>2
<1>4. QED
  BY <1>2, <1>3 DEF Begun, HasRow, Written

\* The claims after the intent was written.
LEMMA WrittenClaims ==
  ASSUME IInv, NEW l \in LeaseIds, NEW i \in Intents, Fits(l, i), Written(l, i)
  PROVE  ClaimsOK'
<1>1. /\ pending'[l] = i /\ \A m \in LeaseIds \ {l} : pending'[m] = pending[m]
      /\ Pending' = Pending \cup {l} /\ Active' = Active /\ records' = records
      /\ \A m \in Pending : pending[m].recordId <= issued /\ pending[m].recordId \in Nat
      /\ issued \in Nat
  BY FitsFacts DEF Written
<1>2. Claims' = Claims \cup {l}
  BY <1>1 DEF Claims
<1>3. \A m \in Claims : m # l => RecordOf(m)' = RecordOf(m)
  BY <1>1 DEF Claims, RecordOf, Pending, Active
<1>4. \A m : m = l => RecordOf(m)' = i.record
  BY <1>1 DEF RecordOf
<1>5. ASSUME NEW m \in Claims, m # l
      PROVE  RecordOf(m).branch # i.record.branch /\ RecordOf(m).path # i.record.path
  <2>1. CASE i.operation = "acquire"
    BY <1>5, <2>1 DEF Fits
  <2>2. CASE i.operation # "acquire"
    <3>1. l \in Active /\ Same(i.record, records[l]) /\ l \notin Pending
      BY <2>2 DEF Fits
    <3>2. l \in Claims /\ RecordOf(l).branch = i.record.branch /\ RecordOf(l).path = i.record.path
      BY <3>1, ClaimOf DEF IInv, Same
    <3>3. ClaimsExclude
      BY DEF IInv, FilesInv, ClaimsOK
    <3>4. QED
      BY <1>5, <3>2, <3>3 DEF ClaimsExclude
  <2>3. QED
    BY <2>1, <2>2
<1>6. ClaimsExclude'
  <2>1. ASSUME NEW a \in Claims', NEW b \in Claims', a # b
        PROVE  RecordOf(a)'.branch # RecordOf(b)'.branch /\ RecordOf(a)'.path # RecordOf(b)'.path
    <3>1. CASE a = l
      BY <1>2, <1>3, <1>4, <1>5, <2>1, <3>1
    <3>2. CASE b = l
      BY <1>2, <1>3, <1>4, <1>5, <2>1, <3>2
    <3>3. CASE a # l /\ b # l
      BY <1>2, <1>3, <2>1, <3>3 DEF IInv, FilesInv, ClaimsOK, ClaimsExclude
    <3>4. QED
      BY <3>1, <3>2, <3>3
  <2>2. QED
    BY <2>1 DEF ClaimsExclude
<1>7. \A a, b \in Pending' : pending'[a].recordId = pending'[b].recordId => a = b
  <2>1. i.recordId = issued + 1
    BY DEF Fits
  <2>2. \A a, b \in Pending : pending[a].recordId = pending[b].recordId => a = b
    BY DEF IInv, FilesInv, ClaimsOK
  <2>3. l \notin Pending /\ \A a \in Pending : a \in LeaseIds \ {l}
    BY DEF Fits, Pending
  <2>4. QED
    BY <1>1, <2>1, <2>2, <2>3
<1>8. QED
  BY <1>6, <1>7 DEF ClaimsOK

\* The files after the intent was written.
LEMMA WrittenFiles ==
  ASSUME IInv, NEW l \in LeaseIds, NEW i \in Intents, Fits(l, i), Written(l, i)
  PROVE  FilesInv'
<1>1. /\ LeaseOK(l) /\ Agree(l) /\ l <= issued + 1 /\ issued \in Nat /\ issued < MaxMutations
      /\ pending'[l] = i /\ \A m \in LeaseIds \ {l} : pending'[m] = pending[m]
      /\ Pending' = Pending \cup {l} /\ Active' = Active /\ Released' = Released
      /\ tree' = tree /\ trees' = trees
      /\ records[l] = NoRecord <=> i.operation = "acquire"
  BY FitsFacts
<1>2. /\ records' = records /\ reclamation' = reclamation /\ reclaimedThrough' = reclaimedThrough
      /\ activeMap' = activeMap /\ rows' = rows /\ issued' = issued + 1
  BY DEF Written
<1>3. ~Begun(l)' /\ \A k \in DOMAIN rows : rows[k].recordId # i.recordId
  BY NotBegun
<1>4. FileTypes'
  BY <1>1, <1>2, BoundsAssumption DEF IInv, FilesInv, FileTypes, Written
<1>5. ClaimsOK'
  BY WrittenClaims
<1>6. RowsOK'
  <2>1. \A k : (FirstRow(k)' <=> FirstRow(k)) /\ (LastRow(k)' <=> LastRow(k))
    BY <1>2 DEF FirstRow, LastRow, RowsOf
  <2>2. ASSUME NEW k \in DOMAIN rows, NEW m \in Pending', rows[k].recordId = pending'[m].recordId
        PROVE  rows[k].lease = m /\ rows[k].status = pending'[m].record.status /\ LastRow(k)
    <3>1. m # l
      BY <1>1, <1>3, <2>2
    <3>2. m \in Pending /\ pending'[m] = pending[m]
      BY <1>1, <2>2, <3>1 DEF Pending
    <3>3. QED
      BY <2>2, <3>2 DEF IInv, FilesInv, RowsOK
  <2>3. \A k \in DOMAIN rows : rows[k].recordId \in Nat
    BY RowIds DEF IInv, FilesInv
  <2>4. QED
    BY <1>1, <1>2, <2>1, <2>2, <2>3 DEF IInv, FilesInv, RowsOK
<1>7. \A m \in LeaseIds \ {l} : LeaseOK(m)'
  <2>1. /\ UNCHANGED <<reclamation, tree, trees>> /\ activeMap' = activeMap /\ rows' = rows
        /\ issued' = issued + 1 /\ issued' \in Nat
        /\ \A m \in LeaseIds \ {l} : records'[m] = records[m] /\ pending'[m] = pending[m]
    BY <1>1, <1>2
  <2>2. FilesInv /\ l \in LeaseIds
    BY DEF IInv
  <2>3. QED
    BY <2>1, <2>2, OthersKeep, Zenon
<1>8. LeaseOK(l)'
  <2>1. RowsOf(l)' = RowsOf(l) /\ \A k : LastRow(k)' <=> LastRow(k)
    BY <1>2 DEF RowsOf, LastRow
  <2>2. Agree(l)'
    BY <1>1, <1>2, <2>1 DEF Agree
  <2>3. IntentOK(l)'
    <3>1. i.recordId = issued + 1 /\ i.identity <= trees
      BY DEF Fits
    <3>2. i.operation \in {"acquire", "renew", "release", "remove"}
      BY DEF Intents, IntentRecord
    <3>3. i.operation = "acquire" => i.recordId = l /\ i.record.status = "active" /\ i.removal = "none"
      BY DEF Fits
    <3>4. i.operation # "acquire" =>
            /\ l \in Active /\ Same(i.record, records[l]) /\ i.recordId # l
            /\ i.record.status = IF i.operation = "renew" THEN "active" ELSE "released"
            /\ i.removal # "none" => i.operation = "remove"
      <4>1. l \in Active => l <= issued
        BY <1>1, BoundsAssumption DEF LeaseOK, LeaseIds, Active
      <4>2. QED
        BY <1>1, <3>1, <4>1, BoundsAssumption DEF Fits, LeaseIds
    <3>5. QED
      BY <1>1, <1>2, <1>3, <3>1, <3>2, <3>3, <3>4 DEF IntentOK
  <2>4. ~(l > issued')
    BY <1>1, <1>2, BoundsAssumption DEF LeaseIds
  <2>5. QED
    BY <1>1, <1>2, <2>1, <2>2, <2>3, <2>4 DEF LeaseOK
<1>9. QED
  BY <1>2, <1>4, <1>5, <1>6, <1>7, <1>8 DEF FilesInv

\* Everything but what the caller does next.
LEMMA WrittenKeeps ==
  ASSUME IInv, NEW l \in LeaseIds, NEW i \in Intents, Fits(l, i), Written(l, i),
         lock' = lock, work'.call = work.call, lock # NoProc, pc' # "idle", BusyOK'
  PROVE  IInv'
<1>1. /\ LeaseOK(l) /\ issued \in Nat
      /\ pending'[l] = i /\ \A m \in LeaseIds \ {l} : pending'[m] = pending[m]
      /\ Pending' = Pending \cup {l} /\ Active' = Active /\ Released' = Released
      /\ clock' = clock /\ alive' = alive /\ tree' = tree /\ trees' = trees
      /\ records[l] = NoRecord <=> i.operation = "acquire"
  BY FitsFacts
<1>2. /\ records' = records /\ reclamation' = reclamation /\ reclaimedThrough' = reclaimedThrough
      /\ issued' = issued + 1 /\ belief' = belief /\ finished' = finished
  BY DEF Written
<1>3. WorldTypes'
  BY <1>1, <1>2 DEF IInv, WorldTypes
<1>4. WorkInv'
  BY <1>1 DEF IInv, WorkInv
<1>5. BeliefInv'
  <2>1. CallerOK'
    BY <1>2, CallerStays DEF IInv, BeliefInv
  <2>2. ASSUME NEW p \in Procs, NEW m \in LeaseIds PROVE BeliefOK(p, m)'
    <3>1. BeliefOK(p, m)
      BY DEF IInv, BeliefInv
    <3>2. m \in Int
      BY DEF LeaseIds
    <3>3. CASE m # l
      BY <1>1, <1>2, <3>1, <3>2, <3>3 DEF BeliefOK
    <3>4. CASE m = l
      <4>1. belief[p][l] # "none" => i.operation # "acquire"
        BY <1>1, <3>1, <3>2, <3>4 DEF BeliefOK, Fits
      <4>2. belief[p][l] = "held" => i.record.status = "active"
        <5>1. i.record.status \in {"active", "released"}
          BY DEF Intents, Stored, Record
        <5>2. QED
          BY <5>1 DEF Fits
      <4>3. QED
        BY <1>1, <1>2, <3>1, <3>2, <3>4, <4>1, <4>2 DEF BeliefOK
    <3>5. QED
      BY <3>3, <3>4
  <2>3. QED
    BY <2>1, <2>2 DEF BeliefInv
<1>6. HistoryInv'
  <2>1. \A m \in Pending' : m # l => m \in Pending /\ pending'[m] = pending[m]
    BY <1>1 DEF Pending
  <2>2. \A m \in Pending' : pending'[m].record.updatedAt <= clock /\ Lives(pending'[m].record)
    BY <1>1, <2>1 DEF Fits, IInv, HistoryInv
  <2>3. \A t : Before(t) => Before(t)'
    BY <1>1 DEF Before, IInv, WorkInv
  <2>4. ASSUME NEW f \in finished, Lost(f) PROVE Lost(f)'
    <3>1. Later(i.record, f)'
      BY <1>2, <2>4 DEF Fits, Later, Over, Key
    <3>2. \A m \in Pending' : Later(pending[m].record, f)'
      BY <1>1, <1>2, <2>1, <2>4, <3>1 DEF Lost, Later, Over, Key
    <3>3. \A m \in (Active \cup Released)' : Later(records[m], f)'
      BY <1>1, <1>2, <2>4 DEF Lost, Later, Over, Key
    <3>4. QED
      BY <2>3, <2>4, <3>2, <3>3 DEF Lost
  <2>5. ReclamationOK'
    BY <1>1, <1>2, <2>3 DEF IInv, HistoryInv, ReclamationOK, Key
  <2>6. QED
    BY <1>1, <1>2, <2>2, <2>4, <2>5 DEF IInv, HistoryInv, Lives
<1>7. QED
  BY <1>3, <1>4, <1>5, <1>6, WrittenFiles DEF IInv

\* An intent that is applied as soon as it is written.
LEMMA PublishKeeps ==
  ASSUME IInv, NEW l \in LeaseIds, NEW i \in Intents, pc = "replay", Publish(l, i), Fits(l, i),
         i.removal = "none", i.operation = "acquire" => i.record.holder = lock
  PROVE  IInv'
<1>1. /\ Written(l, i) /\ pc' = "append" /\ work' = [work EXCEPT !.lease = l, !.from = "publish"]
      /\ lock' = lock /\ lock # NoProc /\ BusyOK
  BY DEF Publish, Apply, Written, IInv, WorkInv
<1>2. /\ DOMAIN work = {"call", "todo", "lease", "from", "seen"} /\ work.todo \subseteq Pending
  BY <1>1 DEF BusyOK
<1>3. /\ work'.call = work.call /\ work'.todo = work.todo /\ work'.lease = l /\ work'.from = "publish"
      /\ DOMAIN work' = {"call", "todo", "lease", "from", "seen"}
  BY <1>1, <1>2
<1>4. pending'[l] = i /\ Pending' = Pending \cup {l} /\ clock' = clock
  BY <1>1, FitsFacts
<1>5. CallOK(work.call)'
  BY <1>1, <1>3, <1>4 DEF BusyOK, CallOK
<1>6. ~Prepared(l)'
  BY <1>4 DEF Prepared
<1>7. BusyOK'
  BY <1>1, <1>2, <1>3, <1>4, <1>5, <1>6 DEF BusyOK, Applying, Removing
<1>8. QED
  BY <1>1, <1>3, <1>7, WrittenKeeps

\* What is known when the operation proper begins.
LEMMA ReadyFacts ==
  ASSUME IInv, NEW op \in {"acquire", "renew", "release", "cleanup", "recover"}, Ready(op)
  PROVE  /\ pc = "replay" /\ BusyOK /\ lock # NoProc /\ lock \in Procs /\ lock \in alive
         /\ CallOK(work.call) /\ work.call.op = op
         /\ issued \in Nat /\ issued < MaxMutations /\ issued + 1 \in LeaseIds
         /\ clock \in Times /\ clock \in Nat /\ clock + Ttl \in 0..(MaxTime + Ttl)
         /\ trees \in 0..MaxTrees /\ trees \in Nat
         /\ op # "acquire" => work.call.lease \in LeaseIds
<1>1. /\ pc = "replay" /\ BusyOK /\ lock # NoProc /\ lock \in alive /\ lock \in Procs
      /\ work.call.op = op
  BY DEF Ready, IInv, WorkInv, WorldTypes
<1>2. CallOK(work.call)
  BY <1>1 DEF BusyOK
<1>3. issued < MaxMutations
  BY <1>1 DEF BusyOK, Applying, Removing
<1>4. issued \in Nat /\ issued + 1 \in LeaseIds
  BY <1>3, BoundsAssumption DEF IInv, FilesInv, FileTypes, LeaseIds
<1>5. /\ clock \in Times /\ clock \in Nat /\ clock + Ttl \in 0..(MaxTime + Ttl)
      /\ trees \in 0..MaxTrees /\ trees \in Nat
  BY BoundsAssumption DEF IInv, WorldTypes, Times
<1>6. op # "acquire" => work.call.lease \in LeaseIds
  BY <1>1, <1>2 DEF CallOK
<1>7. QED
  BY <1>1, <1>2, <1>3, <1>4, <1>5, <1>6

\* The record of a lease that is owned.
LEMMA OwnedFacts ==
  ASSUME IInv, NEW l \in LeaseIds, Owned(l)
  PROVE  /\ l \in Active /\ l \notin Pending /\ records[l] \in Stored /\ records[l] \in Record
         /\ records[l] # NoRecord
         /\ \A p \in Procs : belief[p][l] # "none" => records[l].holder = p /\ p \in alive
BY DEF Owned, IInv, FilesInv, FileTypes, Active, Stored, BeliefInv, BeliefOK

\* releaseIntent, at the time of the call or of an inspection that found the
\* lease expired.
LEMMA ReleaseFits ==
  ASSUME IInv, NEW l \in LeaseIds, Owned(l), issued + 1 \in LeaseIds, clock \in Times,
         NEW now \in Times, now <= clock, now = clock \/ records[l].expiresAt <= now,
         NEW operation \in {"release", "remove"}, NEW removal \in {"none", "prepared"},
         removal # "none" => operation = "remove",
         NEW identity \in 0..MaxTrees, identity <= trees,
         \A p \in Procs : belief[p][l] # "held",
         NEW i, i = [recordId |-> issued + 1, operation |-> operation,
                     record |-> [records[l] EXCEPT !.status = "released", !.updatedAt = now],
                     removal |-> removal, identity |-> identity]
  PROVE  i \in Intents /\ Fits(l, i)
<1> DEFINE r == [records[l] EXCEPT !.status = "released", !.updatedAt = now]
<1>1. records[l] \in Stored /\ records[l] \in Record /\ l \in Active /\ l \notin Pending
  BY OwnedFacts
<1>2. /\ r \in Record /\ r.status = "released" /\ r.updatedAt = now
      /\ r.task = records[l].task /\ r.branch = records[l].branch /\ r.path = records[l].path
      /\ r.holder = records[l].holder
  BY <1>1 DEF Record
<1>3. i = [recordId |-> issued + 1, operation |-> operation, record |-> r,
           removal |-> removal, identity |-> identity]
  OBVIOUS
<1> HIDE DEF r
<1>4. r \in Stored /\ Same(r, records[l])
  BY <1>1, <1>2 DEF Stored, Key, Same
<1>5. i \in Intents
  BY <1>3, <1>4, BoundsAssumption DEF Intents, IntentRecord, Stored
<1>6. clock \in Nat /\ now \in Nat /\ records[l].expiresAt \in Nat
  BY <1>1, BoundsAssumption DEF Times, Record
<1>7. /\ i.recordId = issued + 1 /\ i.operation = operation /\ i.record = r
      /\ i.removal = removal /\ i.identity = identity
  BY <1>3
<1>8. operation # "renew" /\ operation # "acquire"
  OBVIOUS
<1>9. i.operation \in {"renew", "release", "remove"} /\ i.removal # "none" => i.operation = "remove"
  BY <1>7
<1>10. ASSUME NEW f \in finished, Lost(f) PROVE Later(r, f)
  <2>1. f.updatedAt \in Nat /\ f.updatedAt < clock /\ Later(records[l], f)
    BY <1>1, <1>10 DEF Lost, Before, IInv, HistoryInv, Stored, Record, Times
  <2>2. Over(records[l]) = records[l].expiresAt /\ Over(r) = now /\ Key(r) = Key(records[l])
    BY <1>1, <1>2 DEF Over, Active, Key
  <2>3. QED
    BY <1>6, <2>1, <2>2 DEF Later
<1>11. Fits(l, i)
  BY <1>1, <1>2, <1>4, <1>6, <1>7, <1>8, <1>9, <1>10 DEF Fits, Lives
<1>12. QED
  BY <1>5, <1>11

\* A lease is released, by its holder or once its holder is gone.
LEMMA ReleasePublishKeeps ==
  ASSUME IInv, NEW l \in LeaseIds, Owned(l), NEW op \in {"release", "cleanup", "recover"}, Ready(op),
         NEW now \in Times, now <= clock, now = clock \/ records[l].expiresAt <= now,
         Publish(l, ReleaseIntent(l, "release", now)),
         \A p \in Procs : belief[p][l] # "held"
  PROVE  IInv'
<1> DEFINE i == ReleaseIntent(l, "release", now)
<1>1. pc = "replay" /\ issued + 1 \in LeaseIds /\ clock \in Times /\ trees \in Nat /\ 0 \in 0..MaxTrees
  BY ReadyFacts, BoundsAssumption
<1>2. i = [recordId |-> issued + 1, operation |-> "release",
           record |-> [records[l] EXCEPT !.status = "released", !.updatedAt = now],
           removal |-> "none", identity |-> 0]
  BY DEF ReleaseIntent, Intent
<1>3. Publish(l, i)
  OBVIOUS
<1> HIDE DEF i
<1>4. i \in Intents /\ Fits(l, i)
  <2>1. /\ "release" \in {"release", "remove"} /\ "none" \in {"none", "prepared"}
        /\ "none" # "none" => "release" = "remove"
        /\ 0 <= trees
    BY <1>1
  <2>2. QED
    BY <1>1, <1>2, <2>1, ReleaseFits, Zenon
<1>5. i.removal = "none" /\ i.operation = "release"
  BY <1>2
<1>6. QED
  BY <1>1, <1>3, <1>4, <1>5, PublishKeeps

\* releaseLease, recoverStaleLease, and cleanup of what is gone.
LEMMA ReleaseKeeps ==
  ASSUME IInv, Release \/ Recover \/ CleanupAbsent
  PROVE  IInv'
<1> DEFINE l == work.call.lease
<1>0. clock \in Times /\ clock <= clock
  BY BoundsAssumption DEF IInv, WorldTypes, Times
<1>1. PICK op \in {"release", "cleanup", "recover"} :
        \E t \in Times :
        /\ Ready(op) /\ Owned(l) /\ Publish(l, ReleaseIntent(l, "release", t))
        /\ t <= clock /\ (t = clock \/ records[l].expiresAt <= t)
        /\ op = "recover" => Missing(records[l].holder)
        /\ op = "cleanup" => Missing(records[l].holder) \/ records[l].holder = lock
  <2>1. CASE Release
    BY <1>0, <2>1 DEF Release
  <2>2. CASE Recover
    <3>1. Ready("recover") /\ Stale(l) /\ Owned(l)
      BY <2>2 DEF Recover
    <3>2. work.call.now \in Times /\ work.call.now <= clock
      BY <3>1, ReadyFacts DEF CallOK
    <3>3. QED
      BY <2>2, <3>1, <3>2 DEF Recover, Stale
  <2>3. CASE CleanupAbsent
    BY <1>0, <2>3 DEF CleanupAbsent, NothingThere
  <2>4. QED
    BY <2>1, <2>2, <2>3
<1>2. l \in LeaseIds /\ work.call.op = op /\ lock # NoProc /\ lock \in Procs
  BY <1>1, ReadyFacts
<1>3. \A p \in Procs : belief[p][l] # "held"
  <2>1. ASSUME NEW p \in Procs, belief[p][l] = "held" PROVE FALSE
    <3>1. records[l].holder = p /\ p \in alive
      BY <1>1, <1>2, <2>1, OwnedFacts
    <3>2. records[l].holder = lock
      <4>1. CASE op = "release"
        <5>1. belief[lock][l] # "none"
          BY <1>2, <4>1 DEF IInv, BeliefInv, CallerOK
        <5>2. QED
          BY <1>1, <1>2, <5>1, OwnedFacts
      <4>2. CASE op # "release"
        BY <1>1, <3>1, <4>2 DEF Missing
      <4>3. QED
        BY <4>1, <4>2
    <3>3. op # "recover"
      BY <1>1, <3>1 DEF Missing
    <3>4. belief[lock][l] # "held"
      BY <1>2, <3>3 DEF IInv, BeliefInv, CallerOK
    <3>5. QED
      BY <2>1, <3>1, <3>2, <3>4
  <2>2. QED
    BY <2>1
<1> HIDE DEF l
<1>4. QED
  BY <1>1, <1>2, <1>3, ReleasePublishKeeps

\* renewLease
LEMMA RenewKeeps ==
  ASSUME IInv, Renew
  PROVE  IInv'
<1> DEFINE l == work.call.lease
           r == [records[l] EXCEPT !.renewedAt = clock, !.updatedAt = clock,
                                   !.expiresAt = clock + Ttl, !.dirty = work.call.dirty]
           i == Intent(issued + 1, "renew", r)
<1>1. Ready("renew") /\ Owned(l) /\ Publish(l, i)
  BY DEF Renew
<1>2. /\ pc = "replay" /\ l \in LeaseIds /\ issued + 1 \in LeaseIds /\ clock \in Times
      /\ clock + Ttl \in 0..(MaxTime + Ttl) /\ clock \in Nat /\ trees \in Nat
      /\ CallOK(work.call) /\ work.call.op = "renew"
  BY <1>1, ReadyFacts
<1>3. work.call.dirty \in {"clean", "dirty", "unknown"}
  BY <1>2, DirtyAssumption DEF CallOK
<1>4. records[l] \in Stored /\ records[l] \in Record /\ l \in Active /\ l \notin Pending
  BY <1>1, <1>2, OwnedFacts
<1>5. /\ r \in Record /\ r.status = records[l].status /\ r.updatedAt = clock
      /\ r.task = records[l].task /\ r.branch = records[l].branch /\ r.path = records[l].path
      /\ r.holder = records[l].holder
  BY <1>2, <1>3, <1>4 DEF Record
<1> HIDE DEF r
<1>6. r \in Stored /\ Same(r, records[l]) /\ r.status = "active"
  BY <1>4, <1>5 DEF Stored, Key, Same, Active
<1>7. /\ i \in Intents /\ i.recordId = issued + 1 /\ i.operation = "renew" /\ i.record = r
      /\ i.removal = "none" /\ i.identity = 0
  BY <1>2, <1>6, BoundsAssumption DEF Intents, IntentRecord, Stored, Intent
<1> HIDE DEF i
<1>8. r.expiresAt = clock + Ttl /\ Ttl \in Nat
  BY <1>4, BoundsAssumption DEF Record, r
<1>9. ASSUME NEW f \in finished, Lost(f) PROVE Later(r, f)
  <2>1. f.updatedAt < clock /\ f.updatedAt \in Nat
    BY <1>9 DEF Lost, Before, IInv, HistoryInv, Stored, Record, Times
  <2>2. QED
    BY <1>2, <1>6, <1>8, <2>1 DEF Later, Over
<1>10. Fits(l, i)
  BY <1>2, <1>4, <1>5, <1>6, <1>7, <1>8, <1>9 DEF Fits, Lives
<1> HIDE DEF l
<1>11. QED
  BY <1>1, <1>2, <1>7, <1>10, PublishKeeps

\* acquireLease
LEMMA AcquireKeeps ==
  ASSUME IInv, Acquire
  PROVE  IInv'
<1> DEFINE l == issued + 1
           c == work.call
<1>1. PICK path \in Paths :
        Free(c.request, path) /\ Publish(l, Intent(l, "acquire", NewRecord(path)))
  BY DEF Acquire
<1>2. Ready("acquire")
  BY DEF Acquire
<1>3. /\ pc = "replay" /\ lock \in Procs /\ CallOK(c) /\ c.op = "acquire" /\ l \in LeaseIds
      /\ issued \in Nat /\ clock \in Nat /\ trees \in 0..MaxTrees
  BY <1>2, ReadyFacts
<1>4. /\ c.request \in Requests /\ c.dirty \in {"clean", "dirty", "unknown"}
      /\ c.now \in Times /\ c.now <= clock
  BY <1>3, DirtyAssumption DEF CallOK
<1> DEFINE r == NewRecord(path)
<1>5. /\ r.task = c.request.task /\ r.branch = c.request.branch /\ r.path = path
      /\ r.holder = lock /\ r.status = "active" /\ r.updatedAt = c.now
      /\ r.expiresAt = c.now + Ttl
  BY DEF NewRecord
<1>6. r \in Stored
  <2>1. (IF Present(path) THEN tree[path].id ELSE 0) \in 0..MaxTrees
    BY <1>3, BoundsAssumption DEF IInv, WorldTypes
  <2>2. c.now + Ttl \in 0..(MaxTime + Ttl)
    BY <1>4, BoundsAssumption DEF Times
  <2>3. c.request.task \in {q.task : q \in Requests} /\ c.request.branch \in Branches
        /\ c.request.mode \in {"write", "sequential_continue"}
    BY <1>4, RequestAssumption
  <2>4. r \in Record
    BY <1>3, <1>4, <2>1, <2>2, <2>3 DEF NewRecord, Record
  <2>5. Key(r) = Key(c.request) /\ Key(c.request) \in Keys
    BY <1>4, <1>5 DEF Key, Keys
  <2>6. QED
    BY <2>4, <2>5 DEF Stored
<1> HIDE DEF r
<1> DEFINE i == Intent(l, "acquire", r)
<1>7. /\ i.recordId = l /\ i.operation = "acquire" /\ i.record = r
      /\ i.removal = "none" /\ i.identity = 0
      /\ i = [recordId |-> l, operation |-> "acquire", record |-> r, removal |-> "none", identity |-> 0]
  BY DEF Intent
<1>8. Publish(l, i)
  BY <1>1 DEF r
<1> HIDE DEF i
<1>9. i \in Intents
  BY <1>3, <1>6, <1>7, BoundsAssumption DEF Intents, IntentRecord, Stored
<1>10. \A m \in Claims : RecordOf(m).branch # r.branch /\ RecordOf(m).path # r.path
  BY <1>1, <1>5 DEF Claims, RecordOf, Free, Collides, Quarantined
<1>11. l \notin Pending
  <2>1. LeaseOK(l) /\ l > issued
    BY <1>3 DEF IInv, FilesInv
  <2>2. QED
    BY <2>1 DEF LeaseOK
<1>12. c.now \in Nat /\ Ttl \in Nat
  BY <1>4, BoundsAssumption DEF Times
<1>13. ASSUME NEW f \in finished, Lost(f) PROVE Later(r, f)
  <2>1. f.updatedAt < c.now + Ttl
    BY <1>3, <1>13 DEF Lost, Before
  <2>2. QED
    BY <1>5, <2>1 DEF Later, Over
<1>14. Fits(l, i)
  BY <1>3, <1>4, <1>5, <1>7, <1>10, <1>11, <1>12, <1>13 DEF Fits, Lives
<1> HIDE DEF l
<1>15. QED
  BY <1>3, <1>5, <1>7, <1>8, <1>9, <1>14, PublishKeeps

\* stageRemoval
LEMMA StageKeeps ==
  ASSUME IInv, StageRemoval
  PROVE  IInv'
<1> DEFINE l == work.call.lease
           id == tree[records[l].path].id
<1>1. /\ Ready("cleanup") /\ Owned(l) /\ Removable(l)
      /\ pending' = [pending EXCEPT ![l] = [ReleaseIntent(l, "remove", clock) EXCEPT !.removal = "prepared",
                                                                          !.identity = id]]
      /\ issued' = issued + 1 /\ pc' = "recheck"
      /\ UNCHANGED <<records, reclamation, reclaimedThrough, activeMap, rows, world, lock, work, belief,
                     finished>>
  BY DEF StageRemoval
<1>2. /\ pc = "replay" /\ BusyOK /\ lock # NoProc /\ l \in LeaseIds /\ issued + 1 \in LeaseIds
      /\ clock \in Times /\ trees \in 0..MaxTrees /\ work.call.op = "cleanup"
  BY <1>1, ReadyFacts
<1>3. records[l] \in Record /\ l \in Active /\ l \notin Pending
  BY <1>1, <1>2, OwnedFacts
<1>4. id \in 0..MaxTrees /\ id <= trees
  BY <1>2, <1>3, BoundsAssumption DEF IInv, WorldTypes, Record
<1>5. \A p \in Procs : belief[p][l] # "held"
  BY <1>1, <1>2, OwnedFacts DEF Removable, Missing
<1> DEFINE r == [records[l] EXCEPT !.status = "released", !.updatedAt = clock]
           i == [recordId |-> issued + 1, operation |-> "remove", record |-> r,
                 removal |-> "prepared", identity |-> id]
<1>6. pending' = [pending EXCEPT ![l] = i]
  <2>1. ReleaseIntent(l, "remove", clock) = [recordId |-> issued + 1, operation |-> "remove", record |-> r,
                                      removal |-> "none", identity |-> 0]
    BY DEF ReleaseIntent, Intent
  <2> HIDE DEF r, id
  <2>2. PICK a : a = ReleaseIntent(l, "remove", clock)
    OBVIOUS
  <2>3. [a EXCEPT !.removal = "prepared", !.identity = id] = i
    <3>1. PICK b : b = [a EXCEPT !.removal = "prepared", !.identity = id]
      OBVIOUS
    <3>2. a = [recordId |-> issued + 1, operation |-> "remove", record |-> r, removal |-> "none",
               identity |-> 0]
      BY <2>1, <2>2, Zenon
    <3>3. DOMAIN a = {"recordId", "operation", "record", "removal", "identity"}
      BY <3>2
    <3>4. b = [f \in DOMAIN a |-> IF f = "identity" THEN id
                                  ELSE IF f = "removal" THEN "prepared" ELSE a[f]]
      BY <3>1, Zenon
    <3>5. b = i
      BY <3>2, <3>3, <3>4
    <3>6. QED
      BY <3>1, <3>5
  <2> HIDE DEF i
  <2>4. pending' = [pending EXCEPT ![l] = [ReleaseIntent(l, "remove", clock) EXCEPT !.removal = "prepared",
                                                                            !.identity = id]]
    BY <1>1 DEF id
  <2>5. QED
    BY <2>2, <2>3, <2>4, Zenon
<1>7. i.removal = "prepared" /\ i.operation = "remove"
  OBVIOUS
<1>8. i = [recordId |-> issued + 1, operation |-> "remove",
           record |-> [records[l] EXCEPT !.status = "released", !.updatedAt = clock],
           removal |-> "prepared", identity |-> id]
  OBVIOUS
<1> HIDE DEF i, id, r
<1>9. i \in Intents /\ Fits(l, i)
  <2>1. /\ clock <= clock /\ clock = clock
        /\ "remove" \in {"release", "remove"} /\ "prepared" \in {"none", "prepared"}
        /\ "prepared" # "none" => "remove" = "remove"
    BY <1>2, BoundsAssumption DEF Times
  <2>2. QED
    BY <1>1, <1>2, <1>4, <1>5, <1>8, <2>1, ReleaseFits, Zenon
<1>10. Written(l, i)
  BY <1>1, <1>6 DEF Written
<1>11. pending'[l] = i /\ Pending' = Pending \cup {l} /\ Active' = Active /\ clock' = clock
  BY <1>2, <1>9, <1>10, FitsFacts
<1>12. work' = work /\ lock' = lock
  BY <1>1
<1>13. BusyOK'
  <2>1. CallOK(work.call)'
    BY <1>2, <1>11, <1>12 DEF BusyOK, CallOK
  <2>2. l \in Active' \cap Pending' /\ pending'[l].removal = "prepared" /\ pending'[l].operation = "remove"
    BY <1>3, <1>7, <1>11
  <2>3. /\ DOMAIN work = {"call", "todo", "lease", "from", "seen"} /\ work.todo \subseteq Pending'
        /\ work.from \in {"none", "replay", "publish"} /\ work.from # "publish"
    BY <1>2, <1>11 DEF BusyOK, Applying
  <2>4. QED
    BY <1>1, <1>2, <1>12, <2>1, <2>2, <2>3 DEF BusyOK, Applying, Removing, Prepared
<1>14. work'.call = work.call /\ pc' # "idle"
  BY <1>1, <1>12
<1> HIDE DEF l
<1>15. QED
  BY <1>2, <1>9, <1>10, <1>12, <1>13, <1>14, WrittenKeeps

\* markRemovalDone: the intent goes on, its worktree gone by git's own account
\* or not, as one that is no longer prepared.
LEMMA RemovalDoneKeeps ==
  ASSUME IInv, MarkRemovalDone
  PROVE  IInv'
<1> DEFINE l == work.call.lease
           g == [pending[l] EXCEPT !.removal = "removal_done"]
<1>1. /\ pc = "removed" /\ pc' = "append" /\ lock' = lock
      /\ pending' = [pending EXCEPT ![l].removal = "removal_done"]
      /\ work' = [work EXCEPT !.lease = l, !.from = "publish"]
      /\ UNCHANGED <<records, reclamation, reclaimedThrough, activeMap, rows, world, belief, finished,
                     issued>>
  BY DEF MarkRemovalDone, Apply
<1>2. /\ clock' = clock /\ alive' = alive /\ tree' = tree /\ trees' = trees
  BY <1>1 DEF world
<1>3. /\ BusyOK /\ lock # NoProc /\ l \in LeaseIds /\ l \in Active /\ l \in Pending /\ Prepared(l)
      /\ pending[l].operation = "remove" /\ DOMAIN work = {"call", "todo", "lease", "from", "seen"}
      /\ work.todo \subseteq Pending
  <2>1. BusyOK /\ lock # NoProc
    BY <1>1 DEF IInv, WorkInv
  <2>2. QED
    BY <1>1, <2>1 DEF BusyOK, Removing, Active
<1>4. pending[l] \in Intents /\ DOMAIN pending = LeaseIds /\ issued \in Nat /\ LeaseOK(l) /\ IntentOK(l)
  BY <1>3 DEF IInv, FilesInv, FileTypes, Pending, LeaseOK
<1>5. /\ g.recordId = pending[l].recordId /\ g.record = pending[l].record /\ g.removal = "removal_done"
      /\ g.identity = pending[l].identity /\ g.operation = "remove" /\ g \in Intents
  <2>1. PICK i \in Intents : i = pending[l]
    BY <1>4
  <2>2. [i EXCEPT !.removal = "removal_done"] \in IntentRecord
    BY <2>1 DEF Intents, IntentRecord
  <2>3. g = [i EXCEPT !.removal = "removal_done"] /\ i \in IntentRecord
    BY <2>1 DEF Intents
  <2>4. QED
    BY <1>3, <2>1, <2>2, <2>3 DEF Intents, IntentRecord
<1>6. pending' = [pending EXCEPT ![l] = g]
  BY <1>1, Zenon
<1> HIDE DEF g
<1>7. /\ pending'[l] = g /\ \A m \in LeaseIds \ {l} : pending'[m] = pending[m]
      /\ g # NoIntent
      /\ Pending' = Pending /\ Active' = Active /\ Released' = Released
      /\ \A m \in Pending : /\ pending'[m].recordId = pending[m].recordId
                            /\ pending'[m].record = pending[m].record
      /\ records' = records
  BY <1>1, <1>3, <1>4, <1>5, <1>6, NothingAssumption DEF Pending, Active, Released, Intents
<1>8. FilesInv'
  <2>1. FileTypes'
    BY <1>1, <1>4, <1>5, <1>6 DEF IInv, FilesInv, FileTypes
  <2>2. ClaimsOK'
    <3>1. \A m \in Claims' : /\ m \in Claims /\ RecordOf(m)'.branch = RecordOf(m).branch
                             /\ RecordOf(m)'.path = RecordOf(m).path
      BY <1>7 DEF Claims, RecordOf
    <3>2. QED
      BY <1>7, <3>1, ClaimsStay DEF IInv, FilesInv
  <2>3. RowsOK'
    <3>1. \A k : (FirstRow(k)' <=> FirstRow(k)) /\ (LastRow(k)' <=> LastRow(k))
      BY <1>1 DEF FirstRow, LastRow, RowsOf
    <3>2. QED
      BY <1>1, <1>7, <3>1 DEF IInv, FilesInv, RowsOK
  <2>4. \A m \in LeaseIds \ {l} : LeaseOK(m)'
    <3>1. /\ UNCHANGED <<reclamation, tree, trees>> /\ activeMap' = activeMap /\ rows' = rows
          /\ issued' = issued /\ issued' \in Nat
          /\ \A m \in LeaseIds \ {l} : records'[m] = records[m] /\ pending'[m] = pending[m]
      BY <1>1, <1>2, <1>4, <1>7
    <3>2. FilesInv /\ l \in LeaseIds
      BY <1>3 DEF IInv
    <3>3. QED
      BY <3>1, <3>2, OthersKeep, Zenon
  <2>5. \A m : m = l => LeaseOK(m)'
    <3>1. \A m : m = l => (Begun(m)' <=> Begun(m))
      BY <1>1, <1>5, <1>7 DEF Begun, HasRow
    <3>2. \A m : m = l => IntentOK(m)'
      BY <1>1, <1>2, <1>3, <1>4, <1>5, <1>7, <3>1 DEF IntentOK, Prepared
    <3>3. \A m : m = l => (Agree(m)' <=> Agree(m))
      BY <1>1, <1>7 DEF Agree, RowsOf, LastRow
    <3>4. QED
      BY <1>1, <1>3, <1>4, <1>7, <3>1, <3>2, <3>3 DEF LeaseOK, RowsOf
  <2>6. QED
    BY <2>1, <2>2, <2>3, <2>4, <2>5 DEF FilesInv
<1>9. WorldTypes'
  BY <1>1, <1>2 DEF IInv, WorldTypes
<1>10. WorkInv'
  <2>1. work'.call = work.call /\ work'.todo = work.todo /\ work'.lease = l /\ work'.from = "publish"
        /\ DOMAIN work' = {"call", "todo", "lease", "from", "seen"}
    BY <1>1, <1>3
  <2>2. CallOK(work.call)'
    BY <1>2, <1>3, <2>1 DEF BusyOK, CallOK
  <2>3. \A m : m = l => ~Prepared(m)' /\ pending'[m].operation # "acquire"
    BY <1>5, <1>7 DEF Prepared
  <2>4. BusyOK'
    BY <1>1, <1>3, <1>7, <2>1, <2>2, <2>3 DEF BusyOK, Applying, Removing
  <2>5. QED
    BY <1>1, <1>2, <1>3, <2>4 DEF IInv, WorkInv
<1>11. BeliefInv'
  <2>1. work'.call = work.call
    BY <1>1, <1>3
  <2>2. CallerOK'
    BY <1>1, <2>1, CallerStays DEF IInv, BeliefInv
  <2>3. \A p \in Procs, m \in LeaseIds : BeliefOK(p, m)'
    BY <1>1, <1>2, <1>7 DEF IInv, BeliefInv, BeliefOK
  <2>4. QED
    BY <2>2, <2>3 DEF BeliefInv
<1>12. HistoryInv'
  <2>1. \A t : Before(t) => Before(t)'
    BY <1>1, <1>2, <1>3 DEF Before
  <2>2. \A f \in finished : Lost(f) => Lost(f)'
    BY <1>1, <1>7, <2>1 DEF Lost, Later, Over, Key
  <2>3. QED
    BY <1>1, <1>2, <1>7, <2>1, <2>2 DEF IInv, HistoryInv, Lives, ReclamationOK, Key
<1>13. QED
  BY <1>8, <1>9, <1>10, <1>11, <1>12 DEF IInv

-----------------------------------------------------------------------------
(* finishReclamation *)

\* A finite set of integers has a greatest member, and Max finds it.
LEMMA MaxIsGreatest ==
  ASSUME NEW S \in SUBSET Int, IsFiniteSet(S), S # {}
  PROVE  Max(S) \in S /\ \A y \in S : y <= Max(S)
<1> DEFINE n == Cardinality(S)
           x == Nth(S, n)
<1>1. n \in Nat /\ \A y \in S : Rank(S, y) + 1 \in 1..n /\ Nth(S, Rank(S, y) + 1) = y
  BY FS_CardinalityType, NthCounts
<1>2. n \in 1..n
  <2>1. PICK y \in S : TRUE
    OBVIOUS
  <2>2. Rank(S, y) + 1 \in 1..n
    BY <1>1
  <2>3. QED
    BY <1>1, <2>2
<1>3. x \in S
  BY <1>2, NthCounts
<1>4. ASSUME NEW y \in S PROVE x >= y
  <2>1. Rank(S, y) + 1 \in 1..n /\ Nth(S, Rank(S, y) + 1) = y
    BY <1>1
  <2>2. CASE Rank(S, y) + 1 = n
    BY <1>3, <2>1, <2>2
  <2>3. CASE Rank(S, y) + 1 # n
    <3>1. Rank(S, y) + 1 < n
      BY <1>1, <2>1, <2>3
    <3>2. \A a, b \in 1..n : a < b => Nth(S, a) < Nth(S, b)
      BY NthCounts
    <3>3. y < x
      BY <1>2, <2>1, <3>1, <3>2
    <3>4. x \in Int /\ y \in Int
      BY <1>3
    <3> HIDE DEF x
    <3>5. QED
      BY <3>3, <3>4
  <2>4. QED
    BY <2>2, <2>3
<1>5. \E z \in S : \A y \in S : z >= y
  BY <1>3, <1>4
<1>6. Max(S) \in S /\ \A y \in S : Max(S) >= y
  BY <1>5, Zenon DEF Max
<1>7. QED
  BY <1>6

\* The raised watermark of a key covers the old one and what is reclaimed.
LEMMA RaisedFacts ==
  ASSUME IInv, NEW k \in Keys
  PROVE  /\ Raised(k) \in Times \cup {None}
         /\ reclaimedThrough[k] <= Raised(k)
         /\ \A l \in Reclaimed : Key(records[l]) = k => records[l].updatedAt <= Raised(k)
<1>1. \A t \in Times \cup {None} : t \in Int
  BY DEF Times, None
<1>2. reclaimedThrough[k] \in Times \cup {None}
  BY DEF IInv, FilesInv, FileTypes
<1>3. CASE \E l \in Reclaimed : Key(records[l]) = k
  <2> DEFINE S == {reclaimedThrough[k], reclamation.watermarks[k]}
  <2>1. reclamation # NoReclamation
    BY <1>3 DEF Reclaimed
  <2>2. reclamation.watermarks[k] \in Times \cup {None}
    BY <2>1 DEF IInv, FilesInv, FileTypes, Reclamation
  <2>3. S \in SUBSET Int /\ S # {} /\ IsFiniteSet(S)
    <3>1. S = {reclaimedThrough[k]} \cup {reclamation.watermarks[k]}
      OBVIOUS
    <3>2. IsFiniteSet({reclaimedThrough[k]}) /\ IsFiniteSet({reclamation.watermarks[k]})
      BY FS_Singleton, Zenon
    <3>3. IsFiniteSet({reclaimedThrough[k]} \cup {reclamation.watermarks[k]})
      BY <3>2, FS_Union, Zenon
    <3>4. IsFiniteSet(S)
      BY <3>1, <3>3, Zenon
    <3>5. QED
      BY <1>1, <1>2, <2>2, <3>4
  <2>4. Raised(k) = Max(S)
    BY <1>3 DEF Raised
  <2> HIDE DEF S
  <2>5. Max(S) \in S /\ \A y \in S : y <= Max(S)
    BY <2>3, MaxIsGreatest
  <2>6. /\ Raised(k) \in Times \cup {None}
        /\ reclaimedThrough[k] <= Raised(k) /\ reclamation.watermarks[k] <= Raised(k)
    BY <1>2, <2>2, <2>4, <2>5 DEF S
  <2>7. ASSUME NEW l \in Reclaimed, Key(records[l]) = k PROVE records[l].updatedAt <= Raised(k)
    <3>1. l \in Released /\ records[l].updatedAt <= reclamation.watermarks[k]
      BY <2>1, <2>7 DEF Reclaimed, IInv, HistoryInv, ReclamationOK
    <3>2. records[l].updatedAt \in Int
      BY <1>1, <3>1 DEF IInv, FilesInv, FileTypes, Released, Stored, Record
    <3>3. QED
      BY <1>1, <2>2, <2>6, <3>1, <3>2
  <2>8. QED
    BY <2>6, <2>7
<1>4. CASE ~ \E l \in Reclaimed : Key(records[l]) = k
  BY <1>1, <1>2, <1>4 DEF Raised
<1>5. QED
  BY <1>3, <1>4

\* What a reclamation does to the leases.
LEMMA ReclaimFacts ==
  ASSUME IInv, FinishReclamation
  PROVE  /\ \A l \in LeaseIds : records'[l] = IF l \in Reclaimed THEN NoRecord ELSE records[l]
         /\ Active' = Active /\ Released' = Released \ Reclaimed /\ Pending' = Pending
         /\ Reclaimed \subseteq Released /\ Reclaimed \cap (Active \cup Pending) = {}
         /\ \A l \in Reclaimed : RowsOf(l) = {} /\ l \in reclamation.leaseIds
         /\ Reclaimed # {} => reclamation # NoReclamation
         /\ pending' = pending /\ activeMap' = activeMap /\ rows' = rows /\ issued' = issued
         /\ clock' = clock /\ alive' = alive /\ tree' = tree /\ trees' = trees
         /\ reclamation' = NoReclamation
<1>1. /\ \A l \in LeaseIds : records'[l] = IF l \in Reclaimed THEN NoRecord ELSE records[l]
      /\ pending' = pending /\ activeMap' = activeMap /\ rows' = rows /\ issued' = issued
      /\ clock' = clock /\ alive' = alive /\ tree' = tree /\ trees' = trees
      /\ reclamation' = NoReclamation
  BY DEF FinishReclamation, world
<1>2. /\ Reclaimed \subseteq Released /\ Reclaimed \cap (Active \cup Pending) = {}
      /\ \A l \in Reclaimed : RowsOf(l) = {} /\ l \in reclamation.leaseIds
      /\ Reclaimed # {} => reclamation # NoReclamation
  BY DEF Reclaimed, Released, Active
<1>3. Active' = Active /\ Released' = Released \ Reclaimed /\ Pending' = Pending
  <2>1. \A l : l \in Active' <=> l \in Active
    BY <1>1, <1>2 DEF Active
  <2>2. \A l : l \in Released' <=> l \in Released /\ l \notin Reclaimed
    BY <1>1, <1>2 DEF Released
  <2>3. QED
    BY <1>1, <2>1, <2>2 DEF Pending
<1>4. QED
  BY <1>1, <1>2, <1>3

\* The files: what is deleted has no row and no intent, and what stays has a row.
LEMMA ReclaimFiles ==
  ASSUME IInv, FinishReclamation
  PROVE  FilesInv'
<1>1. /\ \A l \in LeaseIds : records'[l] = IF l \in Reclaimed THEN NoRecord ELSE records[l]
      /\ Active' = Active /\ Released' = Released \ Reclaimed /\ Pending' = Pending
      /\ Reclaimed \subseteq Released /\ Reclaimed \cap (Active \cup Pending) = {}
      /\ \A l \in Reclaimed : RowsOf(l) = {} /\ l \in reclamation.leaseIds
      /\ pending' = pending /\ activeMap' = activeMap /\ rows' = rows /\ issued' = issued
      /\ tree' = tree /\ trees' = trees /\ reclamation' = NoReclamation
  BY ReclaimFacts
<1>2. FileTypes'
  <2>1. records' \in [LeaseIds -> Stored \cup {NoRecord}]
    BY DEF FinishReclamation, IInv, FilesInv, FileTypes
  <2>2. reclaimedThrough' \in [Keys -> Times \cup {None}]
    <3>1. \A k \in Keys : Raised(k) \in Times \cup {None}
      BY RaisedFacts
    <3>2. reclaimedThrough \in [Keys -> Times \cup {None}]
      BY DEF IInv, FilesInv, FileTypes
    <3>3. CASE reclamation = NoReclamation
      BY <3>2, <3>3 DEF FinishReclamation
    <3>4. CASE reclamation # NoReclamation
      <4>1. reclaimedThrough' = [k \in Keys |-> IF StillNeeded(k) THEN Raised(k) ELSE None]
        BY <3>4 DEF FinishReclamation
      <4>2. QED
        BY <3>1, <4>1
    <3>5. QED
      BY <3>3, <3>4
  <2>3. QED
    BY <1>1, <2>1, <2>2 DEF IInv, FilesInv, FileTypes
<1>3. ClaimsOK'
  <2>1. \A m \in Claims' : m \in Claims /\ m \in LeaseIds /\ RecordOf(m)' = RecordOf(m)
    BY <1>1 DEF Claims, RecordOf, Active, Pending
  <2>2. QED
    BY <1>1, <2>1, ClaimsStay DEF IInv, FilesInv
<1>4. RowsOK'
  <2>1. \A k : (FirstRow(k)' <=> FirstRow(k)) /\ (LastRow(k)' <=> LastRow(k))
    BY <1>1 DEF FirstRow, LastRow, RowsOf
  <2>2. QED
    BY <1>1, <2>1 DEF IInv, FilesInv, RowsOK
<1>5. ASSUME NEW m \in LeaseIds PROVE LeaseOK(m)'
  <2>1. LeaseOK(m) /\ RowsOf(m)' = RowsOf(m) /\ (Begun(m)' <=> Begun(m)) /\ \A k : LastRow(k)' <=> LastRow(k)
    BY <1>1 DEF IInv, FilesInv, RowsOf, Begun, HasRow, LastRow
  <2>2. CASE m \in Reclaimed
    <3>1. m \notin Pending /\ m \notin Active /\ RowsOf(m) = {} /\ records'[m] = NoRecord
      BY <1>1, <2>2
    <3>2. Agree(m)'
      BY <1>1, <2>1, <3>1 DEF LeaseOK, Agree
    <3>3. QED
      BY <1>1, <2>1, <2>2, <3>1, <3>2 DEF LeaseOK
  <2>3. CASE m \notin Reclaimed
    <3>1. records'[m] = records[m] /\ (m \in Released' <=> m \in Released)
      BY <1>1, <2>3
    <3>2. m \in Pending => IntentOK(m)'
      BY <1>1, <2>1, <3>1 DEF LeaseOK, IntentOK, Prepared, Gone, Present
    <3>3. Agree(m) => Agree(m)'
      BY <1>1, <2>1, <3>1 DEF Agree
    <3>4. m \in Released => RowsOf(m) # {}
      <4>1. ASSUME m \in Released, m \in Pending PROVE RowsOf(m) # {}
        <5>1. Begun(m)
          BY <2>1, <4>1, NothingAssumption DEF LeaseOK, IntentOK, Active, Released
        <5>2. PICK k \in DOMAIN rows : rows[k].recordId = pending[m].recordId
          BY <5>1 DEF Begun, HasRow
        <5>3. rows[k].lease = m
          BY <4>1, <5>2 DEF IInv, FilesInv, RowsOK
        <5>4. QED
          BY <5>3 DEF RowsOf
      <4>2. QED
        BY <2>1, <2>3, <4>1 DEF LeaseOK, Reclaimed
    <3>5. QED
      BY <1>1, <2>1, <3>1, <3>2, <3>3, <3>4 DEF LeaseOK
  <2>4. QED
    BY <2>2, <2>3
<1>6. QED
  BY <1>2, <1>3, <1>4, <1>5 DEF FilesInv

\* What was reclaimed is told of by the watermark, as long as it matters.
LEMMA ReclaimHistory ==
  ASSUME IInv, FinishReclamation, finished' = finished, pc # "idle", pc' # "idle", work'.call = work.call
  PROVE  HistoryInv'
<1>1. /\ \A l \in LeaseIds : records'[l] = IF l \in Reclaimed THEN NoRecord ELSE records[l]
      /\ Active' = Active /\ Released' = Released \ Reclaimed /\ Pending' = Pending
      /\ Reclaimed \subseteq Released /\ Reclaimed \cap (Active \cup Pending) = {}
      /\ \A l \in Reclaimed : RowsOf(l) = {} /\ l \in reclamation.leaseIds
      /\ Reclaimed # {} => reclamation # NoReclamation
      /\ pending' = pending /\ clock' = clock /\ reclamation' = NoReclamation
  BY ReclaimFacts
<1>2. /\ \A l \in Pending : l \in LeaseIds /\ pending[l].record \in Stored
      /\ \A l \in Active \cup Released : l \in LeaseIds /\ records[l] \in Stored
  BY DEF IInv, FilesInv, FileTypes, Pending, Active, Released, Intents
<1>3. \A l \in (Active \cup Released)' : l \in (Active \cup Released) \ Reclaimed /\ records'[l] = records[l]
  BY <1>1, <1>2
<1>4. \A r \in Stored : r.updatedAt \in Int /\ r.expiresAt \in Int /\ Key(r) \in Keys
  BY BoundsAssumption DEF Stored, Record, Times
<1>5. \A t \in Times \cup {None} : t \in Int
  BY DEF Times, None
<1>6. \A k \in Keys : /\ Raised(k) \in Int /\ reclaimedThrough[k] \in Int
                      /\ reclaimedThrough[k] <= Raised(k)
  BY <1>5, RaisedFacts DEF IInv, FilesInv, FileTypes
\* Either the new record is later, or the raised watermark is needed and kept.
<1>7. ASSUME NEW f \in Stored, NEW r \in Stored, f.updatedAt <= Raised(Key(f)),
             reclamation # NoReclamation,
             \/ \E l \in (Active \cup Released) \ Reclaimed : records[l] = r
             \/ \E l \in Pending : pending[l].record = r
      PROVE  Later(r, f)'
  <2>1. /\ f.updatedAt \in Int /\ r.updatedAt \in Int /\ r.expiresAt \in Int
        /\ Key(f) \in Keys /\ Raised(Key(f)) \in Int
    BY <1>4, <1>6
  <2>2. SUFFICES ASSUME Key(r) = Key(f), ~(Over(r) > f.updatedAt)
                 PROVE  f.updatedAt <= reclaimedThrough'[Key(f)]
    BY DEF Later, Key, Over
  <2>3. r.updatedAt <= Raised(Key(f))
    <3>1. Lives(r) /\ r.status \in {"active", "released"}
      BY <1>7 DEF IInv, HistoryInv, Lives, Active, Released, Stored, Record
    <3>2. r.updatedAt <= Over(r)
      BY <2>1, <3>1 DEF Lives, Over
    <3>3. QED
      BY <1>7, <2>1, <2>2, <3>2 DEF Over
  <2>4. StillNeeded(Key(f))
    BY <1>7, <2>2, <2>3 DEF StillNeeded
  <2>5. reclaimedThrough'[Key(f)] = Raised(Key(f))
    BY <1>7, <2>1, <2>4 DEF FinishReclamation
  <2>6. QED
    BY <1>7, <2>5
<1>8. ASSUME NEW f \in finished, Lost(f) PROVE Lost(f)'
  <2>1. f \in Stored /\ Before(f.updatedAt)'
    BY <1>1, <1>8 DEF Lost, IInv, HistoryInv, Before
  <2>2. ASSUME NEW r \in Stored, Later(r, f),
               \/ \E l \in (Active \cup Released) \ Reclaimed : records[l] = r
               \/ \E l \in Pending : pending[l].record = r
        PROVE  Later(r, f)'
    <3>1. CASE reclamation = NoReclamation
      <4>1. reclaimedThrough' = reclaimedThrough
        BY <3>1 DEF FinishReclamation
      <4>2. QED
        BY <2>2, <4>1 DEF Later, Key, Over
    <3>2. CASE reclamation # NoReclamation
      <4>1. CASE f.updatedAt <= Raised(Key(f))
        BY <1>7, <2>1, <2>2, <3>2, <4>1
      <4>2. CASE ~(f.updatedAt <= Raised(Key(f)))
        <5>1. ~(f.updatedAt <= reclaimedThrough[Key(f)])
          BY <1>4, <1>6, <2>1, <4>2
        <5>2. QED
          BY <2>2, <5>1 DEF Later, Key, Over
      <4>3. QED
        BY <4>1, <4>2
    <3>3. QED
      BY <3>1, <3>2
  <2>3. \A l \in (Active \cup Released)' : Later(records[l], f)'
    BY <1>1, <1>2, <1>3, <1>8, <2>2 DEF Lost
  <2>4. \A l \in Pending' : Later(pending[l].record, f)'
    BY <1>1, <1>2, <1>8, <2>2 DEF Lost
  <2>5. QED
    BY <1>1, <2>1, <2>3, <2>4 DEF Lost
<1>9. ASSUME NEW l \in Reclaimed PROVE \A f : f = records[l] => Lost(f)'
  <2>1. l \in Released /\ l \in reclamation.leaseIds /\ reclamation # NoReclamation
    BY <1>1
  <2>2. /\ records[l] \in Stored /\ Before(records[l].updatedAt)
        /\ records[l].updatedAt <= Raised(Key(records[l]))
    BY <1>2, <1>4, <2>1, RaisedFacts DEF IInv, HistoryInv, ReclamationOK
  <2>3. ASSUME NEW f, f = records[l] PROVE Lost(f)'
    <3>1. f \in Stored /\ Before(f.updatedAt)' /\ f.updatedAt <= Raised(Key(f))
      BY <1>1, <2>2, <2>3 DEF Before
    <3>2. \A m \in (Active \cup Released)' : Later(records[m], f)'
      BY <1>1, <1>2, <1>3, <1>7, <2>1, <3>1
    <3>3. \A m \in Pending' : Later(pending[m].record, f)'
      BY <1>1, <1>2, <1>7, <2>1, <3>1
    <3>4. QED
      BY <3>1, <3>2, <3>3 DEF Lost
  <2>4. QED
    BY <2>3
<1>10. \A f \in finished' : (\E l \in Released' : records'[l] = f) \/ Lost(f)'
  <2>1. ASSUME NEW f \in finished PROVE (\E l \in Released' : records'[l] = f) \/ Lost(f)'
    <3>1. CASE Lost(f)
      BY <1>8, <3>1
    <3>2. ASSUME NEW l \in Released, records[l] = f
          PROVE  (\E m \in Released' : records'[m] = f) \/ Lost(f)'
      BY <1>1, <1>2, <1>9, <3>2
    <3>3. QED
      BY <3>1, <3>2 DEF IInv, HistoryInv
  <2>2. QED
    BY <2>1
<1>11. QED
  BY <1>1, <1>3, <1>10 DEF IInv, HistoryInv, ReclamationOK, Lives

\* finishReclamation, before and after the compaction.
LEMMA ReclaimKeeps ==
  ASSUME IInv, Reclaim
  PROVE  IInv'
<1>1. /\ pc \in {"reclaim", "reclaim_after"} /\ FinishReclamation
      /\ pc' = IF pc = "reclaim" /\ work.call.op = "retain" THEN "select" ELSE "replay"
      /\ work' = [work EXCEPT !.todo = Pending]
      /\ lock' = lock /\ belief' = belief /\ finished' = finished /\ issued' = issued
  BY DEF Reclaim, FinishReclamation
<1>2. /\ \A l \in LeaseIds : records'[l] = IF l \in Reclaimed THEN NoRecord ELSE records[l]
      /\ Active' = Active /\ Released' = Released \ Reclaimed /\ Pending' = Pending
      /\ Reclaimed \cap (Active \cup Pending) = {}
      /\ pending' = pending /\ clock' = clock /\ alive' = alive /\ tree' = tree /\ trees' = trees
      /\ reclamation' = NoReclamation
  BY <1>1, ReclaimFacts
<1>3. lock # NoProc /\ BusyOK /\ DOMAIN work = {"call", "todo", "lease", "from", "seen"}
  BY <1>1 DEF IInv, WorkInv, BusyOK
<1>4. /\ work'.call = work.call /\ work'.todo = Pending /\ work'.from = work.from
      /\ DOMAIN work' = {"call", "todo", "lease", "from", "seen"}
  BY <1>1, <1>3
<1>5. WorkInv'
  <2>1. CallOK(work.call)'
    BY <1>2, <1>3, <1>4 DEF BusyOK, CallOK
  <2>2. BusyOK'
    BY <1>1, <1>2, <1>3, <1>4, <2>1 DEF BusyOK, Applying, Removing
  <2>3. QED
    BY <1>1, <1>2, <1>3, <2>2 DEF IInv, WorkInv
<1>6. WorldTypes'
  BY <1>1, <1>2 DEF IInv, WorldTypes
<1>7. BeliefInv'
  <2>1. CallerOK'
    BY <1>1, <1>4, CallerStays DEF IInv, BeliefInv
  <2>2. ASSUME NEW p \in Procs, NEW m \in LeaseIds PROVE BeliefOK(p, m)'
    <3>1. BeliefOK(p, m)
      BY DEF IInv, BeliefInv
    <3>2. QED
      BY <1>1, <1>2, <3>1 DEF BeliefOK
  <2>3. QED
    BY <2>1, <2>2 DEF BeliefInv
<1>8. HistoryInv'
  <2>1. pc # "idle" /\ pc' # "idle"
    BY <1>1
  <2>2. QED
    BY <1>1, <1>4, <2>1, ReclaimHistory
<1>9. QED
  BY <1>1, <1>5, <1>6, <1>7, <1>8, ReclaimFiles DEF IInv

-----------------------------------------------------------------------------
(* retainHistory *)

\* A lease with rows has a last one.
LEMMA LastRowExists ==
  ASSUME FileTypes, NEW l, RowsOf(l) # {}
  PROVE  \E k \in RowsOf(l) : LastRow(k)
<1>1. DOMAIN rows = 1..Len(rows) /\ Len(rows) \in Nat
  BY DEF FileTypes
<1>2. IsFiniteSet(1..Len(rows))
  BY <1>1, FS_Interval
<1>3. RowsOf(l) \in SUBSET (1..Len(rows))
  BY <1>1 DEF RowsOf
<1>4. RowsOf(l) \in SUBSET Int /\ IsFiniteSet(RowsOf(l))
  BY <1>1, <1>2, <1>3, FS_Subset
<1>5. PICK k \in RowsOf(l) : \A j \in RowsOf(l) : j <= k
  BY <1>4, MaxIsGreatest
<1>6. rows[k].lease = l
  BY <1>5 DEF RowsOf
<1>7. QED
  BY <1>5, <1>6 DEF LastRow

\* The watermark of a key is the latest of the times it is to tell of.
LEMMA WatermarkFacts ==
  ASSUME NEW T \in SUBSET Times
  PROVE  /\ Max({None} \cup T) \in Times \cup {None}
         /\ \A t \in T : t <= Max({None} \cup T)
<1> DEFINE S == {None} \cup T
<1>1. S \in SUBSET (-1..MaxTime)
  BY BoundsAssumption DEF Times, None
<1>2. IsFiniteSet(-1..MaxTime) /\ \A x \in -1..MaxTime : x \in Int
  BY BoundsAssumption, FS_Interval
<1>3. S \in SUBSET Int /\ IsFiniteSet(S) /\ S # {}
  BY <1>1, <1>2, FS_Subset
<1>4. Max(S) \in S /\ \A y \in S : y <= Max(S)
  <2> HIDE DEF S
  <2>1. QED
    BY <1>3, MaxIsGreatest
<1>5. QED
  BY <1>4

\* The reclamation intent names released leases older than the cutoff only:
\* the last row of any other is pinned.
LEMMA SelectKeeps ==
  ASSUME IInv, NEW named \in SUBSET Released, SelectReclamation(named)
  PROVE  IInv'
<1> DEFINE kept == Selected(work.call.cutoff, named)
           ids == {l \in Released \ Pending : RowsOf(l) # {} /\ RowsOf(l) \cap kept = {}}
           times(k) == {records[l].updatedAt : l \in {m \in ids : Key(records[m]) = k}}
<1>1. /\ pc = "select" /\ pc' = "compact"
      /\ reclamation' = [recordIds  |-> {rows[k].recordId : k \in DOMAIN rows \ kept},
                         leaseIds   |-> ids,
                         watermarks |-> [k \in Keys |-> Max({None} \cup times(k))]]
      /\ UNCHANGED <<records, pending, reclaimedThrough, activeMap, rows, world, lock, work,
                     belief, finished, issued>>
  BY DEF SelectReclamation
<1>2. clock' = clock /\ alive' = alive /\ tree' = tree /\ trees' = trees /\ work' = work
  BY <1>1 DEF world
<1>3. /\ lock # NoProc /\ BusyOK /\ reclamation = NoReclamation /\ work.call.op = "retain"
      /\ work.call.cutoff \in Nat /\ work.call.cutoff <= clock
  <2>1. lock # NoProc /\ BusyOK
    BY <1>1 DEF IInv, WorkInv
  <2>2. QED
    BY <1>1, <2>1 DEF BusyOK, CallOK
<1>4. FileTypes /\ clock \in Nat /\ ids \subseteq LeaseIds /\ ids \subseteq Released
  BY BoundsAssumption DEF IInv, FilesInv, WorldTypes, Times, Released
<1>5. \A l \in Released : records[l] \in Stored /\ records[l].updatedAt \in Times /\ Key(records[l]) \in Keys
  BY <1>4 DEF FileTypes, Released, Stored, Record
<1>6. \A k \in Keys : /\ Max({None} \cup times(k)) \in Times \cup {None}
                      /\ \A t \in times(k) : t <= Max({None} \cup times(k))
  <2>1. ASSUME NEW k \in Keys PROVE times(k) \in SUBSET Times
    BY <1>4, <1>5
  <2> HIDE DEF times
  <2>2. QED
    BY <2>1, WatermarkFacts
<1> HIDE DEF times
<1>7. /\ reclamation'.recordIds = {rows[k].recordId : k \in DOMAIN rows \ kept}
      /\ reclamation'.leaseIds = ids
      /\ \A k \in Keys : reclamation'.watermarks[k] = Max({None} \cup times(k))
  BY <1>1
<1>8. reclamation' \in Reclamation /\ reclamation' # NoReclamation
  <2>1. \A k \in DOMAIN rows : rows[k].recordId \in LeaseIds
    BY <1>4, RowIds DEF Row
  <2>2. {rows[k].recordId : k \in DOMAIN rows \ kept} \subseteq LeaseIds
    BY <2>1
  <2> HIDE DEF kept, ids
  <2>3. reclamation' \in Reclamation
    BY <1>1, <1>4, <1>6, <2>2 DEF Reclamation
  <2>4. QED
    BY <2>3, NothingAssumption
<1>9. FilesInv'
  <2>1. FileTypes' /\ ClaimsOK' /\ RowsOK'
    BY <1>1, <1>8 DEF IInv, FilesInv, FileTypes, ClaimsOK, RowsOK, ClaimsExclude, Claims, Active, Pending,
                      RecordOf, FirstRow, LastRow, RowsOf
  <2>2. ASSUME NEW l \in LeaseIds PROVE LeaseOK(l)'
    <3>1. LeaseOK(l)
      BY DEF IInv, FilesInv
    <3>2. IntentOK(l)' <=> IntentOK(l)
      BY <1>1, <1>2 DEF IntentOK, Begun, HasRow, Prepared, Gone, Present, Active
    <3>3. Agree(l)' <=> Agree(l)
      BY <1>1 DEF Agree, RowsOf, LastRow, Active
    <3>4. QED
      BY <1>1, <1>3, <3>1, <3>2, <3>3 DEF LeaseOK, Begun, HasRow, Active, Released, Pending, RowsOf
  <2>3. QED
    BY <2>1, <2>2 DEF FilesInv
<1>10. WorldTypes'
  BY <1>1, <1>2 DEF IInv, WorldTypes
<1>11. BeliefInv'
  BY <1>1, <1>2, BeliefsStay, CallerStays DEF IInv, BeliefInv
<1>12. WorkInv'
  <2>1. Selection(kept)'
    <3>1. \A k \in DOMAIN rows : Pinned(k, work.call.cutoff)' <=> Pinned(k, work.call.cutoff)
      BY <1>1, <1>2 DEF Pinned, FirstRow, LastRow, RowsOf, Active, Released, Pending
    <3>2. \A k : LastRow(k)' <=> LastRow(k)
      BY <1>1 DEF LastRow, RowsOf
    <3>3. \A l : RowsOf(l)' = RowsOf(l) /\ RowsOf(l) \subseteq DOMAIN rows
      BY <1>1 DEF RowsOf
    <3>4. rows' = rows /\ work' = work
      BY <1>1, <1>2
    <3>5. kept' = kept
      BY <3>1, <3>2, <3>3, <3>4 DEF Selected
    <3>6. Released' = Released /\ Pending' = Pending
      BY <1>1 DEF Released, Pending
    <3> HIDE DEF kept
    <3>7. QED
      BY <1>7, <3>3, <3>4, <3>5, <3>6 DEF Selection
  <2>2. SelectedOK'
    BY <1>1, <2>1 DEF SelectedOK, Released
  <2>3. BusyOK'
    BY <1>1, <1>2, <1>3, <1>8, <2>2 DEF BusyOK, CallOK, Applying, Removing, Pending
  <2>4. QED
    BY <1>1, <1>2, <1>3, <2>3 DEF IInv, WorkInv
<1>13. ASSUME NEW l \in ids
       PROVE  /\ l \in Released /\ records[l].updatedAt < clock
              /\ records[l].updatedAt <= reclamation'.watermarks[Key(records[l])]
  <2>1. l \in Released /\ RowsOf(l) # {} /\ RowsOf(l) \cap kept = {}
    OBVIOUS
  <2>2. PICK k \in RowsOf(l) : LastRow(k)
    BY <1>4, <2>1, LastRowExists
  <2>3. k \in DOMAIN rows /\ rows[k].lease = l /\ k \notin kept
    BY <2>1, <2>2 DEF RowsOf
  <2>4. ~Pinned(k, work.call.cutoff)
    BY <2>2, <2>3 DEF Selected
  <2>5. ~(records[l].updatedAt >= work.call.cutoff)
    BY <2>1, <2>2, <2>3, <2>4 DEF Pinned
  <2>6. records[l].updatedAt \in Nat
    BY <1>5, <2>1 DEF Times
  <2>7. records[l].updatedAt < clock
    BY <1>3, <1>4, <2>5, <2>6
  <2>8. records[l].updatedAt \in times(Key(records[l])) /\ Key(records[l]) \in Keys
    BY <1>5, <2>1 DEF times
  <2>9. QED
    BY <1>6, <1>7, <2>1, <2>7, <2>8
<1>14. ReclamationOK'
  BY <1>1, <1>2, <1>3, <1>7, <1>13 DEF ReclamationOK, Released, Key, Before
<1>15. HistoryInv'
  <2>1. \A t : Before(t) => Before(t)'
    BY <1>1, <1>2 DEF Before
  <2>2. \A f \in finished : Lost(f) => Lost(f)'
    BY <1>1, <2>1 DEF Lost, Later, Over, Key, Active, Released, Pending
  <2>3. QED
    BY <1>1, <1>2, <1>14, <2>2 DEF IInv, HistoryInv, Lives, Active, Released, Pending
<1>16. QED
  BY <1>9, <1>10, <1>11, <1>12, <1>15 DEF IInv

\* The rows after a compaction that keeps, with a row, the last of its lease:
\* each is where it was among the others.
LEMMA CompactedRows ==
  ASSUME FileTypes, NEW S \in SUBSET (DOMAIN rows), rows' = Subsequence(rows, S),
         \A k \in S : \A j \in RowsOf(rows[k].lease) : LastRow(j) => j \in S
  PROVE  /\ rows' \in Seq(Row) /\ Len(rows') <= MaxRows
         /\ \A k \in DOMAIN rows' :
              /\ Nth(S, k) \in S /\ Nth(S, k) \in DOMAIN rows /\ rows'[k] = rows[Nth(S, k)]
              /\ FirstRow(Nth(S, k)) => FirstRow(k)'
              /\ LastRow(k)' <=> LastRow(Nth(S, k))
         /\ \A j, k \in DOMAIN rows' : Nth(S, j) = Nth(S, k) => j = k
         /\ \A i \in S : \E k \in DOMAIN rows' : Nth(S, k) = i
<1>1. rows \in Seq(Row) /\ Len(rows) <= MaxRows /\ Len(rows) \in Nat /\ DOMAIN rows = 1..Len(rows)
  BY DEF FileTypes
<1>2. /\ rows' \in Seq(Row) /\ Len(rows') = Cardinality(S)
      /\ IsFiniteSet(S) /\ S \in SUBSET Int
  BY <1>1, SubsequenceType
<1>3. /\ Cardinality(S) \in Nat
      /\ \A k \in DOMAIN rows' : Nth(S, k) \in S /\ rows'[k] = rows[Nth(S, k)]
      /\ \A j, k \in DOMAIN rows' : j < k => Nth(S, j) < Nth(S, k)
      /\ \A i \in S : \E k \in DOMAIN rows' : Nth(S, k) = i
  BY <1>2, SubsequenceProperties
<1>4. Cardinality(S) <= Len(rows)
  <2>1. \A n \in Nat : IsFiniteSet(1..n) /\ Cardinality(1..n) = n
    BY FS_Interval
  <2>2. S \in SUBSET (1..Len(rows))
    BY <1>1
  <2>3. Cardinality(S) <= Cardinality(1..Len(rows))
    BY <1>1, <2>1, <2>2, FS_Subset
  <2>4. QED
    BY <1>1, <2>1, <2>3
<1>5. Len(rows') <= MaxRows
  BY <1>1, <1>2, <1>3, <1>4, BoundsAssumption
<1>6. \A j, k \in DOMAIN rows' : /\ j \in Int /\ k \in Int /\ Nth(S, j) \in Int /\ Nth(S, k) \in Int
                                 /\ Nth(S, j) = Nth(S, k) => j = k
                                 /\ j <= k <=> Nth(S, j) <= Nth(S, k)
  <2>1. \A j \in DOMAIN rows' : j \in Int /\ Nth(S, j) \in Int
    BY <1>2, <1>3
  <2>2. QED
    BY <1>3, <2>1
<1>7. \A l : RowsOf(l)' = {k \in DOMAIN rows' : Nth(S, k) \in RowsOf(l)}
  BY <1>3 DEF RowsOf
<1>8. ASSUME NEW k \in DOMAIN rows' PROVE LastRow(k)' <=> LastRow(Nth(S, k))
  <2> DEFINE e == Nth(S, k)
  <2>1. e \in S /\ e \in DOMAIN rows /\ rows'[k] = rows[e] /\ e \in RowsOf(rows[e].lease)
    BY <1>3 DEF RowsOf
  <2>2. ASSUME LastRow(e) PROVE LastRow(k)'
    BY <1>6, <1>7, <2>1, <2>2 DEF LastRow
  <2>3. ASSUME LastRow(k)' PROVE LastRow(e)
    <3>1. PICK j \in RowsOf(rows[e].lease) : LastRow(j)
      BY <2>1, LastRowExists
    <3>2. j \in S /\ rows[j].lease = rows[e].lease
      BY <2>1, <3>1 DEF RowsOf
    <3>3. PICK m \in DOMAIN rows' : Nth(S, m) = j
      BY <1>3, <3>2
    <3>4. m <= k
      BY <1>7, <2>1, <2>3, <3>1, <3>3 DEF LastRow
    <3>5. j <= e
      BY <1>6, <3>3, <3>4
    <3>6. e <= j
      BY <2>1, <3>1, <3>2 DEF LastRow
    <3>7. e = j
      BY <1>6, <3>3, <3>5, <3>6
    <3>8. QED
      BY <3>1, <3>7
  <2>4. QED
    BY <2>2, <2>3
<1>9. ASSUME NEW k \in DOMAIN rows', FirstRow(Nth(S, k)) PROVE FirstRow(k)'
  BY <1>3, <1>6, <1>7, <1>9 DEF FirstRow
<1>10. QED
  BY <1>2, <1>3, <1>5, <1>6, <1>8, <1>9

\* What a compaction keeps, of a selection that was made before.
Kept(S) ==
  /\ S \in SUBSET (DOMAIN rows)
  /\ \A k \in DOMAIN rows : Pinned(k, work.call.cutoff) => k \in S
  /\ \A k \in S : \A j \in RowsOf(rows[k].lease) : LastRow(j) => j \in S
  /\ \A l \in Released \ Pending : RowsOf(l) # {} /\ RowsOf(l) \cap S = {} => l \in reclamation.leaseIds

\* compactRecords keeps what it pins, the last rows of what it keeps, and
\* every released lease that was not named.
LEMMA CompactKept ==
  ASSUME IInv, pc = "compact", NEW named \in SUBSET Released, NEW S,
         S = {k \in DOMAIN rows : \/ k \in Selected(work.call.cutoff, named)
                                  \/ rows[k].recordId \notin reclamation.recordIds}
  PROVE  Kept(S)
<1> DEFINE A == Selected(work.call.cutoff, named)
<1>1. BusyOK /\ SelectedOK
  BY DEF IInv, WorkInv, BusyOK
<1>2. PICK other \in SUBSET Released : Selection(Selected(work.call.cutoff, other))
  BY <1>1 DEF SelectedOK
<1> DEFINE B == Selected(work.call.cutoff, other)
<1>3. \A k \in DOMAIN rows : rows[k].recordId \notin reclamation.recordIds <=> k \in B
  <2>1. \A j, k \in DOMAIN rows : rows[j].recordId = rows[k].recordId => j = k
    BY DEF IInv, FilesInv, RowsOK
  <2>2. reclamation.recordIds = {rows[k].recordId : k \in DOMAIN rows \ B}
    BY <1>2 DEF Selection
  <2> HIDE DEF B
  <2>3. QED
    BY <2>1, <2>2
<1>4. A \subseteq DOMAIN rows /\ B \subseteq DOMAIN rows
  BY DEF Selected
<1>5. \A k \in DOMAIN rows : Pinned(k, work.call.cutoff) => k \in A
  <2>1. ASSUME NEW k \in DOMAIN rows, Pinned(k, work.call.cutoff) PROVE k \in A
    BY <2>1 DEF Selected
  <2>2. QED
    BY <2>1
<1>6. ASSUME NEW ids \in SUBSET Released, NEW k \in Selected(work.call.cutoff, ids),
             NEW j \in RowsOf(rows[k].lease), LastRow(j)
      PROVE  j \in Selected(work.call.cutoff, ids)
  <2>1. k \in DOMAIN rows /\ j \in DOMAIN rows /\ rows[j].lease = rows[k].lease /\ k \in RowsOf(rows[k].lease)
    BY DEF Selected, RowsOf
  <2>2. CASE Pinned(k, work.call.cutoff)
    BY <1>6, <2>1, <2>2 DEF Selected
  <2>3. CASE LastRow(k)
    <3>1. j <= k /\ k <= j /\ j \in Nat /\ k \in Nat
      BY <1>6, <2>1, <2>3, RowIds DEF LastRow, IInv, FilesInv
    <3>2. QED
      BY <3>1
  <2>4. QED
    BY <2>2, <2>3 DEF Selected
<1>7. reclamation.leaseIds = {l \in Released \ Pending : RowsOf(l) # {} /\ RowsOf(l) \cap B = {}}
  BY <1>2 DEF Selection
<1> HIDE DEF A, B
<1>8. S = A \cup B
  BY <1>3, <1>4 DEF A
<1>9. \A k \in S : \A j \in RowsOf(rows[k].lease) : LastRow(j) => j \in S
  BY <1>6, <1>8 DEF A, B
<1>10. QED
  BY <1>4, <1>5, <1>7, <1>8, <1>9 DEF Kept

\* The files after a compaction: the rows that the registry's leases and
\* intents depend on are pinned.
LEMMA CompactFiles ==
  ASSUME IInv, pc = "compact", NEW S, Kept(S), rows' = Subsequence(rows, S),
         UNCHANGED <<registry, activeMap, world, issued>>
  PROVE  FilesInv'
<1>1. /\ records' = records /\ pending' = pending /\ reclamation' = reclamation
      /\ reclaimedThrough' = reclaimedThrough /\ activeMap' = activeMap /\ issued' = issued
      /\ tree' = tree /\ trees' = trees
      /\ Active' = Active /\ Released' = Released /\ Pending' = Pending
  BY DEF registry, world, Active, Released, Pending
<1> DEFINE e(k) == Nth(S, k)
<1>2. /\ rows' \in Seq(Row) /\ Len(rows') <= MaxRows
      /\ \A k \in DOMAIN rows' : /\ e(k) \in S /\ e(k) \in DOMAIN rows /\ rows'[k] = rows[e(k)]
                                 /\ FirstRow(e(k)) => FirstRow(k)'
                                 /\ LastRow(k)' <=> LastRow(e(k))
      /\ \A j, k \in DOMAIN rows' : e(j) = e(k) => j = k
      /\ \A i \in S : \E k \in DOMAIN rows' : e(k) = i
  BY CompactedRows DEF Kept, IInv, FilesInv
<1> HIDE DEF e
<1>3. FileTypes'
  BY <1>1, <1>2 DEF IInv, FilesInv, FileTypes
<1>4. ClaimsOK'
  BY <1>1 DEF IInv, FilesInv, ClaimsOK, ClaimsExclude, Claims, RecordOf
<1>5. RowsOK'
  <2>1. RowsOK
    BY DEF IInv, FilesInv
  <2>2. \A j, k \in DOMAIN rows' : rows'[j].recordId = rows'[k].recordId => j = k
    BY <1>2, <2>1 DEF RowsOK
  <2>3. ASSUME NEW k \in DOMAIN rows'
        PROVE  /\ rows'[k].lease <= rows'[k].recordId /\ rows'[k].recordId <= issued'
               /\ rows'[k].recordId = rows'[k].lease => FirstRow(k)'
               /\ \A l \in Pending' : rows'[k].recordId = pending'[l].recordId =>
                    rows'[k].lease = l /\ rows'[k].status = pending'[l].record.status /\ LastRow(k)'
    BY <1>1, <1>2, <2>1 DEF RowsOK
  <2>4. QED
    BY <2>2, <2>3 DEF RowsOK
<1>6. \A l : \A k \in RowsOf(l)' : e(k) \in RowsOf(l)
  BY <1>2 DEF RowsOf
<1>7. \A l : \A i \in RowsOf(l) \cap S : \E k \in RowsOf(l)' : e(k) = i
  BY <1>2 DEF RowsOf
<1>8. ASSUME NEW l \in LeaseIds PROVE LeaseOK(l)'
  <2>1. LeaseOK(l)
    BY DEF IInv, FilesInv
  <2>2. l \in Pending => (Begun(l)' <=> Begun(l))
    <3>1. Begun(l)' => Begun(l)
      BY <1>1, <1>2 DEF Begun, HasRow
    <3>2. ASSUME l \in Pending, Begun(l) PROVE Begun(l)'
      <4>1. PICK i \in DOMAIN rows : rows[i].recordId = pending[l].recordId
        BY <3>2 DEF Begun, HasRow
      <4>2. rows[i].lease = l
        BY <3>2, <4>1 DEF IInv, FilesInv, RowsOK
      <4>3. i \in S
        BY <3>2, <4>1, <4>2 DEF Kept, Pinned
      <4>4. QED
        BY <1>1, <1>2, <4>1, <4>3 DEF Begun, HasRow
    <3>3. QED
      BY <3>1, <3>2
  <2>3. l \in Pending => IntentOK(l)'
    <3>1. Gone(l)' <=> Gone(l)
      BY <1>1 DEF Gone, Present
    <3>2. QED
      BY <1>1, <2>1, <2>2, <3>1 DEF LeaseOK, IntentOK, Prepared
  <2>4. Agree(l) => Agree(l)'
    BY <1>1, <1>2, <1>6 DEF Agree, RowsOf
  <2>5. l \in Active => \E k \in RowsOf(l)' : rows'[k].recordId = l
    <3>1. ASSUME l \in Active PROVE \E k \in RowsOf(l)' : rows'[k].recordId = l
      <4>1. PICK i \in RowsOf(l) : rows[i].recordId = l
        BY <2>1, <3>1 DEF LeaseOK
      <4>2. i \in DOMAIN rows /\ rows[i].lease = l /\ FirstRow(i)
        BY <4>1 DEF RowsOf, IInv, FilesInv, RowsOK
      <4>3. i \in S
        BY <3>1, <4>2 DEF Kept, Pinned
      <4>4. QED
        BY <1>2, <1>7, <4>1, <4>3 DEF RowsOf
    <3>2. QED
      BY <3>1
  <2>6. l \in Released =>
          RowsOf(l)' # {} \/ (reclamation # NoReclamation /\ l \in reclamation.leaseIds)
    <3>1. ASSUME l \in Released, RowsOf(l)' = {}
          PROVE  reclamation # NoReclamation /\ l \in reclamation.leaseIds
      <4>1. RowsOf(l) \cap S = {}
        BY <1>7, <3>1
      <4>2. CASE RowsOf(l) = {}
        BY <2>1, <3>1, <4>2 DEF LeaseOK
      <4>3. CASE RowsOf(l) # {}
        <5>1. PICK i \in RowsOf(l) : LastRow(i)
          BY <4>3, LastRowExists DEF IInv, FilesInv
        <5>2. l \notin Pending
          <6>1. i \in DOMAIN rows /\ rows[i].lease = l /\ i \notin S
            BY <4>1, <5>1 DEF RowsOf
          <6>2. QED
            BY <5>1, <6>1 DEF Kept, Pinned
        <5>3. l \in reclamation.leaseIds
          BY <3>1, <4>1, <4>3, <5>2 DEF Kept
        <5>4. reclamation # NoReclamation
          BY DEF IInv, WorkInv, BusyOK
        <5>5. QED
          BY <5>3, <5>4
      <4>4. QED
        BY <4>2, <4>3
    <3>2. QED
      BY <3>1
  <2>7. QED
    BY <1>1, <2>1, <2>2, <2>3, <2>4, <2>5, <2>6 DEF LeaseOK
<1>9. QED
  BY <1>3, <1>4, <1>5, <1>8 DEF FilesInv

\* The compaction of the ledger.
LEMMA CompactKeeps ==
  ASSUME IInv, NEW named \in SUBSET Released, Compact(named)
  PROVE  IInv'
<1> DEFINE S == {k \in DOMAIN rows : \/ k \in Selected(work.call.cutoff, named)
                                     \/ rows[k].recordId \notin reclamation.recordIds}
<1>1. /\ pc = "compact" /\ rows' = Subsequence(rows, S) /\ pc' = "reclaim_after"
      /\ UNCHANGED <<registry, activeMap, world, lock, work, belief, finished, issued>>
  BY DEF Compact
<1>2. Kept(S)
  BY <1>1, CompactKept
<1> HIDE DEF S
<1>3. FilesInv'
  BY <1>1, <1>2, CompactFiles
<1>4. /\ records' = records /\ pending' = pending /\ reclamation' = reclamation
      /\ reclaimedThrough' = reclaimedThrough /\ clock' = clock /\ alive' = alive
      /\ tree' = tree /\ trees' = trees /\ work' = work
  BY <1>1 DEF registry, world
<1>5. WorldTypes'
  BY <1>1, <1>4 DEF IInv, WorldTypes
<1>6. WorkInv'
  <2>1. lock # NoProc /\ BusyOK
    BY <1>1 DEF IInv, WorkInv
  <2>2. BusyOK'
    BY <1>1, <1>4, <2>1 DEF BusyOK, CallOK, Applying, Removing, Pending
  <2>3. QED
    BY <1>1, <1>4, <2>1, <2>2 DEF IInv, WorkInv
<1>7. BeliefInv'
  BY <1>1, <1>4, BeliefsStay, CallerStays DEF IInv, BeliefInv
<1>8. HistoryInv'
  <2>1. \A t : Before(t) => Before(t)'
    BY <1>1, <1>4 DEF Before
  <2>2. Active' = Active /\ Released' = Released /\ Pending' = Pending
    BY <1>4 DEF Active, Released, Pending
  <2>3. \A f \in finished : Lost(f) => Lost(f)'
    BY <1>4, <2>1, <2>2 DEF Lost, Later, Over, Key
  <2>4. QED
    BY <1>1, <1>4, <2>1, <2>2, <2>3 DEF IInv, HistoryInv, Lives, ReclamationOK, Key
<1>9. QED
  BY <1>3, <1>5, <1>6, <1>7, <1>8 DEF IInv

-----------------------------------------------------------------------------
(* The invariant *)

\* A call that changes nothing: it answers, refuses, blocks or throws.
LEMMA AnswerKeeps ==
  ASSUME IInv,
         \/ Reconciled \/ AcquireRefused \/ RenewRefused \/ ReleaseRefused \/ RecoverRefused
         \/ CleanupBlocked \/ RecheckFailed \/ RemoveRefused \/ Fail
  PROVE  IInv'
<1>1. Leave /\ UNCHANGED <<files, world, belief, finished, issued>>
  BY DEF Reconciled, AcquireRefused, RenewRefused, ReleaseRefused, RecoverRefused, CleanupBlocked,
         RecheckFailed, RemoveRefused, Fail, Answer
<1>2. QED
  BY <1>1, QuietLeave

\* At first there is nothing.
LEMMA InitEstablishes == Init => IInv
<1> SUFFICES ASSUME Init PROVE IInv
  OBVIOUS
<1>1. /\ \A l \in LeaseIds : records[l] = NoRecord /\ pending[l] = NoIntent
      /\ Active = {} /\ Released = {} /\ Pending = {} /\ DOMAIN rows = {}
  BY DEF Init, Active, Released, Pending
<1>2. FilesInv
  <2>1. rows \in Seq(Row) /\ Len(rows) = 0
    BY DEF Init
  <2>2. FileTypes
    BY <2>1, BoundsAssumption DEF Init, FileTypes
  <2>3. ClaimsOK /\ RowsOK
    BY <1>1 DEF ClaimsOK, ClaimsExclude, Claims, RowsOK
  <2>4. \A l \in LeaseIds : LeaseOK(l)
    BY <1>1 DEF Init, LeaseOK, Agree, RowsOf
  <2>5. QED
    BY <2>2, <2>3, <2>4 DEF FilesInv
<1>3. WorldTypes
  BY BoundsAssumption DEF Init, WorldTypes, Times, NoBelief
<1>4. WorkInv
  BY DEF Init, WorkInv
<1>5. BeliefInv
  BY DEF Init, BeliefInv, CallerOK, BeliefOK, NoBelief
<1>6. HistoryInv
  BY <1>1 DEF Init, HistoryInv, ReclamationOK
<1>7. QED
  BY <1>2, <1>3, <1>4, <1>5, <1>6 DEF IInv

\* A step of the process inside the lock.
LEMMA StepKeeps ==
  ASSUME IInv, Step
  PROVE  IInv'
<1>1. CASE Reclaim
  BY <1>1, ReclaimKeeps
<1>2. ASSUME NEW l \in LeaseIds, ReplayApply(l) \/ ReplayDrop(l) \/ ReplayQuarantine(l) PROVE IInv'
  BY <1>2, ReplayKeeps, ReplayDropKeeps
<1>3. CASE Reconciled \/ AcquireRefused \/ RenewRefused \/ ReleaseRefused \/ RecoverRefused
           \/ CleanupBlocked \/ RecheckFailed \/ RemoveRefused
  BY <1>3, AnswerKeeps
<1>4. CASE AppendRow \/ AppendLimit \/ WriteRecord \/ WriteMap \/ ClearPending
  BY <1>4, AppendKeeps, LimitKeeps, RecordKeeps, MapKeeps, ClearKeeps
<1>5. CASE Acquire \/ Renew
  BY <1>5, AcquireKeeps, RenewKeeps
<1>6. CASE Release \/ Recover \/ CleanupAbsent
  BY <1>6, ReleaseKeeps
<1>7. CASE StageRemoval \/ Recheck \/ RemoveWorktree \/ MarkRemovalDone
  BY <1>7, StageKeeps, RecheckKeeps, RemoveKeeps, RemovalDoneKeeps
<1>8. ASSUME NEW named \in SUBSET Released, SelectReclamation(named) \/ Compact(named) PROVE IInv'
  BY <1>8, SelectKeeps, CompactKeeps
<1>9. QED
  BY <1>1, <1>2, <1>3, <1>4, <1>5, <1>6, <1>7, <1>8 DEF Step

\* Any step.
LEMMA NextKeeps ==
  ASSUME IInv, [Next]_vars
  PROVE  IInv'
<1>1. CASE EnterSome
  BY <1>1, EnterKeeps DEF EnterSome
<1>2. CASE Step
  BY <1>2, StepKeeps
<1>3. CASE Environment
  BY <1>3, AnswerKeeps, CrashKeeps, TickKeeps, TreeKeeps DEF Environment
<1>4. CASE UNCHANGED vars
  <2>1. /\ records' = records /\ pending' = pending /\ alive' = alive /\ issued' = issued
        /\ belief' = belief /\ lock' = lock /\ work' = work /\ tree' = tree /\ trees' = trees
        /\ clock' = clock /\ UNCHANGED <<files, lock, pc, work, finished, issued>>
    BY <1>4 DEF vars, files, registry, world
  <2>2. trees \in Nat /\ clock \in Nat
    BY BoundsAssumption DEF IInv, WorldTypes, Times
  <2>3. WorldTypes'
    BY <2>1 DEF IInv, WorldTypes
  <2>4. WorldStep
    BY <2>1, <2>2 DEF WorldStep, Gone, Present
  <2>5. FilesInv' /\ WorkInv' /\ HistoryInv'
    BY <2>1, <2>2, <2>3, <2>4, WorldKeeps DEF IInv, WorkInv
  <2>6. BeliefInv'
    BY <2>1, BeliefsStay, CallerStays DEF IInv, BeliefInv
  <2>7. QED
    BY <2>3, <2>5, <2>6 DEF IInv
<1>5. QED
  BY <1>1, <1>2, <1>3, <1>4 DEF Next

\* The inductive invariant holds throughout.
THEOREM Invariance == Spec => []IInv
<1>1. Init => IInv
  BY InitEstablishes
<1>2. IInv /\ [Next]_vars => IInv'
  BY NextKeeps
<1>3. QED
  BY <1>1, <1>2, PTL DEF Spec

-----------------------------------------------------------------------------
(* The properties *)

\* Registry, active map, ledger rows and the lock stay within their types,
\* and the ledger within its limit (the schemas of lease-manager.ts and
\* maxSnapshotBytes).
THEOREM TypeCorrect == Spec => []TypeOK
<1>1. IInv => TypeOK
  <2> SUFFICES ASSUME IInv PROVE TypeOK
    OBVIOUS
  <2>1. Stored \subseteq Record /\ Intents \subseteq IntentRecord
    BY DEF Stored, Intents
  <2>2. QED
    BY <2>1 DEF IInv, FilesInv, FileTypes, WorldTypes, WorkInv, TypeOK
<1>2. QED
  BY <1>1, Invariance, PTL

\* No two leases ever claim one branch or one path (the checks acquireLease
\* makes after replayPending).
THEOREM ClaimsExcludeHolds == Spec => []ClaimsExclude
<1>1. IInv => ClaimsExclude
  BY DEF IInv, FilesInv, ClaimsOK
<1>2. QED
  BY <1>1, Invariance, PTL

\* Whenever no intent is left, registry, active map and ledger agree, however
\* often publishMutation was interrupted and replayed.
THEOREM FilesAgreeHolds == Spec => []FilesAgree
<1>1. IInv => FilesAgree
  <2> SUFFICES ASSUME IInv PROVE FilesAgree
    OBVIOUS
  <2>1. \A j, k \in DOMAIN rows : rows[j].recordId = rows[k].recordId => j = k
    BY DEF IInv, FilesInv, RowsOK
  <2>2. ASSUME Pending = {}
        PROVE  /\ activeMap = Active
               /\ \A k \in DOMAIN rows :
                    LastRow(k) /\ records[rows[k].lease] # NoRecord
                      => rows[k].status = records[rows[k].lease].status
    <3>1. \A l \in LeaseIds : Agree(l)
      BY <2>2 DEF IInv, FilesInv, LeaseOK
    <3>2. activeMap \subseteq LeaseIds /\ Active \subseteq LeaseIds
      BY DEF IInv, FilesInv, FileTypes, Active
    <3>3. activeMap = Active
      BY <3>1, <3>2 DEF Agree
    <3>4. \A k \in DOMAIN rows : rows[k].lease \in LeaseIds /\ k \in RowsOf(rows[k].lease)
      BY RowIds DEF IInv, FilesInv, RowsOf
    <3>5. QED
      BY <3>1, <3>3, <3>4 DEF Agree
  <2>3. QED
    BY <2>1, <2>2 DEF FilesAgree
<1>2. QED
  BY <1>1, Invariance, PTL

\* ensureManagedStore never finds a lease in the active map that the registry
\* does not know.
THEOREM NoLegacyConflictHolds == Spec => []NoLegacyConflict
<1>1. IInv => NoLegacyConflict
  BY DEF IInv, FilesInv, FileTypes, LeaseOK, Agree, NoLegacyConflict
<1>2. QED
  BY <1>1, Invariance, PTL

\* retainHistory and compactRecords leave every record its evidence.
THEOREM EvidenceKeptHolds == Spec => []EvidenceKept
<1>1. IInv => EvidenceKept
  <2> SUFFICES ASSUME IInv PROVE EvidenceKept
    OBVIOUS
  <2>1. \A l \in Active : HasRow(l) /\ l \in {rows[k].lease : k \in DOMAIN rows}
    BY DEF IInv, FilesInv, LeaseOK, Active, HasRow, RowsOf
  <2>2. \A l \in Released :
          RowsOf(l) # {} \/ (reclamation # NoReclamation /\ l \in reclamation.leaseIds)
    BY DEF IInv, FilesInv, LeaseOK, Released
  <2>3. QED
    BY <2>1, <2>2 DEF EvidenceKept
<1>2. QED
  BY <1>1, Invariance, PTL

\* Nothing anyone else does takes a lease from the running process it was
\* granted to (requireOwner, recoverStaleLease, cleanupLeasedWorktree).
THEOREM HolderKeepsLeaseHolds == Spec => []HolderKeepsLease
<1>1. IInv => HolderKeepsLease
  BY DEF IInv, BeliefInv, BeliefOK, HolderKeepsLease, Active
<1>2. QED
  BY <1>1, Invariance, PTL

-----------------------------------------------------------------------------
(* The action properties *)

\* A lease that was neither active nor under an intent, and is now: one that
\* acquireLease has just granted.
Granted(l) ==
  /\ Ready("acquire") /\ l = issued + 1
  /\ \E path \in Paths : /\ Free(work.call.request, path)
                         /\ pending'[l] = Intent(l, "acquire", NewRecord(path))

\* What a step may do to the registry: a record goes, or becomes what its
\* intent says; an intent comes for an active lease, or for a new one.
RegistryStep ==
  \A l \in LeaseIds :
    /\ \/ records'[l] = records[l] \/ records'[l] = NoRecord
       \/ l \in Pending /\ records'[l] = pending[l].record
    /\ l \in Pending' => l \in Pending \cup Active \/ Granted(l)

\* Steps that leave the registry's leases alone.
LEMMA RegistryStays ==
  ASSUME records' = records, pending' = pending
  PROVE  RegistryStep
BY DEF RegistryStep, Pending

\* Every step is of that kind.
LEMMA RegistrySteps ==
  ASSUME IInv, [Next]_vars
  PROVE  RegistryStep
<1>1. DOMAIN pending = LeaseIds /\ DOMAIN records = LeaseIds
  BY DEF IInv, FilesInv, FileTypes
<1>2. CASE EnterSome \/ Environment \/ UNCHANGED vars
  <2>1. records' = records /\ pending' = pending
    BY <1>2 DEF EnterSome, Enter, Environment, Fail, Crash, Tick, TreeAdded, TreeGone, TreeEdited, TreeIs,
                vars, files, registry
  <2>2. QED
    BY <2>1, RegistryStays
<1>3. CASE Reconciled \/ AcquireRefused \/ RenewRefused \/ ReleaseRefused \/ RecoverRefused
           \/ CleanupBlocked \/ RecheckFailed \/ RemoveRefused
  <2>1. records' = records /\ pending' = pending
    BY <1>3 DEF Reconciled, AcquireRefused, RenewRefused, ReleaseRefused, RecoverRefused, CleanupBlocked,
                RecheckFailed, RemoveRefused, Answer, files, registry
  <2>2. QED
    BY <2>1, RegistryStays
<1>4. CASE AppendRow \/ WriteMap \/ Recheck \/ RemoveWorktree
  <2>1. records' = records /\ pending' = pending
    BY <1>4 DEF AppendRow, WriteMap, Recheck, RemoveWorktree, files, registry
  <2>2. QED
    BY <2>1, RegistryStays
<1>5. ASSUME NEW named \in SUBSET Released, SelectReclamation(named) \/ Compact(named)
      PROVE  RegistryStep
  <2>1. records' = records /\ pending' = pending
    BY <1>5 DEF SelectReclamation, Compact, registry
  <2>2. QED
    BY <2>1, RegistryStays
<1>6. ASSUME NEW l \in LeaseIds, ReplayApply(l) \/ ReplayDrop(l) \/ ReplayQuarantine(l)
      PROVE  RegistryStep
  <2>1. CASE ReplayDrop(l)
    BY <1>1, <2>1 DEF ReplayDrop, RegistryStep, Pending
  <2>2. CASE ReplayApply(l) \/ ReplayQuarantine(l)
    <3>1. records' = records /\ pending' = pending
      BY <2>2 DEF ReplayApply, ReplayQuarantine, files, registry
    <3>2. QED
      BY <3>1, RegistryStays
  <2>3. QED
    BY <1>6, <2>1, <2>2
<1>7. CASE Reclaim
  BY <1>7, ReclaimFacts DEF Reclaim, RegistryStep
<1>8. CASE AppendLimit \/ ClearPending
  <2>1. records' = records /\ \A m \in LeaseIds : pending'[m] \in {pending[m], NoIntent}
    BY <1>1, <1>8 DEF AppendLimit, ClearPending
  <2>2. QED
    BY <2>1 DEF RegistryStep, Pending
<1>9. CASE WriteRecord
  <2>1. work.lease \in Pending
    BY <1>9, ApplyingFacts DEF WriteRecord, Applying
  <2>2. pending' = pending /\ records' = [records EXCEPT ![work.lease] = pending[work.lease].record]
    BY <1>9 DEF WriteRecord
  <2>3. QED
    BY <1>1, <2>1, <2>2 DEF RegistryStep, Pending
<1>10. CASE Acquire
  <2>1. PICK path \in Paths :
          /\ Free(work.call.request, path)
          /\ Publish(issued + 1, Intent(issued + 1, "acquire", NewRecord(path)))
    BY <1>10 DEF Acquire
  <2>2. /\ records' = records /\ Ready("acquire")
        /\ pending' = [pending EXCEPT ![issued + 1] = Intent(issued + 1, "acquire", NewRecord(path))]
    BY <1>10, <2>1 DEF Publish, Acquire
  <2>3. ASSUME NEW l \in LeaseIds, l \in Pending', l \notin Pending PROVE Granted(l)
    <3>1. l = issued + 1
      BY <1>1, <2>2, <2>3 DEF Pending
    <3>2. pending'[l] = Intent(l, "acquire", NewRecord(path))
      BY <1>1, <2>2, <3>1, Zenon
    <3>3. QED
      BY <2>1, <2>2, <3>1, <3>2 DEF Granted
  <2>4. QED
    BY <2>2, <2>3 DEF RegistryStep
<1>11. ASSUME NEW l \in Active, NEW i, records' = records, pending' = [pending EXCEPT ![l] = i]
       PROVE  RegistryStep
  BY <1>1, <1>11 DEF RegistryStep, Pending
<1>12. CASE Renew \/ Release \/ Recover \/ CleanupAbsent \/ StageRemoval
  <2>1. /\ work.call.lease \in Active /\ records' = records
        /\ \E i : pending' = [pending EXCEPT ![work.call.lease] = i]
    BY <1>12, Zenon DEF Renew, Release, Recover, CleanupAbsent, StageRemoval, Publish, Owned
  <2>2. QED
    BY <1>11, <2>1
<1>13. CASE MarkRemovalDone
  <2>1. /\ records' = records
        /\ pending' = [pending EXCEPT ![work.call.lease].removal = "removal_done"]
    BY <1>13 DEF MarkRemovalDone
  <2>2. work.call.lease \in Active
    BY <1>13 DEF MarkRemovalDone, IInv, WorkInv, BusyOK, Removing
  <2>3. QED
    BY <1>11, <2>1, <2>2
<1>14. QED
  BY <1>2, <1>3, <1>4, <1>5, <1>6, <1>7, <1>8, <1>9, <1>10, <1>12, <1>13 DEF Next, Step

\* A released lease is never active again and a reclaimed one never comes
\* back, whatever intents were left (intentMatches, replayPending,
\* finishReclamation).
THEOREM NeverRevivedHolds == Spec => NeverRevived
<1>1. ASSUME IInv, [Next]_vars, NEW l \in LeaseIds
      PROVE  /\ l \in Released => l \notin Active'
             /\ l <= issued /\ records[l] = NoRecord /\ l \notin Pending
                  => records'[l] = NoRecord /\ l \notin Pending'
  <2>1. /\ \/ records'[l] = records[l] \/ records'[l] = NoRecord
           \/ l \in Pending /\ records'[l] = pending[l].record
        /\ l \in Pending' => l \in Pending \cup Active \/ Granted(l)
    BY <1>1, RegistrySteps DEF RegistryStep
  <2>2. ASSUME l \in Released PROVE l \notin Active'
    <3>1. records[l] # NoRecord /\ records[l].status = "released" /\ l \notin Active
      BY <2>2 DEF Released, Active
    <3>2. ASSUME l \in Pending PROVE pending[l].record.status = "released"
      <4>1. IntentOK(l) /\ pending[l].operation \in {"acquire", "renew", "release", "remove"}
        BY <1>1, <3>2 DEF IInv, FilesInv, FileTypes, LeaseOK, Pending, Intents, IntentRecord
      <4>2. QED
        BY <3>1, <4>1 DEF IntentOK
    <3>3. QED
      BY <2>1, <3>1, <3>2 DEF Active
  <2>3. ASSUME l <= issued, records[l] = NoRecord, l \notin Pending
        PROVE  records'[l] = NoRecord /\ l \notin Pending'
    <3>1. l \notin Active /\ ~Granted(l)
      BY <1>1, <2>3, BoundsAssumption DEF Active, Granted, IInv, FilesInv, FileTypes, LeaseIds
    <3>2. QED
      BY <2>1, <2>3, <3>1
  <2>4. QED
    BY <2>2, <2>3
<1>2. IInv /\ [Next]_vars =>
        [\A l \in LeaseIds :
           /\ l \in Released => l \notin Active'
           /\ l <= issued /\ records[l] = NoRecord /\ l \notin Pending
                => records'[l] = NoRecord /\ l \notin Pending']_vars
  BY <1>1
<1>3. QED
  BY <1>2, Invariance, PTL DEF Spec, NeverRevived

\* Only git worktree remove takes the cleanup past its second look.
LEMMA RemovedByGit ==
  ASSUME IInv, [Next]_vars, pc = "remove", pc' = "removed"
  PROVE  RemoveWorktree
<1>1. CASE EnterSome \/ Environment \/ UNCHANGED vars
  BY <1>1 DEF EnterSome, Enter, Environment, Fail, Leave, Crash, Tick, TreeAdded, TreeGone, TreeEdited,
              TreeIs, vars
<1>2. CASE Reconciled \/ AcquireRefused \/ RenewRefused \/ ReleaseRefused \/ RecoverRefused
           \/ CleanupBlocked \/ RecheckFailed \/ RemoveRefused
  BY <1>2 DEF Reconciled, AcquireRefused, RenewRefused, ReleaseRefused, RecoverRefused, CleanupBlocked,
              RecheckFailed, RemoveRefused, Answer, Leave
<1>3. CASE Reclaim \/ AppendRow \/ AppendLimit \/ WriteRecord \/ WriteMap \/ ClearPending \/ Recheck
           \/ MarkRemovalDone
  BY <1>3 DEF Reclaim, AppendRow, AppendLimit, WriteRecord, WriteMap, ClearPending, Recheck,
              MarkRemovalDone
<1>4. CASE Acquire \/ Renew \/ Release \/ Recover \/ CleanupAbsent \/ StageRemoval
  BY <1>4 DEF Acquire, Renew, Release, Recover, CleanupAbsent, StageRemoval, Ready
<1>5. ASSUME NEW l \in LeaseIds, ReplayApply(l) \/ ReplayDrop(l) \/ ReplayQuarantine(l)
      PROVE  FALSE
  BY <1>5 DEF ReplayApply, ReplayDrop, ReplayQuarantine, Replaying
<1>6. ASSUME NEW named \in SUBSET Released, SelectReclamation(named) \/ Compact(named)
      PROVE  FALSE
  BY <1>6 DEF SelectReclamation, Compact
<1>7. QED
  BY <1>1, <1>2, <1>3, <1>4, <1>5, <1>6 DEF Next, Step

\* git is asked to remove only a worktree whose holder is gone, under a durable
\* intent of the one lease that claims the path, and what it removes is the
\* worktree of the lease on its branch, unless that was put there after cleanup
\* last looked (cleanupLeasedWorktree, stageRemoval).
THEOREM RemovalSafeHolds == Spec => RemovalSafe
<1> DEFINE Safe ==
             LET l == work.call.lease
                 path == records[l].path
             IN  /\ l \in Active \cap Pending /\ Prepared(l)
                 /\ Missing(records[l].holder)
                 /\ \A m \in Claims : m # l => RecordOf(m).path # path
                 /\ \/ tree[path].id = records[l].identity /\ Registered(path, records[l].branch)
                    \/ tree[path].id > work.seen
<1>1. ASSUME IInv, [Next]_vars, pc = "remove", pc' = "removed"
      PROVE  Safe
  <2> DEFINE l == work.call.lease
  <2>1. Present(records[l].path)
    BY <1>1, RemovedByGit DEF RemoveWorktree, GitRemoves
  <2>2. SeenOK
    BY <1>1 DEF IInv, WorkInv, BusyOK
  <2>3. l \in Active \cap Pending /\ Prepared(l) /\ Missing(records[l].holder)
    BY <1>1 DEF IInv, WorkInv, BusyOK, Removing
  <2>4. l \in Claims /\ RecordOf(l).path = records[l].path
    BY <1>1, <2>3, ClaimOf DEF IInv, Active
  <2>5. ClaimsExclude
    BY <1>1 DEF IInv, FilesInv, ClaimsOK
  <2>6. \A m \in Claims : m # l => RecordOf(m).path # records[l].path
    BY <2>4, <2>5 DEF ClaimsExclude
  <2>7. QED
    BY <2>1, <2>2, <2>3, <2>6 DEF SeenOK
<1>2. IInv /\ [Next]_vars => [pc = "remove" /\ pc' = "removed" => Safe]_vars
  BY <1>1
<1>3. QED
  BY <1>2, Invariance, PTL DEF Spec, RemovalSafe

\* What was released last is still in the registry when a task continues on it.
LEMMA LatestEver ==
  ASSUME IInv, NEW request \in Requests, Continues(request),
         NEW f \in finished, Key(f) = Key(request),
         \A g \in finished : Key(g) = Key(request) => g.updatedAt <= f.updatedAt
  PROVE  \E c \in LatestCandidates(request) : records[c] = f
<1>1. \A l \in Released : records[l] \in finished
  BY DEF IInv, HistoryInv
<1>2. \A g \in finished : g.updatedAt \in Int /\ Key(g) \in Keys
  BY DEF IInv, HistoryInv, Stored, Record, Times
<1>3. CASE \E l \in Released : records[l] = f
  <2>1. PICK l \in Released : records[l] = f
    BY <1>3
  <2>2. l \in LatestCandidates(request)
    BY <1>1, <2>1 DEF LatestCandidates, Candidates
  <2>3. QED
    BY <2>1, <2>2
<1>4. CASE Lost(f)
  <2>1. PICK c \in LatestCandidates(request) : TRUE
    BY DEF Continues
  <2>2. /\ c \in Released /\ Key(records[c]) = Key(request)
        /\ records[c].updatedAt > reclaimedThrough[Key(request)]
    BY <2>1 DEF LatestCandidates, Candidates, Continues
  <2>3. records[c] \in finished /\ records[c].updatedAt <= f.updatedAt
    BY <1>1, <2>2
  <2>4. Later(records[c], f) /\ Over(records[c]) = records[c].updatedAt
    BY <1>4, <2>2 DEF Lost, Over, Released
  <2>5. reclaimedThrough[Key(f)] \in Int
    <3>1. \A t \in Times \cup {None} : t \in Int
      BY DEF Times, None
    <3>2. QED
      BY <1>2, <3>1 DEF IInv, FilesInv, FileTypes
  <2>6. records[c].updatedAt \in Int /\ f.updatedAt \in Int
    BY <1>2, <2>3
  <2>7. QED
    BY <2>2, <2>3, <2>4, <2>5, <2>6 DEF Later
<1>5. QED
  BY <1>3, <1>4 DEF IInv, HistoryInv

\* A task continues only on the latest evidence of its branch there ever was
\* (getSequentialCandidate with the watermarks of finishReclamation), even
\* when retention has deleted what the registry knew of it; and in the
\* worktree of that evidence unless its caller named another (leasePath).
THEOREM ContinuesOnLatestHolds == Spec => ContinuesOnLatest
<1> DEFINE Latest(l) ==
             LET r == pending'[l].record
                 past == {f \in finished : Key(f) = Key(r)}
                 last == {f \in past : \A g \in past : g.updatedAt <= f.updatedAt}
             IN  \A f \in last :
                   /\ f.dirty = "clean"
                   /\ \A g \in last : f.path = g.path
                   /\ work.call.request.path = NoPath => f.path = r.path
<1>1. ASSUME IInv, [Next]_vars, NEW l \in LeaseIds, l \notin Pending \cup Active, l \in Pending',
             pending'[l].operation = "acquire", pending'[l].record.mode = "sequential_continue"
      PROVE  Latest(l)
  <2>1. Granted(l)
    BY <1>1, RegistrySteps DEF RegistryStep
  <2> DEFINE q == work.call.request
  <2>2. PICK path \in Paths : /\ Free(q, path)
                              /\ pending'[l] = Intent(l, "acquire", NewRecord(path))
    BY <2>1 DEF Granted
  <2> DEFINE r == pending'[l].record
             past == {f \in finished : Key(f) = Key(r)}
             last == {f \in past : \A g \in past : g.updatedAt <= f.updatedAt}
  <2>3. r.task = q.task /\ r.branch = q.branch /\ r.mode = q.mode /\ r.path = path
    BY <2>2 DEF Intent, NewRecord
  <2>4. q \in Requests
    BY <1>1, <2>1, ReadyFacts DEF Granted, CallOK
  <2>5. Key(r) = Key(q)
    BY <2>3 DEF Key
  <2>6. Continues(q) /\ LeasePath(q, path)
    BY <1>1, <2>2, <2>3 DEF Free
  <2>7. \A f \in last : \E c \in LatestCandidates(q) : records[c] = f
    <3>1. ASSUME NEW f \in last PROVE \E c \in LatestCandidates(q) : records[c] = f
      <4>1. f \in finished /\ Key(f) = Key(q)
        BY <2>5
      <4>2. \A g \in finished : Key(g) = Key(q) => g.updatedAt <= f.updatedAt
        BY <2>5
      <4>3. QED
        BY <1>1, <2>4, <2>6, <4>1, <4>2, LatestEver
    <3>2. QED
      BY <3>1
  <2>8. QED
    BY <2>3, <2>6, <2>7 DEF Continues, LeasePath
<1>2. IInv /\ [Next]_vars =>
        [\A l \in LeaseIds :
           l \notin Pending \cup Active /\ l \in Pending'
             /\ pending'[l].operation = "acquire"
             /\ pending'[l].record.mode = "sequential_continue"
           => Latest(l)]_vars
  <2> SUFFICES ASSUME IInv, [Next]_vars, NEW l \in LeaseIds, l \notin Pending \cup Active,
                      l \in Pending', pending'[l].operation = "acquire",
                      pending'[l].record.mode = "sequential_continue"
               PROVE  Latest(l)
    OBVIOUS
  <2>1. QED
    BY <1>1
<1>3. QED
  BY <1>2, Invariance, PTL DEF Spec, ContinuesOnLatest
=============================================================================
