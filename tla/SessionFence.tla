---------------------------- MODULE SessionFence ----------------------------
(***************************************************************************)
(* OmnigentHttpProvider (packages/omnigent-transport/src/http-provider.ts),  *)
(* configured with withExclusiveSessionLease and sessionMutationFenceStore:  *)
(* several providers, in several processes, writing one Omnigent session.    *)
(* The server's interrupt and stop name no turn, so send, cancel and close   *)
(* run under the lease and leave in the shared fence what the next writer    *)
(* must respect.  A call is cut at its awaits: a provider's stream may       *)
(* handle frames between any two of its parts.                               *)
(*                                                                         *)
(* A turn goes by up to three ids: the one the provider makes up (key), the  *)
(* pending or item id in the server's answer (ack), and the response id      *)
(* (resp).  Failures of a turn, text, tool calls and timestamps are left     *)
(* out, and an idempotency key is sent once.  The lease and the fence store  *)
(* are the caller's: the lease is mutual exclusion, the store a register.    *)
(***************************************************************************)
EXTENDS Integers, Sequences, FiniteSets, SequencesExt, FiniteSetsExt

CONSTANTS
  Providers,
  Owners,            \* the providers that created the session and so track it
  Readers,           \* the providers that stream it
  Turns,
  Slots,             \* calls that may be under way at once
  AckKinds,          \* what the server answers a message with
  AllowQueuedTurns,  \* allowQueuedTurns
  Faults,            \* answers the server may give besides ok: denied, error, malformed, lost
  MaxCancels, MaxCloses, MaxReads,  \* bounds on the calls of each kind
  MaxOpens,          \* bound on the connections of a stream
  NoId, NoSlot

Ids     == Turns \X {"key", "ack", "resp"}
Key(t)  == <<t, "key">>
Ack(t)  == <<t, "ack">>
Resp(t) == <<t, "resp">>

ASSUME FenceAssumption ==
  /\ Owners \subseteq Providers /\ Readers \subseteq Providers
  /\ AckKinds \subseteq {"pending", "item", "bare"}
  /\ Faults \subseteq {"denied", "error", "malformed", "lost"}
  /\ AllowQueuedTurns \in BOOLEAN
  /\ NoId \notin Ids /\ NoSlot \notin Slots

N == INSTANCE SseNormalizer

VARIABLES
  fence,    \* the shared OmnigentSessionMutationFenceState
  lease,    \* the call that holds the session lease
  server,   \* what the server did with each turn
  kind,     \* the kind of id the server answered each turn with
  backlog,  \* the turns the server has accepted and not started, in order
  log,      \* the turns in the order their responses started: the history
  stopped,  \* the server has stopped the session
  lo,       \* what each provider remembers of the session
  stream,   \* the stream of each provider
  calls,    \* the calls under way
  quota,    \* how many more calls of each kind there may be
  returned, \* the ids cancelTurn has returned a cancelled handle for
  proved    \* the ids cancelled in the fence whose interruption the stream of their
            \* provider has read while cancelTurn held the lease

vars == <<fence, lease, server, kind, backlog, log, stopped, lo, stream, calls, quota, returned, proved>>
srv  == <<server, kind, backlog, log, stopped>>
hist == <<returned, proved>>

NoCancel == [turn |-> NoId, awaiting |-> FALSE, official |-> {}]
NoSnap   == [active |-> NoId, pending |-> {}, busy |-> FALSE]
NoEvent  == [type |-> "none", of |-> NoId, turn |-> NoId, alias |-> NoId, confirmed |-> FALSE]
NoCall   == [kind |-> "none", at |-> NoId, turn |-> NoId, id |-> NoId, pc |-> "none",
             shared |-> NoId, snap |-> NoSnap, items |-> <<>>, answer |-> "none",
             latest |-> NoId, sess |-> NoId, proof |-> FALSE]
NoStream == [pc |-> "off", queue |-> <<>>, shared |-> NoId, items |-> <<>>, snap |-> NoSnap,
             prior |-> NoId, ev |-> NoEvent, done |-> NoId]

Init ==
  /\ fence = [cancel |-> NoCancel, closed |-> FALSE, closing |-> FALSE, rejected |-> {}]
  /\ lease = NoSlot
  /\ server = [t \in Turns |-> "new"]
  /\ kind = [t \in Turns |-> "none"]
  /\ backlog = <<>> /\ log = <<>>
  /\ stopped = FALSE
  /\ lo = [p \in Providers |->
            [sess |-> [state |-> IF p \in Owners THEN "idle" ELSE "untracked", active |-> NoId],
             latest |-> NoId,          \* latestTurnIds
             turns |-> {},             \* keys of turns
             handle |-> [t \in Turns |-> NoId],  \* turnId of the handle of each turn sent here
             provisional |-> {},       \* provisionalTurnKeys
             order |-> <<>>,           \* provisionalTurnOrder
             renamed |-> {},           \* provisionalTurnAliases: turns whose key id became the ack id
             native |-> {},            \* nativePendingTurnKeys
             queuedOnly |-> {},        \* queuedOnlyTurnKeys
             items |-> [t \in Turns |-> NoId],   \* pendingItemTurnIds, by the item's turn
             claimed |-> {}, observed |-> {},    \* claimed- and observedHistoryItemKeys
             rejected |-> {},          \* rejectedTurnKeys
             quarantine |-> {},        \* cancelledTurnQuarantineKeys
             awaiting |-> {},          \* cancelledTurnAwaitingIdentityKeys
             official |-> {},          \* officialResponseTurnKeys
             reserved |-> NoId,        \* cancellationReservations
             seen |-> {},              \* cancellationOfficialTurnIds of the reserved turn
             early |-> FALSE,          \* earlyCancellationProofKeys has the reserved turn
             open |-> FALSE,           \* openStreams has the stream
             n |-> N!NewNormalizer,
             started |-> {}]]          \* emittedStartedTurnIds of the stream's mapper
  /\ stream = [p \in Providers |-> NoStream]
  /\ calls = [c \in Slots |-> NoCall]
  /\ quota = [cancel |-> MaxCancels, close |-> MaxCloses, read |-> MaxReads,
              open |-> [p \in Providers |-> IF p \in Readers THEN MaxOpens ELSE 0], send |-> Turns]
  /\ returned = {} /\ proved = {}

(***************************************************************************)
(* The provider's helpers: from what it remembers to what it remembers next. *)
(* onStream applies a method of the normalizer if the stream is open.        *)
(***************************************************************************)
onStream(s, n) == IF s.open THEN [s EXCEPT !.n = n] ELSE s

tracked(s) == s.sess.state \notin {"untracked", "closed"}

setActiveTurn(s, id) ==
  [s EXCEPT !.latest = id,
            !.sess = IF tracked(s) THEN [state |-> "turn_active", active |-> id] ELSE @]

clearActiveTurn(s) ==
  [s EXCEPT !.sess = IF tracked(s) THEN [state |-> "idle", active |-> NoId] ELSE @]

\* Rename the handle with turn id old, and every other mention of it.
rename(s, old, new) ==
  [s EXCEPT !.turns = IF old \in @ THEN (@ \ {old}) \cup {new} ELSE @,
            !.handle = [t \in Turns |-> IF @[t] = old /\ old \in s.turns THEN new ELSE @[t]],
            !.latest = IF @ = old THEN new ELSE @,
            !.sess.active = IF @ = old THEN new ELSE @]

replaceProvisionalTurnId(s, t, restore) ==
  LET old == Key(t)  new == Ack(t)
      r   == rename(s, old, new)
  IN  IF old \notin s.provisional THEN s
      ELSE onStream([r EXCEPT !.provisional = (@ \ {old}) \cup {new},
                              !.renamed = @ \cup {t},
                              !.order = IF Contains(@, old)
                                        THEN [i \in DOMAIN @ |-> IF @[i] = old THEN new ELSE @[i]]
                                        ELSE IF restore THEN Append(@, new) ELSE @],
                    N!replaceFallbackTurnId(r.n, old, new))

\* Forget a provisional id, under every name it has.
forget(s, ids) ==
  [s EXCEPT !.provisional = @ \ ids, !.native = @ \ ids, !.queuedOnly = @ \ ids,
            !.renamed = {t \in @ : Key(t) \notin ids /\ Ack(t) \notin ids},
            !.order = N!Without(@, ids)]

reconcileTurn(s, id, official) ==
  LET known == [s EXCEPT !.official = @ \cup {official}]
      cur   == IF id[2] = "key" /\ id[1] \in s.renamed THEN Ack(id[1]) ELSE id
  IN  IF s.reserved = cur THEN [known EXCEPT !.seen = @ \cup {official}]
      ELSE IF cur = official \/ cur \notin s.provisional THEN known
      ELSE forget(rename(known, cur, official), {cur})

rollbackTurnRegistration(s, t, latest, sess) ==
  LET ids  == {Key(t), s.handle[t]}
      gone == s.sess.active \in ids
      r    == forget([s EXCEPT !.turns = @ \ ids, !.handle[t] = NoId], ids)
      live(id) == id # NoId /\ id \in r.turns
      kept == IF live(r.sess.active) /\ ~gone THEN r.sess.active
              ELSE IF live(latest) THEN latest
              ELSE IF r.order # <<>> THEN Last(r.order) ELSE NoId
      was  == IF live(sess.active) THEN sess.active ELSE NoId
      back == [state |-> IF was # NoId THEN "turn_active" ELSE "idle", active |-> was]
  IN  onStream([r EXCEPT !.latest = IF @ \in ids THEN kept ELSE @,
                         !.sess = IF gone /\ sess.state # "untracked" THEN back ELSE @],
               N!removeFallbackTurnIds(r.n, ids))

\* retireProvisionalTurnCandidate
retireCandidate(s, id) ==
  [s EXCEPT !.order = IF id \in s.provisional THEN N!Without(@, {id}) ELSE @]

retireCancelledTurn(s, id, proof) ==
  LET r == [forget(s, {id}) EXCEPT
              !.quarantine = IF proof THEN @ ELSE @ \cup {id},
              !.awaiting = IF proof \/ id \in s.official THEN @ ELSE @ \cup {id},
              !.rejected = @ \cup {id},
              !.items = [t \in Turns |-> IF @[t] = id THEN NoId ELSE @[t]],
              !.latest = IF @ = id THEN NoId ELSE @]
  IN  onStream(r, IF proof THEN N!rejectTurnIds(r.n, {id})
                  ELSE N!quarantineFallbackTurnId(r.n, id))

\* installSharedSessionMutationState: the quarantine becomes that of the fence.
quarantineOf(f) == {f.cancel.turn} \ {NoId}

install(s, f) ==
  LET c   == f.cancel.turn
      cs  == quarantineOf(f)
      old == s.quarantine \ cs
      n1  == FoldSet(LAMBDA o, n : N!bindResponseId(n, o, c), s.n, f.cancel.official)
      n2  == N!rejectTurnIds(n1, f.rejected \ cs)
      n3  == IF c = NoId THEN n2 ELSE N!quarantineFallbackTurnId(n2, c)
  IN  onStream([s EXCEPT !.quarantine = cs,
                         !.awaiting = (@ \ old) \cup (IF f.cancel.awaiting THEN cs ELSE {}),
                         !.rejected = @ \cup f.rejected \cup cs,
                         !.sess = IF f.closed /\ @.state # "untracked"
                                  THEN [state |-> "closed", active |-> NoId] ELSE @],
               n3)

(***************************************************************************)
(* Reading the session: toSessionInfo, and what history and a snapshot       *)
(* establish about the turns sent here.                                      *)
(***************************************************************************)
Snapshot ==
  LET active == {t \in Turns : server[t] = "active"}
      queued == {t \in Turns : server[t] = "queued"}
  IN  [active |-> IF active = {} THEN NoId ELSE Resp(CHOOSE t \in active : TRUE),
       pending |-> {Ack(t) : t \in {u \in queued : kind[u] = "pending"}},
       busy |-> active # {} \/ \E t \in queued : kind[t] # "pending"]

History == [i \in DOMAIN log |-> [t |-> log[i], cut |-> server[log[i]] = "interrupted"]]

toSessionInfo(sess, snap) ==
  IF ~snap.busy /\ snap.active = NoId /\ sess.state = "turn_active" THEN sess
  ELSE [state |-> IF snap.busy THEN "turn_active" ELSE "idle", active |-> snap.active]

shouldPreserveActiveIdentity(s, snap) ==
  s.order # <<>> \/ snap.active \in s.turns \cup s.rejected

refreshTrackedSession(s, snap) ==
  [s EXCEPT !.sess = IF tracked(s) /\ ~shouldPreserveActiveIdentity(s, snap)
                     THEN toSessionInfo(@, snap) ELSE @]

\* bind: the caller is the stream, which is told of every pairing.
reconcileTurnsFromHistory(s, items, bind) ==
  LET one(r, item) ==
        LET t  == item.t
            id == IF kind[t] = "item" /\ Ack(t) \in r.turns THEN Ack(t) ELSE r.items[t]
            b  == IF bind THEN onStream(r, N!bindResponseId(r.n, Resp(t), id)) ELSE r
        IN  IF id = NoId THEN r
            ELSE reconcileTurn([b EXCEPT !.claimed = @ \cup {t}], id, Resp(t))
  IN  FoldLeft(one, s, items)

\* As unclaimedItems, forgetting the items that an answer has named.
unpairedItems(s, items) == SelectSeq(items, LAMBDA i : s.items[i.t] = NoId)

\* The items no turn has been paired with.
unclaimedItems(s, items) ==
  SelectSeq(items, LAMBDA i : i.t \notin s.claimed \cup s.observed /\ s.items[i.t] = NoId)

reconcilePendingTurnsFromSnapshot(s, snap, items, bind) ==
  LET consumed == SelectSeq(s.order, LAMBDA id : \/ id \in s.native \ snap.pending
                                                 \/ snap.pending = {} /\ id \in s.queuedOnly)
      fresh    == unclaimedItems(s, items)
      pair(r, i) ==
        LET id == consumed[i]  t == fresh[i].t
            b  == IF bind THEN onStream(r, N!bindResponseId(r.n, Resp(t), id)) ELSE r
        IN  reconcileTurn([b EXCEPT !.items[t] = id], id, Resp(t))
      paired   == FoldLeft(pair, s, [i \in DOMAIN consumed |-> i])
      observe(r) == IF r.order = <<>> THEN [r EXCEPT !.observed = @ \cup {i.t : i \in ToSet(items)}] ELSE r
  IN  IF consumed = <<>> THEN observe(s)
      ELSE IF Len(fresh) # Len(consumed) THEN s
      ELSE observe(paired)

\* The latest lifecycle event of the history is the start, or the interruption,
\* of the last response.
applyMappedHistoryState(s, items) ==
  LET last == Last(items)
  IN  IF items # <<>> /\ last.cut /\ s.sess.active \in {NoId, Resp(last.t)}
      THEN clearActiveTurn(s) ELSE s

synchronize(s, items, snap, bind) ==
  reconcilePendingTurnsFromSnapshot(reconcileTurnsFromHistory(s, items, bind), snap, items, bind)

(***************************************************************************)
(* Calls.  A call has a slot while it runs; NoCall is a free slot.           *)
(***************************************************************************)
At(c, k, pc) == calls[c].kind = k /\ calls[c].pc = pc
Me(c)        == calls[c].at                    \* the provider of the call
Go(c, pc)    == calls' = [calls EXCEPT ![c].pc = pc]
Writes(f)    == fence' = f

\* What p remembers becomes s, each field of it.
Local(p, s)  == lo' = [lo EXCEPT ![p] = [field \in DOMAIN @ |-> s[field]]]

\* The end of a call: it gives the lease back if it holds it.
Return(c) == /\ calls' = [calls EXCEPT ![c] = NoCall]
             /\ lease' = IF lease = c THEN NoSlot ELSE lease

Call(c, k, p) ==
  /\ calls[c] = NoCall
  /\ calls' = [calls EXCEPT ![c] = [NoCall EXCEPT !.kind = k, !.at = p, !.pc = "lease"]]

\* getSession: the server reads the session; the answer is used later.
GetSession(c) ==
  /\ calls[c].pc = "snapshot"
  /\ calls' = [calls EXCEPT ![c].pc = "checks", ![c].snap = Snapshot]
  /\ UNCHANGED <<fence, lease, srv, lo, stream, quota, hist>>

\* Frames reach every open connection.
Emit(frames) ==
  stream' = [p \in Providers |-> IF lo[p].open
                                 THEN [stream[p] EXCEPT !.queue = @ \o frames] ELSE stream[p]]

Frame(type, t) == <<[type |-> type, t |-> t]>>

(***************************************************************************)
(* sendTurn.                                                                 *)
(***************************************************************************)
SendTurn(c, p, t) ==
  /\ t \in quota.send
  /\ calls[c] = NoCall
  /\ calls' = [calls EXCEPT ![c] = [NoCall EXCEPT !.kind = "send", !.at = p, !.turn = t,
                                                  !.pc = "lease"]]
  /\ quota' = [quota EXCEPT !.send = @ \ {t}]
  /\ UNCHANGED <<fence, lease, srv, lo, stream, hist>>

\* sendTurnOnce up to the request: the turn is registered before it is posted.
register(s, t) ==
  LET r == [s EXCEPT !.turns = @ \cup {Key(t)}, !.handle[t] = Key(t),
                     !.provisional = @ \cup {Key(t)}, !.order = Append(@, Key(t)),
                     !.latest = Key(t), !.rejected = @ \ {Key(t)},
                     !.sess = IF @.state = "untracked" THEN @
                              ELSE [state |-> "turn_active", active |-> Key(t)]]
  IN  onStream(r, N!setFallbackTurnId(r.n, Key(t)))

Register(c, s) ==
  /\ Local(Me(c), register(s, calls[c].turn))
  /\ calls' = [calls EXCEPT ![c].pc = "post", ![c].latest = s.latest, ![c].sess = s.sess]

\* As admits, on the word of the server alone that no cancellation is pending.
admitsQuarantined(s, f) ==
  /\ ~f.closed /\ ~f.closing
  /\ s.reserved = NoId
  /\ s.sess.state # "closed"
  /\ AllowQueuedTurns \/ s.sess.state # "turn_active"

\* The fence and the local state admit a message.
admits(s, f) ==
  /\ ~f.closed /\ ~f.closing
  /\ s.reserved = NoId
  /\ s.quarantine = {}
  /\ s.sess.state # "closed"
  /\ AllowQueuedTurns \/ s.sess.state # "turn_active"

SendEnter(c) ==
  LET s == install(lo[Me(c)], fence)
  IN  /\ At(c, "send", "lease")
      /\ lease = NoSlot
      /\ IF ~admits(s, fence) THEN Local(Me(c), s) /\ Return(c)
         ELSE /\ lease' = c
              /\ IF AllowQueuedTurns THEN Register(c, s)
                 ELSE Local(Me(c), s) /\ Go(c, "snapshot")
      /\ UNCHANGED <<fence, srv, stream, quota, hist>>

upstreamIdle(snap) == snap.active = NoId /\ snap.pending = {} /\ ~snap.busy

SendChecks(c) ==
  /\ At(c, "send", "checks")
  /\ IF upstreamIdle(calls[c].snap) THEN Register(c, lo[Me(c)]) /\ UNCHANGED lease
     ELSE Return(c) /\ UNCHANGED lo
  /\ UNCHANGED <<fence, srv, stream, quota, hist>>

\* The server takes the message or not; an answer that is an error, or lost,
\* tells the provider neither.
PostMessage(c, k, answer) ==
  LET t == calls[c].turn
  IN  /\ At(c, "send", "post")
      /\ \E accepted \in BOOLEAN :
           /\ answer = "ok" => accepted
           /\ answer = "denied" => ~accepted
           /\ stopped => ~accepted
           /\ server' = IF accepted THEN [server EXCEPT ![t] = "queued"] ELSE server
           /\ kind' = IF accepted THEN [kind EXCEPT ![t] = k] ELSE kind
           /\ backlog' = IF accepted THEN Append(backlog, t) ELSE backlog
      /\ calls' = [calls EXCEPT ![c].pc = "answer", ![c].answer = answer]
      /\ UNCHANGED <<fence, lease, log, stopped, lo, stream, quota, hist>>

acknowledged(s, t, k) ==
  LET r == IF s.handle[t] = Key(t) /\ k # "bare"
           THEN replaceProvisionalTurnId(s, t, k = "pending") ELSE s
      m == [r EXCEPT !.claimed = IF k = "item" THEN @ \cup {t} ELSE @]
      waiting == r.handle[t] = Key(t)
  IN  CASE k = "pending" ->
             onStream([m EXCEPT !.native = IF m.handle[t] = Ack(t) THEN @ \cup {Ack(t)} ELSE @],
                      N!removeFallbackTurnIds(m.n, {Ack(t)}))
        [] k = "bare" /\ waiting ->
             [m EXCEPT !.order = IF Contains(@, Key(t)) THEN @ ELSE Append(@, Key(t)),
                       !.queuedOnly = @ \cup {Key(t)}]
        [] OTHER -> m

\* rejectTurnIdentities
rejectIds(s, ids) ==
  onStream([s EXCEPT !.rejected = @ \cup ids], N!rejectTurnIds(s.n, ids))

rollback(c, s) == rollbackTurnRegistration(s, calls[c].turn, calls[c].latest, calls[c].sess)

\* isNonRetryableRuntimeFailure
final(answer) == answer \in {"denied", "malformed"}

\* persistRejectedTurnIdentities
persistRejected(f, ids) == [f EXCEPT !.rejected = @ \cup ids]

\* An answer that is no error acknowledges the turn; a lost one leaves it as it is
\* if a stream has named it meanwhile; the others reject its ids, for the other
\* providers too if the failure is final or a stream has named the turn.
SendAnswer(c) ==
  LET t   == calls[c].turn
      s   == lo[Me(c)]
      named  == s.handle[t] # Key(t)
      ids    == {Key(t), s.handle[t]}
      failed == calls[c].answer \in {"denied", "error", "malformed"}
      shared == failed /\ (final(calls[c].answer) \/ named)
  IN  /\ At(c, "send", "answer")
      /\ Local(Me(c), CASE calls[c].answer = "ok" -> acknowledged(s, t, kind[t])
                        [] calls[c].answer = "lost" -> IF named THEN s ELSE rollback(c, s)
                        [] failed -> IF shared THEN rejectIds(s, ids)
                                     ELSE rollback(c, rejectIds(s, ids)))
      /\ IF shared
         THEN Writes(persistRejected(fence, ids)) /\ Go(c, "rejected") /\ UNCHANGED lease
         ELSE Return(c) /\ UNCHANGED fence
      /\ UNCHANGED <<srv, stream, quota, hist>>

SendRejected(c) ==
  /\ At(c, "send", "rejected")
  /\ Local(Me(c), rollback(c, lo[Me(c)]))
  /\ Return(c)
  /\ UNCHANGED <<fence, srv, stream, quota, hist>>

(***************************************************************************)
(* cancelTurn, on the handle that sendTurn returned.                         *)
(***************************************************************************)
CancelTurn(c, p, t) ==
  LET s == lo[p]
  IN  /\ quota.cancel > 0
      /\ calls[c] = NoCall
      /\ s.handle[t] # NoId
      /\ \A d \in Slots : ~(calls[d].kind \in {"send", "cancel"} /\ calls[d].turn = t)
      /\ s.reserved = NoId
      /\ Local(p, [s EXCEPT !.reserved = s.handle[t], !.seen = {}, !.early = FALSE])
      /\ calls' = [calls EXCEPT ![c] = [NoCall EXCEPT !.kind = "cancel", !.at = p, !.turn = t,
                                                      !.id = s.handle[t], !.pc = "lease"]]
      /\ quota' = [quota EXCEPT !.cancel = @ - 1]
      /\ UNCHANGED <<fence, lease, srv, stream, hist>>

\* The callback of cancelTurn has settled: the lease is given back, and finally
\* is still to come.
Leave(c) == /\ calls' = [calls EXCEPT ![c] = [NoCall EXCEPT !.kind = "cancel", !.at = Me(c),
                                                            !.turn = calls[c].turn,
                                                            !.id = calls[c].id, !.pc = "finally"]]
             /\ lease' = IF lease = c THEN NoSlot ELSE lease

\* cancelTurn's finally.
CancelFinally(c) ==
  /\ At(c, "cancel", "finally")
  /\ Local(Me(c), [lo[Me(c)] EXCEPT !.reserved = NoId, !.seen = {}, !.early = FALSE])
  /\ Return(c)
  /\ UNCHANGED <<fence, srv, stream, quota, hist>>

\* The ids the cancelled turn is known by.
cancelIds(c) == {calls[c].id} \cup lo[Me(c)].seen

CancelEnter(c) ==
  LET s == install(lo[Me(c)], fence)
  IN  /\ At(c, "cancel", "lease")
      /\ lease = NoSlot
      /\ IF \/ fence.closed \/ fence.closing \/ fence.cancel # NoCancel
            \/ s.sess.active \notin cancelIds(c)
         THEN Local(Me(c), s) /\ Leave(c)
         ELSE /\ Local(Me(c), s)
              /\ lease' = c
              /\ calls' = [calls EXCEPT ![c].pc = "snapshot", ![c].shared = fence]
      /\ UNCHANGED <<fence, srv, stream, quota, hist>>

\* The snapshot gives the interrupt to this turn, and so does the local state.
attributed(c) ==
  LET snap == calls[c].snap
  IN  /\ snap.active # NoId => snap.active \in cancelIds(c)
      /\ snap.active \in cancelIds(c) \/ snap.pending \cap cancelIds(c) # {}
      /\ lo[Me(c)].sess.active \in cancelIds(c)

CancelChecks(c) ==
  LET s == lo[Me(c)]  f == calls[c].shared
  IN  /\ At(c, "cancel", "checks")
      /\ IF attributed(c)
         THEN /\ Writes([f EXCEPT !.cancel = [turn |-> calls[c].id,
                                              awaiting |-> calls[c].id \notin s.official /\ s.seen = {},
                                              official |-> s.seen],
                                  !.rejected = @ \cup cancelIds(c)])
              /\ Go(c, "post")
              /\ UNCHANGED lease
         ELSE Leave(c) /\ UNCHANGED fence
      /\ UNCHANGED <<srv, lo, stream, quota, hist>>

\* To an interrupt or a stop, all failures but a denial are alike: it may have been handled.
Outcome(answer) == IF answer \in {"ok", "denied"} THEN answer ELSE "lost"

\* The server interrupts whatever runs; it says so even if nothing does.
PostInterrupt(c, answer) ==
  LET running == {t \in Turns : server[t] = "active"}
  IN  /\ At(c, "cancel", "post")
      /\ \E handled \in BOOLEAN :
           /\ answer = "ok" => handled
           /\ answer = "denied" => ~handled
           /\ IF handled
              THEN /\ server' = [t \in Turns |-> IF t \in running THEN "interrupted" ELSE server[t]]
                   /\ Emit(IF running = {} THEN Frame("interrupted", NoId)
                           ELSE Frame("cancelled", CHOOSE t \in running : TRUE)
                                  \o Frame("interrupted", NoId))
              ELSE UNCHANGED <<server, stream>>
      /\ calls' = [calls EXCEPT ![c].pc = "answer", ![c].answer = Outcome(answer)]
      /\ UNCHANGED <<fence, lease, kind, backlog, log, stopped, lo, quota, hist>>

\* What is left of cancelTurnWithExclusiveLease once the fence is written.
cancelled(s, id, proof) ==
  LET r == retireCancelledTurn([s EXCEPT !.turns = @ \cup {id}], id, proof)
  IN  [r EXCEPT !.sess = IF @.active = id THEN [state |-> "idle", active |-> NoId] ELSE @]

\* As lifted, back to what was rejected before the cancellation.
liftedAsRead(f, rejected) == [f EXCEPT !.cancel = NoCancel, !.closing = FALSE]

\* The fence without its cancellation, once the proof has come.
lifted(f, rejected) == [f EXCEPT !.cancel = NoCancel, !.closing = FALSE, !.rejected = rejected]

\* After an answer that is no denial the interrupt may have been handled: the fence
\* stays, and the call fails unless the answer was ok.
CancelAnswer(c) ==
  LET id == calls[c].id
      s  == lo[Me(c)]
      f  == calls[c].shared
      rejected == f.rejected \cup cancelIds(c)
      told == rejectIds(s, s.seen)
      keep(awaiting) == [f EXCEPT !.cancel = [turn |-> id, awaiting |-> awaiting, official |-> s.seen],
                                  !.rejected = rejected]
  IN  /\ At(c, "cancel", "answer")
      /\ \/ /\ calls[c].answer = "ok" /\ (s.early \/ s.seen # {})
            /\ Local(Me(c), told)
            /\ Writes(IF s.early THEN lifted(f, rejected) ELSE keep(FALSE))
            /\ calls' = [calls EXCEPT ![c].pc = "written", ![c].proof = s.early]
            /\ UNCHANGED <<lease, returned>>
         \/ /\ calls[c].answer = "ok" /\ ~s.early /\ s.seen = {}
            /\ Local(Me(c), cancelled(s, id, FALSE))
            /\ returned' = returned \cup {<<calls[c].turn, id>>}
            /\ Leave(c)
            /\ UNCHANGED fence
         \/ /\ calls[c].answer = "denied"
            /\ Writes(f)
            /\ calls' = [calls EXCEPT ![c].pc = "restored", ![c].proof = s.seen # {}]
            /\ UNCHANGED <<lease, lo, returned>>
         \/ /\ calls[c].answer = "lost"
            /\ Writes(keep(s.seen = {}))
            /\ Leave(c)
            /\ UNCHANGED <<lo, returned>>
      /\ UNCHANGED <<srv, stream, quota, proved>>

\* The write of the fence has returned: proof was read before it began.
CancelWritten(c) ==
  /\ At(c, "cancel", "written")
  /\ Local(Me(c), cancelled(lo[Me(c)], calls[c].id, calls[c].proof))
  /\ returned' = returned \cup {<<calls[c].turn, calls[c].id>>}
  /\ Leave(c)
  /\ UNCHANGED <<fence, srv, stream, quota, proved>>

\* The interrupt was denied and the fence is as it was.  The set of ids seen is
\* the live one only if it existed before the write.
CancelRestored(c) ==
  LET s    == lo[Me(c)]
      seen == IF calls[c].proof THEN s.seen ELSE {}
      free == [s EXCEPT !.reserved = NoId]
  IN  /\ At(c, "cancel", "restored")
      /\ Local(Me(c), FoldSet(LAMBDA o, r : reconcileTurn(r, calls[c].id, o), free, seen))
      /\ Leave(c)
      /\ UNCHANGED <<fence, srv, stream, quota, hist>>

(***************************************************************************)
(* closeSession.                                                             *)
(***************************************************************************)
CloseSession(c, p) ==
  /\ quota.close > 0
  /\ Call(c, "close", p)
  /\ quota' = [quota EXCEPT !.close = @ - 1]
  /\ UNCHANGED <<fence, lease, srv, lo, stream, hist>>

CloseEnter(c) ==
  /\ At(c, "close", "lease")
  /\ lease = NoSlot
  /\ Local(Me(c), install(lo[Me(c)], fence))
  /\ IF fence.cancel # NoCancel \/ fence.closed THEN Return(c) /\ UNCHANGED fence
     ELSE /\ lease' = c
          /\ Writes([fence EXCEPT !.closing = TRUE])
          /\ calls' = [calls EXCEPT ![c].pc = "post", ![c].shared = fence]
  /\ UNCHANGED <<srv, stream, quota, hist>>

\* The server stops the session and what runs in it.
PostStop(c, answer) ==
  LET running == {t \in Turns : server[t] = "active"}
  IN  /\ At(c, "close", "post")
      /\ \E handled \in BOOLEAN :
           /\ answer = "ok" => handled
           /\ answer = "denied" => ~handled
           /\ IF handled
              THEN /\ stopped' = TRUE
                   /\ server' = [t \in Turns |-> IF t \in running THEN "interrupted" ELSE server[t]]
                   /\ Emit(IF running = {} THEN <<>>
                           ELSE Frame("cancelled", CHOOSE t \in running : TRUE))
              ELSE UNCHANGED <<stopped, server, stream>>
      /\ calls' = [calls EXCEPT ![c].pc = "answer", ![c].answer = Outcome(answer)]
      /\ UNCHANGED <<fence, lease, kind, backlog, log, lo, quota, hist>>

CloseAnswer(c) ==
  LET s == lo[Me(c)]  f == calls[c].shared
  IN  /\ At(c, "close", "answer")
      /\ \/ /\ calls[c].answer = "ok"
            /\ Writes([f EXCEPT !.closing = FALSE, !.closed = TRUE])
            /\ Local(Me(c), [s EXCEPT !.sess = IF @.state = "untracked" THEN @
                                              ELSE [state |-> "closed", active |-> NoId]])
         \/ calls[c].answer = "denied" /\ Writes(f) /\ UNCHANGED lo
         \/ calls[c].answer = "lost" /\ UNCHANGED <<fence, lo>>
      /\ Return(c)
      /\ UNCHANGED <<srv, stream, quota, hist>>

(***************************************************************************)
(* getSessionInfo and readHistory: the lease is held for the read of the     *)
(* fence only, and what was read is installed after it was given back.       *)
(***************************************************************************)
Read(c, k, p) ==
  /\ quota.read > 0
  /\ k = "info" => lo[p].sess.state # "untracked"
  /\ Call(c, k, p)
  /\ quota' = [quota EXCEPT !.read = @ - 1]
  /\ UNCHANGED <<fence, lease, srv, lo, stream, hist>>

ReadEnter(c) ==
  /\ At(c, "info", "lease") \/ At(c, "history", "lease")
  /\ lease = NoSlot
  /\ calls' = [calls EXCEPT ![c].pc = "install", ![c].shared = fence]
  /\ UNCHANGED <<fence, lease, srv, lo, stream, quota, hist>>

ReadInstall(c) ==
  /\ At(c, "info", "install") \/ At(c, "history", "install")
  /\ Local(Me(c), install(lo[Me(c)], calls[c].shared))
  /\ calls' = [calls EXCEPT ![c].pc = IF calls[c].kind = "info" THEN "snapshot" ELSE "items",
                            ![c].shared = NoId]
  /\ UNCHANGED <<fence, lease, srv, stream, quota, hist>>

GetHistory(c) ==
  /\ At(c, "history", "items")
  /\ calls' = [calls EXCEPT ![c].pc = "snapshot", ![c].items = History]
  /\ UNCHANGED <<fence, lease, srv, lo, stream, quota, hist>>

InfoAnswer(c) ==
  /\ At(c, "info", "checks")
  /\ Local(Me(c), refreshTrackedSession(lo[Me(c)], calls[c].snap))
  /\ Return(c)
  /\ UNCHANGED <<fence, srv, stream, quota, hist>>

HistoryAnswer(c) ==
  LET k == calls[c]
      s == synchronize(lo[Me(c)], k.items, k.snap, FALSE)
  IN  /\ At(c, "history", "checks")
      /\ Local(Me(c), applyMappedHistoryState(refreshTrackedSession(s, k.snap), k.items))
      /\ Return(c)
      /\ UNCHANGED <<fence, srv, stream, quota, hist>>

(***************************************************************************)
(* streamEvents: connect, read the fence and install it, read history and    *)
(* snapshot, then handle the frames one by one.                              *)
(***************************************************************************)
Connect(p) ==
  /\ quota.open[p] > 0
  /\ stream[p].pc = "off"
  /\ stream' = [stream EXCEPT ![p] = [NoStream EXCEPT !.pc = "lease"]]
  /\ Local(p, [lo[p] EXCEPT !.open = TRUE, !.n = N!NewNormalizer, !.started = {}])
  /\ quota' = [quota EXCEPT !.open[p] = @ - 1]
  /\ UNCHANGED <<fence, lease, srv, calls, hist>>

StreamEnter(p) ==
  /\ stream[p].pc = "lease"
  /\ lease = NoSlot
  /\ stream' = [stream EXCEPT ![p].pc = "install", ![p].shared = fence]
  /\ UNCHANGED <<fence, lease, srv, lo, calls, quota, hist>>

StreamInstall(p) ==
  LET s  == install(lo[p], stream[p].shared)
      n1 == FoldSet(LAMBDA i, n : N!quarantineFallbackTurnId(n, i),
                    N!rejectTurnIds(s.n, s.rejected \ s.quarantine),
                    s.rejected \cap s.quarantine)
      n2 == FoldLeft(LAMBDA n, i : N!setFallbackTurnId(n, i), n1, s.order)
  IN  /\ stream[p].pc = "install"
      /\ Local(p, [s EXCEPT !.n = n2])
      /\ stream' = [stream EXCEPT ![p].pc = "items", ![p].shared = NoId,
                                  ![p].prior = IF s.order = <<>> THEN s.sess.active ELSE NoId]
      /\ UNCHANGED <<fence, lease, srv, calls, quota, hist>>

StreamItems(p) ==
  /\ stream[p].pc = "items"
  /\ stream' = [stream EXCEPT ![p].pc = "snapshot", ![p].items = History]
  /\ UNCHANGED <<fence, lease, srv, lo, calls, quota, hist>>

StreamSnapshot(p) ==
  /\ stream[p].pc = "snapshot"
  /\ stream' = [stream EXCEPT ![p].pc = "sync", ![p].snap = Snapshot]
  /\ UNCHANGED <<fence, lease, srv, lo, calls, quota, hist>>

StreamSync(p) ==
  LET st   == stream[p]
      snap == st.snap
      s    == synchronize(lo[p], st.items, snap, TRUE)
      n1   == N!removeFallbackTurnIds(s.n,
                (snap.pending \ s.quarantine)
                  \cup IF snap.pending = {} THEN {}
                       ELSE (ToSet(s.order) \cap s.queuedOnly) \ s.quarantine)
      n2   == IF snap.active \in s.turns THEN N!bindResponseId(n1, snap.active, snap.active) ELSE n1
      n3   == N!setActiveResponseId(n2, N!Defined(snap.active, st.prior))
      r    == refreshTrackedSession([s EXCEPT !.n = n3, !.started = {Resp(i.t) : i \in ToSet(st.items)}],
                                    snap)
  IN  /\ st.pc = "sync"
      /\ Local(p, applyMappedHistoryState(r, st.items))
      /\ stream' = [stream EXCEPT ![p].pc = "live", ![p].snap = NoSnap, ![p].prior = NoId]
      /\ UNCHANGED <<fence, lease, srv, calls, quota, hist>>

\* A connection may end at any point, and the consumer opens another.
Disconnect(p) ==
  /\ stream[p].pc # "off"
  /\ quota.open[p] > 0
  /\ stream' = [stream EXCEPT ![p] = NoStream]
  /\ Local(p, [lo[p] EXCEPT !.open = FALSE, !.n = N!NewNormalizer, !.started = {}])
  /\ UNCHANGED <<fence, lease, srv, calls, quota, hist>>

(***************************************************************************)
(* A frame.  Its handling may stop twice for the lease: to reopen the fence  *)
(* of a cancelled input that was consumed after all, and to resolve a fence. *)
(***************************************************************************)
terminalFrame(type) == type \in {"completed", "cancelled"}

\* session.input.consumed, about the item of turn t.
recordConsumedPendingItem(s, t, items) ==
  LET id == Ack(t)
      q  == [s EXCEPT !.quarantine = @ \cup {id}, !.awaiting = @ \cup {id}]
      m  == [s EXCEPT !.items[t] = id]
  IN  IF id \in s.rejected \cup s.quarantine
      THEN onStream(q, N!quarantineFallbackTurnId(q.n, id))
      ELSE IF \E i \in ToSet(items) : i.t = t
      THEN reconcileTurn(onStream(m, N!bindResponseId(m.n, Resp(t), id)), id, Resp(t))
      ELSE onStream(m, N!setFallbackTurnId(m.n, id))

isCancellationTerminal(ev) == ev.type = "cancelled"

provesCancellation(s, ev) ==
  /\ s.reserved # NoId
  /\ \/ ev.type = "interrupted"
     \/ isCancellationTerminal(ev) /\ s.reserved \in {ev.alias, ev.turn}

\* The quarantined turn the event is about.
quarantined(s, ev) ==
  IF ev.alias \in s.quarantine THEN ev.alias
  ELSE IF ev.turn \in s.quarantine THEN ev.turn
  ELSE IF ev.type = "interrupted" /\ Cardinality(s.quarantine) = 1
  THEN CHOOSE id \in s.quarantine : TRUE
  ELSE NoId

namesOfficial(id, ev) == ev.confirmed /\ ev.alias = id /\ ev.turn \notin {id, NoId}

\* The event settles the quarantine of the turn it is about.
settles(s, ev) ==
  LET id == quarantined(s, ev)
  IN  /\ id # NoId
      /\ id \in s.awaiting => ev.type = "interrupted" \/ namesOfficial(id, ev)

consumeCancelledTurnQuarantine(s, ev) ==
  LET id   == quarantined(s, ev)
      turn == {ev.turn} \ {NoId}
      seen == [s EXCEPT !.early = @ \/ provesCancellation(s, ev)]
      r    == [seen EXCEPT !.official = @ \cup (IF namesOfficial(id, ev) THEN turn ELSE {}),
                           !.awaiting = @ \ {id}, !.quarantine = @ \ {id},
                           !.rejected = @ \cup turn]
  IN  IF ~settles(s, ev) THEN seen
      ELSE onStream(r, N!rejectTurnIds(N!removeFallbackTurnIds(r.n, {id}), turn))

eventIsRejected(s, ev) == {ev.turn, ev.alias} \cap s.rejected # {}

\* eventConcernsActiveTurn
concernsActiveTurn(s, ev) ==
  N!Defined(s.sess.active, s.latest) \in {NoId, ev.alias, ev.turn}

\* The frames of a response count only if the mapper makes an event of them:
\* it makes none of a start it has told before.
mutates(s, ev) == ev.type # "created" \/ ev.turn \notin s.started

\* The event is mapped and changes the state of the session.
apply(s, ev) ==
  LET r == IF ev.alias # NoId /\ ev.turn # NoId /\ ev.confirmed
           THEN reconcileTurn(s, ev.alias, ev.turn) ELSE s
      m == [r EXCEPT !.started = IF ev.type = "created" THEN @ \cup {ev.turn} ELSE @,
                     !.latest = IF /\ mutates(s, ev) /\ ev.type = "created" /\ ev.turn # NoId
                                   /\ ev.alias = NoId /\ r.sess.active = NoId
                                THEN ev.turn ELSE @]
      concerns == concernsActiveTurn(m, ev)
      retired  == retireCandidate(m, ev.turn)
  IN  CASE ~mutates(s, ev) -> m
        [] mutates(s, ev) /\ terminalFrame(ev.type) -> IF concerns THEN clearActiveTurn(retired) ELSE retired
        [] mutates(s, ev) /\ ~terminalFrame(ev.type) ->
             IF concerns /\ ev.turn # NoId THEN setActiveTurn(m, ev.turn) ELSE m

\* The last part of the handling of ev, after any fence it settled is resolved.
finish(s, ev) == IF eventIsRejected(s, ev) THEN s ELSE apply(s, ev)

\* From the quarantine on: wait for the lease if the event settles one.
Proceed(p, s, ev, queue) ==
  LET q == consumeCancelledTurnQuarantine(s, ev)
  IN  IF settles(s, ev)
      THEN /\ Local(p, q)
           /\ stream' = [stream EXCEPT ![p].pc = "resolve", ![p].ev = ev, ![p].queue = queue,
                                       ![p].done = quarantined(s, ev)]
      ELSE /\ Local(p, finish(q, ev))
           /\ stream' = [stream EXCEPT ![p].pc = "live", ![p].ev = NoEvent, ![p].queue = queue]

Deliver(p) ==
  LET st == stream[p]
      f  == Head(st.queue)
      r  == IF f.type \in {"consumed", "interrupted"} THEN NoId ELSE Resp(f.t)
      v  == N!normalize(lo[p].n, r, terminalFrame(f.type))
      ev == [type |-> f.type, of |-> f.t, turn |-> v.turn, alias |-> v.alias,
             confirmed |-> v.confirmed]
      s  == [lo[p] EXCEPT !.n = v.n]
      late == Ack(f.t) \in s.rejected \cup s.quarantine
  IN  /\ st.pc = "live"
      /\ st.queue # <<>>
      /\ IF f.type = "consumed"
         THEN IF late
              THEN /\ Local(p, recordConsumedPendingItem(s, f.t, st.items))
                   /\ stream' = [stream EXCEPT ![p].pc = "reopen", ![p].ev = ev,
                                               ![p].queue = Tail(@)]
              ELSE Proceed(p, recordConsumedPendingItem(s, f.t, st.items), ev, Tail(st.queue))
         ELSE Proceed(p, s, ev, Tail(st.queue))
      /\ proved' = IF /\ f.type = "interrupted"
                      /\ \E c \in Slots : lease = c /\ calls[c].kind = "cancel" /\ Me(c) = p
                   THEN proved \cup ({fence.cancel.turn} \ {NoId}) ELSE proved
      /\ UNCHANGED <<fence, lease, srv, calls, quota, returned>>

\* As reopened, in a closed session too.
reopenedAnyway(f, id) ==
  IF f.cancel # NoCancel THEN f
  ELSE [f EXCEPT !.cancel = [turn |-> id, awaiting |-> TRUE, official |-> {}],
                 !.rejected = @ \cup {id}]

reopened(f, id) ==
  IF f.closed \/ f.closing \/ f.cancel # NoCancel THEN f
  ELSE [f EXCEPT !.cancel = [turn |-> id, awaiting |-> TRUE, official |-> {}],
                 !.rejected = @ \cup {id}]

resolved(f, id, official) ==
  IF f.cancel.turn # id THEN f ELSE lifted(f, f.rejected \cup ({id, official} \ {NoId}))

ReopenFence(p) ==
  LET ev == stream[p].ev
  IN  /\ stream[p].pc = "reopen"
      /\ lease = NoSlot
      /\ Writes(reopened(fence, Ack(ev.of)))
      /\ Proceed(p, lo[p], ev, stream[p].queue)
      /\ proved' = proved \ {Ack(ev.of)}
      /\ UNCHANGED <<lease, srv, calls, quota, returned>>

ResolveFence(p) ==
  LET ev == stream[p].ev
  IN  /\ stream[p].pc = "resolve"
      /\ lease = NoSlot
      /\ Writes(resolved(fence, stream[p].done, ev.turn))
      /\ Local(p, finish(lo[p], ev))
      /\ stream' = [stream EXCEPT ![p].pc = "live", ![p].ev = NoEvent, ![p].done = NoId]
      /\ UNCHANGED <<lease, srv, calls, quota, hist>>

(***************************************************************************)
(* The server runs one turn at a time.                                       *)
(***************************************************************************)
Start(t) ==
  /\ backlog # <<>> /\ ~stopped
  /\ t = Head(backlog)
  /\ \A u \in Turns : server[u] # "active"
  /\ backlog' = Tail(backlog)
  /\ server' = [server EXCEPT ![t] = "active"]
  /\ log' = Append(log, t)
  /\ Emit((IF kind[t] = "pending" THEN Frame("consumed", t) ELSE <<>>) \o Frame("created", t))
  /\ UNCHANGED <<fence, lease, kind, stopped, lo, calls, quota, hist>>

Complete(t) ==
  /\ server[t] = "active"
  /\ server' = [server EXCEPT ![t] = "completed"]
  /\ Emit(Frame("completed", t))
  /\ UNCHANGED <<fence, lease, kind, backlog, log, stopped, lo, calls, quota, hist>>

Answers == Faults \cup {"ok"}

CallStep(c) ==
  \/ SendEnter(c) \/ SendChecks(c) \/ SendAnswer(c) \/ SendRejected(c) \/ GetSession(c)
  \/ CancelEnter(c) \/ CancelChecks(c) \/ CancelAnswer(c) \/ CancelWritten(c)
  \/ CancelRestored(c) \/ CancelFinally(c)
  \/ CloseEnter(c) \/ CloseAnswer(c)
  \/ ReadEnter(c) \/ ReadInstall(c) \/ GetHistory(c) \/ InfoAnswer(c) \/ HistoryAnswer(c)
  \/ \E a \in Answers : (\E k \in AckKinds : PostMessage(c, k, a)) \/ PostInterrupt(c, a) \/ PostStop(c, a)

StreamStep(p) ==
  \/ StreamEnter(p) \/ StreamInstall(p) \/ StreamItems(p) \/ StreamSnapshot(p) \/ StreamSync(p)
  \/ Deliver(p) \/ ReopenFence(p) \/ ResolveFence(p)

\* What is under way goes on: calls are answered, streams read, the server works.
SystemStep ==
  \/ \E c \in Slots : CallStep(c)
  \/ \E p \in Providers : StreamStep(p)
  \/ \E t \in Turns : Start(t) \/ Complete(t)

Next ==
  \/ \E c \in Slots, p \in Providers :
       \/ \E t \in Turns : SendTurn(c, p, t) \/ CancelTurn(c, p, t)
       \/ CloseSession(c, p)
       \/ \E k \in {"info", "history"} : Read(c, k, p)
  \/ \E p \in Providers : Connect(p) \/ Disconnect(p)
  \/ SystemStep

Spec == Init /\ [][Next]_vars

-----------------------------------------------------------------------------
\* sendTurn posts a message only while no cancellation awaits its proof and the
\* session is neither closed nor closing: the check was made at the entry, and
\* the fence is written by others' streams and calls.
WritersFenced ==
  \A c \in Slots : At(c, "send", "post") =>
                     fence.cancel = NoCancel /\ ~fence.closed /\ ~fence.closing

\* cancelTurn's interrupt names no turn, so cancelTurn sends it only after the
\* snapshot and the local state give it to the turn being cancelled: the response
\* that runs when the interrupt reaches the server, if any, is of that turn,
\* whatever else was sent, consumed or completed since its handle was given out.
InterruptHitsOwnTurn ==
  \A c \in Slots : At(c, "cancel", "post") =>
                     \A t \in Turns : server[t] = "active" => t = calls[c].turn

\* A pending cancellation excludes closing and closed, whatever order cancelTurn,
\* closeSession and reopenSharedCancellationFence write in: the writes that lift
\* a cancellation carry no closing flag over.
FencesExclusive == fence.cancel # NoCancel => ~fence.closed /\ ~fence.closing

\* The id that cancelTurn returned a turn as cancelled under stays a tombstone in
\* the shared fence, which calls overwrite with what they read before.
CancelledStaysRejected == \A r \in returned : r[2] \in fence.rejected

\* reconcileTurn never gives a handle the response of another turn, whether the
\* pairing came from a frame, from history or from a snapshot.
RightResponse ==
  \A p \in Providers, t, u \in Turns : lo[p].handle[t] = Resp(u) => t = u

\* Proof of a cancellation that a stream reads while cancelTurn holds the lease is
\* retained: cancelTurn or resolveSharedCancellationFence lifts the fence, so
\* that with no call under way and no frame left to read, no fence stays whose
\* proof was read.
Quiet == /\ \A c \in Slots : calls[c] = NoCall
         /\ \A p \in Providers : stream[p].pc \in {"off", "live"} /\ stream[p].queue = <<>>
ProofLiftsFence == Quiet => fence.cancel.turn \notin proved
=============================================================================
