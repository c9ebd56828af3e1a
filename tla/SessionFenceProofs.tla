------------------------- MODULE SessionFenceProofs -------------------------
(***************************************************************************)
(* Proofs about the shared fence of SessionFence, for any number of         *)
(* providers, calls, streams and turns.  Of what a provider remembers the   *)
(* argument uses only the quarantine it installs from the fence: a call     *)
(* that checked the fence, or read it to write it back, holds the lease     *)
(* until it gives it back, and whoever else writes does so while no call does. *)
(***************************************************************************)
EXTENDS SessionFence, TLAPS

-----------------------------------------------------------------------------
(* What is remembered and what is streamed keep their shape *)

\* The frames the server sends: only an interruption names no turn.
Frames == [type : {"consumed", "created", "completed", "cancelled"}, t : Turns]
            \cup [type : {"interrupted"}, t : {NoId}]

\* What a provider remembers has the quarantine among its fields.
LocalOK ==
  /\ DOMAIN lo = Providers
  /\ \A p \in Providers : "quarantine" \in DOMAIN lo[p]

\* A stream reads the server's frames, and reopens a fence for a turn.
StreamOK ==
  /\ DOMAIN stream = Providers
  /\ \A p \in Providers :
       /\ DOMAIN stream[p] = DOMAIN NoStream
       /\ stream[p].queue \in Seq(Frames)
       /\ stream[p].pc = "reopen" => stream[p].ev.of \in Turns

\* Whoever writes what a provider remembers keeps its fields.
LEMMA LocalStep ==
  ASSUME LocalOK, lo' = lo \/ \E p, s : Local(p, s)
  PROVE  LocalOK'
<1>1. CASE lo' = lo
  BY <1>1 DEF LocalOK
<1>2. ASSUME NEW p, NEW s, Local(p, s) PROVE LocalOK'
  BY <1>2 DEF LocalOK, Local
<1>3. QED
  BY <1>1, <1>2

\* A step of one stream.
LEMMA StreamSelf ==
  ASSUME StreamOK, NEW p \in Providers, NEW k, stream' = [stream EXCEPT ![p] = k],
         DOMAIN k = DOMAIN NoStream, k.queue \in Seq(Frames),
         k.pc = "reopen" => k.ev.of \in Turns
  PROVE  StreamOK'
BY DEF StreamOK

\* The server sends frames to the open streams.
LEMMA EmitStep ==
  ASSUME StreamOK, NEW frames \in Seq(Frames), Emit(frames)
  PROVE  StreamOK'
<1>1. ASSUME NEW p \in Providers
      PROVE  /\ DOMAIN stream'[p] = DOMAIN NoStream
             /\ stream'[p].queue \in Seq(Frames)
             /\ stream'[p].pc = "reopen" => stream'[p].ev.of \in Turns
  <2>1. CASE lo[p].open
    <3>1. stream'[p] = [stream[p] EXCEPT !.queue = @ \o frames]
      BY <2>1 DEF Emit
    <3>2. stream[p].queue \o frames \in Seq(Frames)
      BY DEF StreamOK
    <3>3. QED
      BY <3>1, <3>2 DEF StreamOK, NoStream
  <2>2. CASE ~lo[p].open
    BY <2>2 DEF StreamOK, Emit
  <2>3. QED
    BY <2>1, <2>2
<1>2. DOMAIN stream' = Providers
  BY DEF Emit
<1>3. QED
  BY <1>1, <1>2 DEF StreamOK

\* What Frame builds is a frame.
LEMMA FrameType ==
  ASSUME NEW t \in Turns, NEW type \in {"consumed", "created", "completed", "cancelled"}
  PROVE  Frame(type, t) \in Seq(Frames)
<1>1. [type |-> type, t |-> t] \in Frames
  BY DEF Frames
<1>2. QED
  BY <1>1 DEF Frame

\* The same of the interruption.
LEMMA InterruptFrame == Frame("interrupted", NoId) \in Seq(Frames)
<1>1. [type |-> "interrupted", t |-> NoId] \in Frames
  BY DEF Frames
<1>2. QED
  BY <1>1 DEF Frame

\* A step of a call that sends no frame.
LEMMA CallKeepsBase ==
  ASSUME LocalOK, StreamOK, NEW c \in Slots,
         \/ \E p \in Providers :
              \/ \E t \in Turns : SendTurn(c, p, t) \/ CancelTurn(c, p, t)
              \/ CloseSession(c, p)
              \/ \E k \in {"info", "history"} : Read(c, k, p)
         \/ SendEnter(c) \/ SendChecks(c) \/ SendAnswer(c) \/ SendRejected(c) \/ GetSession(c)
         \/ CancelEnter(c) \/ CancelChecks(c) \/ CancelAnswer(c) \/ CancelWritten(c)
         \/ CancelRestored(c) \/ CancelFinally(c)
         \/ CloseEnter(c) \/ CloseAnswer(c)
         \/ ReadEnter(c) \/ ReadInstall(c) \/ GetHistory(c) \/ InfoAnswer(c) \/ HistoryAnswer(c)
         \/ \E k \in AckKinds, a \in Answers : PostMessage(c, k, a)
  PROVE  LocalOK' /\ StreamOK'
<1>1. stream' = stream => StreamOK'
  BY DEF StreamOK
<1>2. ASSUME NEW p \in Providers,
             \/ \E t \in Turns : SendTurn(c, p, t) \/ CancelTurn(c, p, t)
             \/ CloseSession(c, p)
             \/ \E k \in {"info", "history"} : Read(c, k, p)
      PROVE  stream' = stream /\ (lo' = lo \/ \E q, s : Local(q, s))
  BY <1>2, Zenon DEF SendTurn, CancelTurn, CloseSession, Read
<1>3. ASSUME SendEnter(c) \/ SendChecks(c) \/ SendAnswer(c) \/ SendRejected(c) \/ GetSession(c)
      PROVE  stream' = stream /\ (lo' = lo \/ \E q, s : Local(q, s))
  BY <1>3, Zenon DEF SendEnter, SendChecks, SendAnswer, SendRejected, GetSession, Register
<1>4. ASSUME CancelEnter(c) \/ CancelChecks(c) \/ CancelWritten(c)
             \/ CancelRestored(c) \/ CancelFinally(c)
      PROVE  stream' = stream /\ (lo' = lo \/ \E q, s : Local(q, s))
  BY <1>4, Zenon DEF CancelEnter, CancelChecks, CancelWritten, CancelRestored, CancelFinally
<1>5. ASSUME CancelAnswer(c)
      PROVE  stream' = stream /\ (lo' = lo \/ \E q, s : Local(q, s))
  BY <1>5, Zenon DEF CancelAnswer
<1>6. ASSUME CloseEnter(c) \/ CloseAnswer(c)
      PROVE  stream' = stream /\ (lo' = lo \/ \E q, s : Local(q, s))
  BY <1>6, Zenon DEF CloseEnter, CloseAnswer
<1>7. ASSUME ReadEnter(c) \/ ReadInstall(c) \/ GetHistory(c) \/ InfoAnswer(c) \/ HistoryAnswer(c)
      PROVE  stream' = stream /\ (lo' = lo \/ \E q, s : Local(q, s))
  BY <1>7, Zenon DEF ReadEnter, ReadInstall, GetHistory, InfoAnswer, HistoryAnswer
<1>8. ASSUME \E k \in AckKinds, a \in Answers : PostMessage(c, k, a)
      PROVE  stream' = stream /\ (lo' = lo \/ \E q, s : Local(q, s))
  BY <1>8, Zenon DEF PostMessage
<1>9. QED
  BY <1>1, <1>2, <1>3, <1>4, <1>5, <1>6, <1>7, <1>8, LocalStep

\* The server's steps, and the calls that make it send frames.
LEMMA ServerKeepsBase ==
  ASSUME LocalOK, StreamOK,
         \/ \E c \in Slots, a \in Answers : PostInterrupt(c, a) \/ PostStop(c, a)
         \/ \E t \in Turns : Start(t) \/ Complete(t)
  PROVE  LocalOK' /\ StreamOK'
<1> DEFINE running == {t \in Turns : server[t] = "active"}
<1>1. running # {} => (CHOOSE t \in running : TRUE) \in Turns
  OBVIOUS
<1> HIDE DEF running
<1>2. ASSUME NEW c \in Slots, NEW a \in Answers, PostInterrupt(c, a) PROVE LocalOK' /\ StreamOK'
  <2>1. lo' = lo
    BY <1>2 DEF PostInterrupt
  <2>2. \/ stream' = stream
        \/ Emit(IF running = {} THEN Frame("interrupted", NoId)
                ELSE Frame("cancelled", CHOOSE t \in running : TRUE) \o Frame("interrupted", NoId))
    BY <1>2, Zenon DEF PostInterrupt, running
  <2>3. (IF running = {} THEN Frame("interrupted", NoId)
         ELSE Frame("cancelled", CHOOSE t \in running : TRUE) \o Frame("interrupted", NoId))
          \in Seq(Frames)
    <3>1. running # {} => Frame("cancelled", CHOOSE t \in running : TRUE) \in Seq(Frames)
      BY <1>1, FrameType
    <3>2. QED
      BY <3>1, InterruptFrame
  <2>4. CASE stream' = stream
    BY <2>1, <2>4 DEF StreamOK, LocalOK
  <2>5. QED
    BY <2>1, <2>2, <2>3, <2>4, EmitStep, LocalStep
<1>3. ASSUME NEW c \in Slots, NEW a \in Answers, PostStop(c, a) PROVE LocalOK' /\ StreamOK'
  <2>1. lo' = lo
    BY <1>3 DEF PostStop
  <2>2. \/ stream' = stream
        \/ Emit(IF running = {} THEN <<>> ELSE Frame("cancelled", CHOOSE t \in running : TRUE))
    BY <1>3, Zenon DEF PostStop, running
  <2>3. (IF running = {} THEN <<>> ELSE Frame("cancelled", CHOOSE t \in running : TRUE))
          \in Seq(Frames)
    <3>1. running # {} => Frame("cancelled", CHOOSE t \in running : TRUE) \in Seq(Frames)
      BY <1>1, FrameType
    <3>2. QED
      BY <3>1
  <2>4. CASE stream' = stream
    BY <2>1, <2>4 DEF StreamOK, LocalOK
  <2>5. QED
    BY <2>1, <2>2, <2>3, <2>4, EmitStep, LocalStep
<1>4. ASSUME NEW t \in Turns, Start(t) PROVE LocalOK' /\ StreamOK'
  <2>1. /\ lo' = lo
        /\ Emit((IF kind[t] = "pending" THEN Frame("consumed", t) ELSE <<>>) \o Frame("created", t))
    BY <1>4 DEF Start
  <2>2. (IF kind[t] = "pending" THEN Frame("consumed", t) ELSE <<>>) \o Frame("created", t)
          \in Seq(Frames)
    <3>1. Frame("consumed", t) \in Seq(Frames) /\ Frame("created", t) \in Seq(Frames)
      BY FrameType
    <3>2. QED
      BY <3>1
  <2>3. QED
    BY <2>1, <2>2, EmitStep, LocalStep
<1>5. ASSUME NEW t \in Turns, Complete(t) PROVE LocalOK' /\ StreamOK'
  <2>1. lo' = lo /\ Emit(Frame("completed", t))
    BY <1>5 DEF Complete
  <2>2. Frame("completed", t) \in Seq(Frames)
    BY FrameType
  <2>3. QED
    BY <2>1, <2>2, EmitStep, LocalStep
<1>6. QED
  BY <1>2, <1>3, <1>4, <1>5

\* The handling of a frame from the quarantine on.
LEMMA ProceedKeepsBase ==
  ASSUME LocalOK, StreamOK, NEW p \in Providers, NEW s, NEW ev, NEW queue \in Seq(Frames),
         Proceed(p, s, ev, queue)
  PROVE  LocalOK' /\ StreamOK'
<1>1. DOMAIN stream[p] = DOMAIN NoStream
  BY DEF StreamOK
<1>2. CASE settles(s, ev)
  <2> DEFINE k == [stream[p] EXCEPT !.pc = "resolve", !.ev = ev, !.queue = queue,
                                    !.done = quarantined(s, ev)]
  <2>1. stream' = [stream EXCEPT ![p] = k] /\ \E q, r : Local(q, r)
    BY <1>2, Zenon DEF Proceed, StreamOK
  <2>2. DOMAIN k = DOMAIN NoStream /\ k.queue \in Seq(Frames) /\ k.pc # "reopen"
    BY <1>1 DEF NoStream
  <2> HIDE DEF k
  <2>3. QED
    BY <2>1, <2>2, StreamSelf, LocalStep
<1>3. CASE ~settles(s, ev)
  <2> DEFINE k == [stream[p] EXCEPT !.pc = "live", !.ev = NoEvent, !.queue = queue]
  <2>1. stream' = [stream EXCEPT ![p] = k] /\ \E q, r : Local(q, r)
    BY <1>3, Zenon DEF Proceed, StreamOK
  <2>2. DOMAIN k = DOMAIN NoStream /\ k.queue \in Seq(Frames) /\ k.pc # "reopen"
    BY <1>1 DEF NoStream
  <2> HIDE DEF k
  <2>3. QED
    BY <2>1, <2>2, StreamSelf, LocalStep
<1>4. QED
  BY <1>2, <1>3

\* A consumed input names its turn.
LEMMA DeliverKeepsBase ==
  ASSUME LocalOK, StreamOK, NEW p \in Providers, Deliver(p)
  PROVE  LocalOK' /\ StreamOK'
<1> DEFINE f  == Head(stream[p].queue)
           r  == IF f.type \in {"consumed", "interrupted"} THEN NoId ELSE Resp(f.t)
           v  == N!normalize(lo[p].n, r, terminalFrame(f.type))
           ev == [type |-> f.type, of |-> f.t, turn |-> v.turn, alias |-> v.alias,
                  confirmed |-> v.confirmed]
           s  == [lo[p] EXCEPT !.n = v.n]
           k  == [stream[p] EXCEPT !.pc = "reopen", !.ev = ev, !.queue = Tail(stream[p].queue)]
<1>1. stream[p].queue \in Seq(Frames) /\ stream[p].queue # <<>> /\ DOMAIN stream[p] = DOMAIN NoStream
  BY DEF Deliver, StreamOK
<1>2. f \in Frames /\ Tail(stream[p].queue) \in Seq(Frames)
  BY <1>1
<1>3. f.type = "consumed" => f.t \in Turns
  BY <1>2 DEF Frames
<1>4. ev.of = f.t
  OBVIOUS
<1>5. \/ /\ f.type = "consumed" /\ \E q : Local(p, q)
         /\ stream' = [stream EXCEPT ![p].pc = "reopen", ![p].ev = ev, ![p].queue = Tail(@)]
      \/ \E q : Proceed(p, q, ev, Tail(stream[p].queue))
  BY Zenon DEF Deliver
<1> HIDE DEF ev, s, v, r, f
<1>6. CASE \E q : Proceed(p, q, ev, Tail(stream[p].queue))
  BY <1>2, <1>6, ProceedKeepsBase
<1>7. CASE /\ f.type = "consumed" /\ \E q : Local(p, q)
           /\ stream' = [stream EXCEPT ![p].pc = "reopen", ![p].ev = ev, ![p].queue = Tail(@)]
  <2>1. stream' = [stream EXCEPT ![p] = k]
    BY <1>7 DEF StreamOK
  <2>2. DOMAIN k = DOMAIN NoStream /\ k.queue \in Seq(Frames) /\ k.ev.of \in Turns
    BY <1>1, <1>2, <1>3, <1>4, <1>7 DEF NoStream
  <2> HIDE DEF k
  <2>3. QED
    BY <1>7, <2>1, <2>2, StreamSelf, LocalStep
<1>8. QED
  BY <1>5, <1>6, <1>7

\* The steps of a stream that handle no frame's type.
LEMMA StreamKeepsBase ==
  ASSUME LocalOK, StreamOK, NEW p \in Providers,
         \/ Connect(p) \/ Disconnect(p) \/ StreamEnter(p) \/ StreamInstall(p) \/ StreamItems(p)
         \/ StreamSnapshot(p) \/ StreamSync(p) \/ ReopenFence(p) \/ ResolveFence(p)
  PROVE  LocalOK' /\ StreamOK'
<1>1. DOMAIN stream[p] = DOMAIN NoStream /\ stream[p].queue \in Seq(Frames)
  BY DEF StreamOK
<1>2. CASE ReopenFence(p)
  <2>1. Proceed(p, lo[p], stream[p].ev, stream[p].queue)
    BY <1>2, Zenon DEF ReopenFence
  <2>2. QED
    BY <1>1, <2>1, ProceedKeepsBase
<1>3. ASSUME Connect(p) \/ Disconnect(p) PROVE LocalOK' /\ StreamOK'
  <2>1. PICK k : /\ stream' = [stream EXCEPT ![p] = k]
                 /\ k \in {NoStream, [NoStream EXCEPT !.pc = "lease"]}
    BY <1>3 DEF Connect, Disconnect
  <2>2. \E q, s : Local(q, s)
    BY <1>3, Zenon DEF Connect, Disconnect
  <2>3. DOMAIN k = DOMAIN NoStream /\ k.queue \in Seq(Frames) /\ k.pc # "reopen"
    <3>1. DOMAIN k = DOMAIN NoStream /\ k.queue = <<>> /\ k.pc # "reopen"
      BY <2>1 DEF NoStream
    <3>2. QED
      BY <3>1
  <2>4. QED
    BY <2>1, <2>2, <2>3, StreamSelf, LocalStep
<1>4. ASSUME \/ StreamEnter(p) \/ StreamInstall(p) \/ StreamItems(p) \/ StreamSnapshot(p) \/ StreamSync(p)
             \/ ResolveFence(p)
      PROVE  LocalOK' /\ StreamOK'
  <2>1. lo' = lo \/ \E q, s : Local(q, s)
    BY <1>4, Zenon DEF StreamEnter, StreamInstall, StreamItems, StreamSnapshot, StreamSync,
                          ResolveFence
  <2>2. ASSUME NEW k, stream' = [stream EXCEPT ![p] = k], DOMAIN k = DOMAIN stream[p],
               k.queue = stream[p].queue, k.pc # "reopen"
        PROVE  StreamOK'
    BY <1>1, <2>2, StreamSelf
  <2>3. CASE StreamInstall(p)
    <3>1. PICK x : stream' = [stream EXCEPT ![p].pc = "items", ![p].shared = NoId, ![p].prior = x]
      BY <2>3, Zenon DEF StreamInstall
    <3> DEFINE k == [stream[p] EXCEPT !.pc = "items", !.shared = NoId, !.prior = x]
    <3>2. /\ stream' = [stream EXCEPT ![p] = k] /\ DOMAIN k = DOMAIN stream[p]
          /\ k.queue = stream[p].queue /\ k.pc # "reopen"
      BY <1>1, <3>1 DEF StreamOK, NoStream
    <3> HIDE DEF k
    <3>3. QED
      BY <2>1, <2>2, <3>2, LocalStep
  <2>4. CASE StreamItems(p)
    <3> DEFINE k == [stream[p] EXCEPT !.pc = "snapshot", !.items = History]
    <3>1. /\ stream' = [stream EXCEPT ![p] = k] /\ DOMAIN k = DOMAIN stream[p]
          /\ k.queue = stream[p].queue /\ k.pc # "reopen"
      BY <1>1, <2>4 DEF StreamItems, StreamOK, NoStream
    <3> HIDE DEF k
    <3>2. QED
      BY <2>1, <2>2, <3>1, LocalStep
  <2>5. CASE StreamSnapshot(p)
    <3> DEFINE k == [stream[p] EXCEPT !.pc = "sync", !.snap = Snapshot]
    <3>1. /\ stream' = [stream EXCEPT ![p] = k] /\ DOMAIN k = DOMAIN stream[p]
          /\ k.queue = stream[p].queue /\ k.pc # "reopen"
      BY <1>1, <2>5 DEF StreamSnapshot, StreamOK, NoStream
    <3> HIDE DEF k
    <3>2. QED
      BY <2>1, <2>2, <3>1, LocalStep
  <2>6. CASE StreamSync(p)
    <3> DEFINE k == [stream[p] EXCEPT !.pc = "live", !.snap = NoSnap, !.prior = NoId]
    <3>1. stream' = [stream EXCEPT ![p].pc = "live", ![p].snap = NoSnap, ![p].prior = NoId]
      BY <2>6, Zenon DEF StreamSync
    <3>2. /\ stream' = [stream EXCEPT ![p] = k] /\ DOMAIN k = DOMAIN stream[p]
          /\ k.queue = stream[p].queue /\ k.pc # "reopen"
      BY <1>1, <3>1 DEF StreamOK, NoStream
    <3> HIDE DEF k
    <3>3. QED
      BY <2>1, <2>2, <3>2, LocalStep
  <2>7. CASE ResolveFence(p)
    <3> DEFINE k == [stream[p] EXCEPT !.pc = "live", !.ev = NoEvent, !.done = NoId]
    <3>1. stream' = [stream EXCEPT ![p].pc = "live", ![p].ev = NoEvent, ![p].done = NoId]
      BY <2>7, Zenon DEF ResolveFence
    <3>2. /\ stream' = [stream EXCEPT ![p] = k] /\ DOMAIN k = DOMAIN stream[p]
          /\ k.queue = stream[p].queue /\ k.pc # "reopen"
      BY <1>1, <3>1 DEF StreamOK, NoStream
    <3> HIDE DEF k
    <3>3. QED
      BY <2>1, <2>2, <3>2, LocalStep
  <2>8. CASE StreamEnter(p)
    <3> DEFINE k == [stream[p] EXCEPT !.pc = "install", !.shared = fence]
    <3>1. /\ stream' = [stream EXCEPT ![p] = k] /\ DOMAIN k = DOMAIN stream[p]
          /\ k.queue = stream[p].queue /\ k.pc # "reopen"
      BY <1>1, <2>8 DEF StreamEnter, StreamOK, NoStream
    <3> HIDE DEF k
    <3>2. QED
      BY <2>1, <2>2, <3>1, LocalStep
  <2>9. QED
    BY <1>4, <2>3, <2>4, <2>5, <2>6, <2>7, <2>8
<1>5. QED
  BY <1>2, <1>3, <1>4

\* The same, of any step.
LEMMA ShapeKeeps ==
  ASSUME LocalOK, StreamOK, [Next]_vars
  PROVE  LocalOK' /\ StreamOK'
<1>1. ASSUME NEW c \in Slots, NEW p \in Providers,
             \/ \E t \in Turns : SendTurn(c, p, t) \/ CancelTurn(c, p, t)
             \/ CloseSession(c, p)
             \/ \E k \in {"info", "history"} : Read(c, k, p)
      PROVE  LocalOK' /\ StreamOK'
  BY <1>1, CallKeepsBase, Zenon
<1>2. ASSUME NEW c \in Slots, CallStep(c) PROVE LocalOK' /\ StreamOK'
  BY <1>2, CallKeepsBase, ServerKeepsBase, Zenon DEF CallStep
<1>3. ASSUME NEW p \in Providers, StreamStep(p) \/ Connect(p) \/ Disconnect(p)
      PROVE  LocalOK' /\ StreamOK'
  BY <1>3, StreamKeepsBase, DeliverKeepsBase, Zenon DEF StreamStep
<1>4. ASSUME NEW t \in Turns, Start(t) \/ Complete(t) PROVE LocalOK' /\ StreamOK'
  BY <1>4, ServerKeepsBase
<1>5. CASE UNCHANGED vars
  BY <1>5 DEF vars, LocalOK, StreamOK
<1>6. QED
  BY <1>1, <1>2, <1>3, <1>4, <1>5, Zenon DEF Next, SystemStep

-----------------------------------------------------------------------------
FenceFields == {"cancel", "closed", "closing", "rejected"}

\* A fence that admits a writer.
Unfenced(f) == f.cancel = NoCancel /\ ~f.closed /\ ~f.closing

\* The shape of a fence.
FenceRecord(f) ==
  DOMAIN f = FenceFields /\ f.closed \in BOOLEAN /\ f.closing \in BOOLEAN

\* What a fence must keep of the turns that were returned as cancelled.
Remembers(f) == \A r \in returned : r[2] \in f.rejected

FenceOK ==
  /\ FenceRecord(fence)
  /\ Remembers(fence)
  /\ fence.cancel # NoCancel => ~fence.closed /\ ~fence.closing
  /\ fence.cancel.turn = NoId => fence.cancel = NoCancel

\* A writing call that has the lease: it no longer waits for it and has not given
\* it back.
Inside(c) == /\ calls[c].kind \in {"send", "cancel", "close"}
             /\ calls[c].pc \notin {"lease", "finally"}

\* A call gives the lease back, a cancellation with its finally still to come.
Ends(c) == Return(c) \/ (calls[c].kind = "cancel" /\ Leave(c))

\* A send knows its provider, and a cancellation the id it cancels.  A send inside
\* has seen that the fence admits it; a cancellation and a close
\* write back a fence without cancellation that remembers what was returned; a
\* cancellation has its id among the rejected from its first write on.
CallOK(c) ==
  /\ DOMAIN calls[c] = DOMAIN NoCall
  /\ calls[c].kind = "send" => calls[c].at \in Providers
  /\ calls[c].kind = "cancel" => calls[c].id # NoId
  /\ Inside(c) => lease = c
  /\ At(c, "send", "snapshot") \/ At(c, "send", "checks") \/ At(c, "send", "post")
       => Unfenced(fence)
  /\ Inside(c) /\ calls[c].kind \in {"cancel", "close"}
       => /\ FenceRecord(calls[c].shared) /\ Remembers(calls[c].shared)
          /\ calls[c].shared.cancel = NoCancel
  /\ Inside(c) /\ calls[c].kind = "cancel" => Unfenced(calls[c].shared)
  /\ At(c, "cancel", "post") \/ At(c, "cancel", "answer") \/ At(c, "cancel", "written")
       => calls[c].id \in fence.rejected

FenceInv ==
  /\ DOMAIN calls = Slots
  /\ FenceOK
  /\ \A c \in Slots : CallOK(c)

-----------------------------------------------------------------------------
(* Who may write *)

\* While c holds the lease, or nobody does, no other call depends on the fence.
LEMMA AloneStep ==
  ASSUME FenceInv, NEW c \in Slots, lease \in {c, NoSlot},
         DOMAIN calls' = Slots, \A d \in Slots \ {c} : calls'[d] = calls[d],
         FenceOK', CallOK(c)'
  PROVE  FenceInv'
<1>1. \A d \in Slots \ {c} : ~Inside(d)
  BY FenceAssumption DEF FenceInv, CallOK
<1>2. ASSUME NEW d \in Slots \ {c} PROVE CallOK(d)'
  <2>1. calls'[d] = calls[d] /\ ~Inside(d) /\ CallOK(d)
    BY <1>1 DEF FenceInv
  <2>2. ~Inside(d)'
    BY <2>1 DEF Inside
  <2>3. ~At(d, "send", "snapshot")' /\ ~At(d, "send", "checks")' /\ ~At(d, "send", "post")'
    BY <2>2 DEF Inside, At
  <2>4. ~At(d, "cancel", "post")' /\ ~At(d, "cancel", "answer")' /\ ~At(d, "cancel", "written")'
    BY <2>2 DEF Inside, At
  <2>5. QED
    BY <2>1, <2>2, <2>3, <2>4 DEF CallOK
<1>3. QED
  BY <1>2 DEF FenceInv

\* A step of one call that leaves fence, lease and returned alone.
LEMMA OwnStep ==
  ASSUME FenceInv, NEW c \in Slots,
         DOMAIN calls' = Slots, \A d \in Slots \ {c} : calls'[d] = calls[d],
         UNCHANGED <<fence, returned>>, lease' = lease, CallOK(c)'
  PROVE  FenceInv'
<1>1. FenceOK'
  BY DEF FenceInv, FenceOK, FenceRecord, Remembers
<1>2. ASSUME NEW d \in Slots \ {c} PROVE CallOK(d)'
  <2>1. calls'[d] = calls[d] /\ CallOK(d)
    BY DEF FenceInv
  <2>2. QED
    BY <2>1 DEF CallOK, Inside, At, Unfenced, FenceRecord, Remembers
<1>3. QED
  BY <1>1, <1>2 DEF FenceInv

\* What is left of a call that ends knows its id, if it is a cancellation.
LEMMA EndsCall ==
  ASSUME FenceInv, NEW c \in Slots, Ends(c)
  PROVE  /\ DOMAIN calls' = Slots
         /\ \A d \in Slots \ {c} : calls'[d] = calls[d]
         /\ CallOK(c)'
<1>1. DOMAIN calls = Slots /\ CallOK(c)
  BY DEF FenceInv
<1>2. CASE Return(c)
  <2>1. calls' = [calls EXCEPT ![c] = NoCall]
    BY <1>2 DEF Return
  <2>2. QED
    BY <1>1, <2>1 DEF CallOK, Inside, At, NoCall
<1>3. CASE calls[c].kind = "cancel" /\ Leave(c)
  <2> DEFINE k == [NoCall EXCEPT !.kind = "cancel", !.at = Me(c), !.turn = calls[c].turn,
                                 !.id = calls[c].id, !.pc = "finally"]
  <2>1. calls' = [calls EXCEPT ![c] = k]
    BY <1>3 DEF Leave
  <2>2. /\ DOMAIN k = DOMAIN NoCall /\ k.kind = "cancel" /\ k.id = calls[c].id
        /\ k.pc = "finally"
    BY DEF NoCall
  <2> HIDE DEF k
  <2>3. QED
    BY <1>1, <1>3, <2>1, <2>2 DEF CallOK, Inside, At
<1>4. QED
  BY <1>2, <1>3 DEF Ends

\* A call that ends without writing.
LEMMA ReturnStep ==
  ASSUME FenceInv, NEW c \in Slots, Ends(c), UNCHANGED <<fence, returned>>
  PROVE  FenceInv'
<1>1. /\ DOMAIN calls' = Slots /\ CallOK(c)'
      /\ \A d \in Slots \ {c} : calls'[d] = calls[d]
  BY EndsCall
<1>2. FenceOK'
  BY DEF FenceInv, FenceOK, FenceRecord, Remembers
<1>3. ASSUME NEW d \in Slots \ {c} PROVE CallOK(d)'
  <2>1. calls'[d] = calls[d] /\ CallOK(d)
    BY <1>1 DEF FenceInv
  <2>2. Inside(d) => lease' = d
    BY <2>1 DEF CallOK, Ends, Return, Leave
  <2>3. QED
    BY <2>1, <2>2 DEF CallOK, Inside, At, Unfenced, FenceRecord, Remembers
<1>4. QED
  BY <1>1, <1>2, <1>3 DEF FenceInv

\* A step that concerns no call: the fence may change while nobody holds it.
LEMMA NobodyStep ==
  ASSUME FenceInv, UNCHANGED <<calls, lease, returned>>,
         UNCHANGED fence \/ (lease = NoSlot /\ FenceOK')
  PROVE  FenceInv'
<1>1. FenceOK'
  BY DEF FenceInv, FenceOK, FenceRecord, Remembers
<1>2. ASSUME NEW d \in Slots PROVE CallOK(d)'
  <2>1. CallOK(d)
    BY DEF FenceInv
  <2>2. CASE UNCHANGED fence
    BY <2>1, <2>2 DEF CallOK, Inside, At, Unfenced, FenceRecord, Remembers
  <2>3. CASE lease = NoSlot
    <3>1. ~Inside(d)
      BY <2>1, <2>3, FenceAssumption DEF CallOK
    <3>2. ~Inside(d)'
      BY <3>1 DEF Inside
    <3>3. QED
      BY <2>1, <3>2 DEF CallOK, Inside, At
  <2>4. QED
    BY <2>2, <2>3
<1>3. QED
  BY <1>1, <1>2 DEF FenceInv

\* A call that begins takes a free slot and waits for the lease.
LEMMA BeginStep ==
  ASSUME FenceInv, NEW c \in Slots, NEW k,
         calls' = [calls EXCEPT ![c] = k], DOMAIN k = DOMAIN NoCall, k.pc = "lease",
         k.kind = "send" => k.at \in Providers, k.kind = "cancel" => k.id # NoId,
         UNCHANGED <<fence, lease, returned>>
  PROVE  FenceInv'
<1>1. /\ DOMAIN calls' = Slots /\ calls'[c] = k
      /\ \A d \in Slots \ {c} : calls'[d] = calls[d]
  BY DEF FenceInv
<1>2. CallOK(c)'
  BY <1>1 DEF CallOK, Inside, At
<1>3. QED
  BY <1>1, <1>2, OwnStep

\* A call that moves on from where it is, having written nothing.
LEMMA MoveStep ==
  ASSUME FenceInv, NEW c \in Slots, NEW k,
         calls' = [calls EXCEPT ![c] = k], DOMAIN k = DOMAIN NoCall,
         k.kind = calls[c].kind, k.id = calls[c].id, k.at = calls[c].at,
         \/ k.shared = calls[c].shared /\ calls[c].pc \notin {"lease", "finally"}
         \/ k.kind \notin {"send", "cancel", "close"},
         k.kind = "send" /\ k.pc \in {"snapshot", "checks", "post"}
           => calls[c].pc \in {"snapshot", "checks", "post"},
         k.kind = "cancel" /\ k.pc \in {"post", "answer", "written"}
           => calls[c].pc \in {"post", "answer", "written"},
         UNCHANGED <<fence, lease, returned>>
  PROVE  FenceInv'
<1>1. /\ DOMAIN calls' = Slots /\ calls'[c] = k
      /\ \A d \in Slots \ {c} : calls'[d] = calls[d]
  BY DEF FenceInv
<1>2. CallOK(c)
  BY DEF FenceInv
<1>3. Inside(c)' => Inside(c)
  BY <1>1 DEF Inside
<1>4. CallOK(c)'
  BY <1>1, <1>2, <1>3 DEF CallOK, Inside, At, Unfenced, FenceRecord, Remembers
<1>5. QED
  BY <1>1, <1>4, OwnStep

-----------------------------------------------------------------------------
(* sendTurn *)

\* A provider that has installed the fence and finds that it admits a message
\* has no cancellation in it.
LEMMA AdmitsUnfenced ==
  ASSUME LocalOK, FenceOK, NEW p \in Providers, admits(install(lo[p], fence), fence)
  PROVE  Unfenced(fence)
<1>1. ASSUME NEW s, NEW n, "quarantine" \in DOMAIN s
      PROVE  onStream(s, n).quarantine = s.quarantine
  BY <1>1 DEF onStream
<1>2. install(lo[p], fence).quarantine = quarantineOf(fence)
  <2>1. PICK a, j, x, n :
          install(lo[p], fence) =
            onStream([lo[p] EXCEPT !.quarantine = quarantineOf(fence), !.awaiting = a,
                                   !.rejected = j, !.sess = x], n)
    BY Zenon DEF install
  <2> DEFINE s == [lo[p] EXCEPT !.quarantine = quarantineOf(fence), !.awaiting = a,
                                !.rejected = j, !.sess = x]
  <2>2. "quarantine" \in DOMAIN s /\ s.quarantine = quarantineOf(fence)
    BY DEF LocalOK
  <2>3. install(lo[p], fence) = onStream(s, n)
    BY <2>1
  <2> HIDE DEF s
  <2>4. QED
    BY <1>1, <2>2, <2>3
<1>3. fence.cancel.turn = NoId
  BY <1>2 DEF admits, quarantineOf
<1>4. QED
  BY <1>3 DEF admits, Unfenced, FenceOK

\* A call to sendTurn.
LEMMA SendBegins ==
  ASSUME FenceInv, NEW c \in Slots, NEW p \in Providers, NEW t \in Turns, SendTurn(c, p, t)
  PROVE  FenceInv'
<1> DEFINE k == [NoCall EXCEPT !.kind = "send", !.at = p, !.turn = t, !.pc = "lease"]
<1>1. calls' = [calls EXCEPT ![c] = k] /\ UNCHANGED <<fence, lease, returned>>
  BY DEF SendTurn, hist
<1>2. DOMAIN k = DOMAIN NoCall /\ k.pc = "lease" /\ k.kind = "send" /\ k.at \in Providers
  BY DEF NoCall
<1> HIDE DEF k
<1>3. QED
  BY <1>1, <1>2, BeginStep

\* It gets the lease and passes the check, or fails.
LEMMA SendEnters ==
  ASSUME LocalOK, FenceInv, NEW c \in Slots, SendEnter(c)
  PROVE  FenceInv'
<1> DEFINE s == install(lo[Me(c)], fence)
<1>1. At(c, "send", "lease") /\ lease = NoSlot /\ UNCHANGED <<fence, returned>>
  BY DEF SendEnter, hist
<1>2. \/ ~admits(s, fence) /\ Return(c)
      \/ admits(s, fence) /\ lease' = c /\ (Register(c, s) \/ Go(c, "snapshot"))
  BY DEF SendEnter
<1>3. admits(s, fence) => Unfenced(fence)
  BY <1>1, AdmitsUnfenced DEF FenceInv, CallOK, At, Me
<1>4. DOMAIN calls = Slots /\ CallOK(c)
  BY DEF FenceInv
<1> HIDE DEF s
<1>5. CASE admits(s, fence) /\ lease' = c /\ (Register(c, s) \/ Go(c, "snapshot"))
  <2>1. PICK k : /\ calls' = [calls EXCEPT ![c] = k] /\ DOMAIN k = DOMAIN NoCall
                 /\ k.kind = "send" /\ k.pc \in {"post", "snapshot"} /\ k.at = calls[c].at
    <3>1. CASE Register(c, s)
      <4> DEFINE k == [calls[c] EXCEPT !.pc = "post", !.latest = s.latest, !.sess = s.sess]
      <4>1. calls' = [calls EXCEPT ![c] = k]
        BY <3>1, <1>4 DEF Register
      <4>2. DOMAIN k = DOMAIN NoCall /\ k.kind = "send" /\ k.pc = "post" /\ k.at = calls[c].at
        BY <1>1, <1>4 DEF At, NoCall, CallOK
      <4>3. QED
        BY <4>1, <4>2
    <3>2. CASE Go(c, "snapshot")
      <4> DEFINE k == [calls[c] EXCEPT !.pc = "snapshot"]
      <4>1. calls' = [calls EXCEPT ![c] = k]
        BY <3>2, <1>4 DEF Go
      <4>2. DOMAIN k = DOMAIN NoCall /\ k.kind = "send" /\ k.pc = "snapshot" /\ k.at = calls[c].at
        BY <1>1, <1>4 DEF At, NoCall, CallOK
      <4>3. QED
        BY <4>1, <4>2
    <3>3. QED
      BY <1>5, <3>1, <3>2
  <2>2. /\ DOMAIN calls' = Slots /\ calls'[c] = k
        /\ \A d \in Slots \ {c} : calls'[d] = calls[d]
    BY <1>4, <2>1
  <2>3. FenceOK'
    BY <1>1 DEF FenceInv, FenceOK, FenceRecord, Remembers
  <2>4. Unfenced(fence)'
    BY <1>1, <1>3, <1>5 DEF Unfenced
  <2>5. k.at \in Providers
    BY <1>1, <1>4, <2>1 DEF CallOK, At
  <2>6. CallOK(c)'
    BY <1>5, <2>1, <2>2, <2>4, <2>5 DEF CallOK, Inside, At
  <2>7. QED
    BY <1>1, <2>2, <2>3, <2>6, AloneStep
<1>6. QED
  BY <1>1, <1>2, <1>5, ReturnStep DEF Ends

\* The session is idle, the message is posted, or its answer needs no write.
LEMMA SendMoves ==
  ASSUME FenceInv, NEW c \in Slots,
         \/ SendChecks(c) \/ SendRejected(c)
         \/ \E k \in AckKinds, a \in Answers : PostMessage(c, k, a)
  PROVE  FenceInv'
<1>1. DOMAIN calls = Slots /\ DOMAIN calls[c] = DOMAIN NoCall
  BY DEF FenceInv, CallOK
<1>2. ASSUME SendRejected(c) PROVE FenceInv'
  BY <1>2, ReturnStep DEF SendRejected, Ends, hist
<1>3. ASSUME SendChecks(c) PROVE FenceInv'
  <2>1. CASE Register(c, lo[Me(c)]) /\ UNCHANGED lease
    <3> DEFINE k == [calls[c] EXCEPT !.pc = "post", !.latest = lo[Me(c)].latest,
                                     !.sess = lo[Me(c)].sess]
    <3>1. calls' = [calls EXCEPT ![c] = k]
      BY <1>1, <2>1 DEF Register
    <3>2. At(c, "send", "checks") /\ UNCHANGED <<fence, lease, returned>>
      BY <1>3, <2>1 DEF SendChecks, hist
    <3>3. /\ DOMAIN k = DOMAIN NoCall /\ k.kind = "send" /\ k.pc = "post"
          /\ k.shared = calls[c].shared /\ k.id = calls[c].id /\ k.at = calls[c].at
      BY <1>1, <3>2 DEF NoCall, At
    <3> HIDE DEF k
    <3>4. QED
      BY <3>1, <3>2, <3>3, MoveStep DEF At
  <2>2. CASE Return(c)
    BY <1>3, <2>2, ReturnStep DEF SendChecks, Ends, hist
  <2>3. QED
    BY <1>3, <2>1, <2>2 DEF SendChecks
<1>4. ASSUME NEW m \in AckKinds, NEW a \in Answers, PostMessage(c, m, a) PROVE FenceInv'
  <2> DEFINE k == [calls[c] EXCEPT !.pc = "answer", !.answer = a]
  <2>1. calls' = [calls EXCEPT ![c] = k] /\ At(c, "send", "post") /\ UNCHANGED <<fence, lease, returned>>
    BY <1>1, <1>4 DEF PostMessage, hist
  <2>2. /\ DOMAIN k = DOMAIN NoCall /\ k.kind = "send" /\ k.pc = "answer"
        /\ k.shared = calls[c].shared /\ k.id = calls[c].id /\ k.at = calls[c].at
    BY <1>1, <2>1 DEF NoCall, At
  <2> HIDE DEF k
  <2>3. QED
    BY <2>1, <2>2, MoveStep DEF At
<1>5. QED
  BY <1>2, <1>3, <1>4

\* A failed message: the ids that are rejected for all join those of the fence.
LEMMA SendAnswered ==
  ASSUME FenceInv, NEW c \in Slots, SendAnswer(c)
  PROVE  FenceInv'
<1> DEFINE ids == {Key(calls[c].turn), lo[Me(c)].handle[calls[c].turn]}
<1>1. DOMAIN calls = Slots /\ CallOK(c) /\ At(c, "send", "answer") /\ returned' = returned
  BY DEF FenceInv, SendAnswer, hist
<1>2. \/ Writes(persistRejected(fence, ids)) /\ Go(c, "rejected") /\ UNCHANGED lease
      \/ Return(c) /\ UNCHANGED fence
  BY Zenon DEF SendAnswer
<1> HIDE DEF ids
<1>3. CASE Writes(persistRejected(fence, ids)) /\ Go(c, "rejected") /\ UNCHANGED lease
  <2> DEFINE k == [calls[c] EXCEPT !.pc = "rejected"]
  <2>1. calls' = [calls EXCEPT ![c] = k] /\ fence' = [fence EXCEPT !.rejected = @ \cup ids]
    BY <1>1, <1>3 DEF Go, Writes, persistRejected
  <2>2. DOMAIN k = DOMAIN NoCall /\ k.kind = "send" /\ k.pc = "rejected" /\ k.at \in Providers
    BY <1>1 DEF NoCall, At, CallOK
  <2> HIDE DEF k
  <2>3. /\ DOMAIN calls' = Slots /\ calls'[c] = k
        /\ \A d \in Slots \ {c} : calls'[d] = calls[d]
    BY <1>1, <2>1
  <2>4. lease = c
    BY <1>1 DEF CallOK, Inside, At
  <2>5. FenceOK'
    BY <1>1, <2>1 DEF FenceInv, FenceOK, FenceRecord, Remembers, FenceFields
  <2>6. CallOK(c)'
    BY <1>3, <2>2, <2>3, <2>4 DEF CallOK, Inside, At
  <2>7. QED
    BY <2>3, <2>4, <2>5, <2>6, AloneStep
<1>4. QED
  BY <1>1, <1>2, <1>3, ReturnStep DEF Ends

-----------------------------------------------------------------------------
(* cancelTurn and closeSession *)

\* A call to cancelTurn, of a turn with a handle.
LEMMA CancelBegins ==
  ASSUME FenceInv, NEW c \in Slots, NEW p \in Providers, NEW t \in Turns, CancelTurn(c, p, t)
  PROVE  FenceInv'
<1> DEFINE k == [NoCall EXCEPT !.kind = "cancel", !.at = p, !.turn = t,
                               !.id = lo[p].handle[t], !.pc = "lease"]
<1>1. /\ calls' = [calls EXCEPT ![c] = k] /\ UNCHANGED <<fence, lease, returned>>
      /\ lo[p].handle[t] # NoId
  BY DEF CancelTurn, hist
<1>2. DOMAIN k = DOMAIN NoCall /\ k.pc = "lease" /\ k.kind = "cancel" /\ k.id # NoId
  BY <1>1 DEF NoCall
<1> HIDE DEF k
<1>3. QED
  BY <1>1, <1>2, BeginStep

\* The fence that a cancellation reads at the entry is what it writes back from.
LEMMA CancelEnters ==
  ASSUME FenceInv, NEW c \in Slots, CancelEnter(c)
  PROVE  FenceInv'
<1>1. DOMAIN calls = Slots /\ CallOK(c) /\ At(c, "cancel", "lease") /\ lease = NoSlot
  BY DEF FenceInv, CancelEnter
<1>2. UNCHANGED <<fence, returned>>
  BY DEF CancelEnter, hist
<1>3. \/ Leave(c)
      \/ /\ Unfenced(fence) /\ lease' = c
         /\ calls' = [calls EXCEPT ![c].pc = "snapshot", ![c].shared = fence]
  BY Zenon DEF CancelEnter, Unfenced
<1>4. CASE /\ Unfenced(fence) /\ lease' = c
           /\ calls' = [calls EXCEPT ![c].pc = "snapshot", ![c].shared = fence]
  <2> DEFINE k == [calls[c] EXCEPT !.pc = "snapshot", !.shared = fence]
  <2>1. calls' = [calls EXCEPT ![c] = k]
    BY <1>1, <1>4
  <2>2. /\ DOMAIN k = DOMAIN NoCall /\ k.kind = "cancel" /\ k.pc = "snapshot"
        /\ k.shared = fence /\ k.id # NoId
    BY <1>1 DEF NoCall, At, CallOK
  <2> HIDE DEF k
  <2>3. /\ DOMAIN calls' = Slots /\ calls'[c] = k
        /\ \A d \in Slots \ {c} : calls'[d] = calls[d]
    BY <1>1, <2>1
  <2>4. FenceOK'
    BY <1>2 DEF FenceInv, FenceOK, FenceRecord, Remembers
  <2>5. FenceRecord(fence) /\ Remembers(fence)
    BY DEF FenceInv, FenceOK
  <2>6. CallOK(c)'
    BY <1>2, <1>4, <2>2, <2>3, <2>5 DEF CallOK, Inside, At, Unfenced, FenceRecord, Remembers
  <2>7. QED
    BY <1>1, <2>3, <2>4, <2>6, AloneStep
<1>5. QED
  BY <1>1, <1>2, <1>3, <1>4, ReturnStep DEF Ends, At

\* A cancellation that holds the lease and stays, having written f.
LEMMA CancelWrites ==
  ASSUME FenceInv, NEW c \in Slots, Inside(c), calls[c].kind = "cancel", NEW f, NEW k,
         calls' = [calls EXCEPT ![c] = k], DOMAIN k = DOMAIN NoCall,
         k.kind = "cancel", k.id = calls[c].id, k.shared = calls[c].shared,
         k.pc \notin {"lease", "finally"}, fence' = f, UNCHANGED <<lease, returned>>,
         FenceRecord(f), Remembers(f), ~f.closed, ~f.closing,
         f.cancel.turn = NoId => f.cancel = NoCancel,
         k.pc \in {"post", "answer", "written"} => k.id \in f.rejected
  PROVE  FenceInv'
<1>1. DOMAIN calls = Slots /\ CallOK(c)
  BY DEF FenceInv
<1>2. /\ DOMAIN calls' = Slots /\ calls'[c] = k
      /\ \A d \in Slots \ {c} : calls'[d] = calls[d]
  BY <1>1
<1>3. FenceOK'
  BY DEF FenceOK, FenceRecord, Remembers
<1>4. lease = c
  BY <1>1 DEF CallOK
<1>5. CallOK(c)'
  BY <1>1, <1>2, <1>4 DEF CallOK, Inside, At, Unfenced, FenceRecord, Remembers
<1>6. QED
  BY <1>2, <1>3, <1>4, <1>5, AloneStep

\* A call that holds the lease ends and leaves the fence in order.
LEMMA ReturnWrites ==
  ASSUME FenceInv, NEW c \in Slots, Inside(c), Ends(c), FenceOK'
  PROVE  FenceInv'
<1>1. lease = c
  BY DEF FenceInv, CallOK
<1>2. QED
  BY <1>1, EndsCall, AloneStep

\* What a cancellation inside knows of the fence it read.
LEMMA CancelShared ==
  ASSUME FenceInv, NEW c \in Slots, NEW pc, At(c, "cancel", pc),
         pc \notin {"lease", "finally"}
  PROVE  LET f == calls[c].shared
         IN  /\ FenceRecord(f) /\ Remembers(f) /\ Unfenced(f) /\ calls[c].id # NoId
             /\ DOMAIN calls[c] = DOMAIN NoCall /\ Inside(c) /\ DOMAIN calls = Slots
<1>1. DOMAIN calls = Slots /\ CallOK(c) /\ Inside(c)
  BY DEF FenceInv, At, Inside
<1>2. QED
  BY <1>1 DEF CallOK, At

\* The fence is written before the interrupt, with the ids of the turn.
LEMMA CancelChecked ==
  ASSUME FenceInv, NEW c \in Slots, CancelChecks(c)
  PROVE  FenceInv'
<1> DEFINE f == calls[c].shared
           k == [calls[c] EXCEPT !.pc = "post"]
<1>1. At(c, "cancel", "checks") /\ UNCHANGED returned
  BY DEF CancelChecks, hist
<1>2. /\ FenceRecord(f) /\ Remembers(f) /\ Unfenced(f) /\ calls[c].id # NoId
      /\ DOMAIN calls[c] = DOMAIN NoCall /\ Inside(c) /\ DOMAIN calls = Slots
  BY <1>1, CancelShared
<1>3. \/ Leave(c) /\ UNCHANGED fence
      \/ \E a, o : /\ Writes([f EXCEPT !.cancel = [turn |-> calls[c].id, awaiting |-> a, official |-> o],
                                       !.rejected = f.rejected \cup cancelIds(c)])
                   /\ Go(c, "post") /\ UNCHANGED lease
  BY Zenon DEF CancelChecks
<1>4. ASSUME NEW a, NEW o, Go(c, "post"), UNCHANGED lease,
             Writes([f EXCEPT !.cancel = [turn |-> calls[c].id, awaiting |-> a, official |-> o],
                              !.rejected = f.rejected \cup cancelIds(c)])
      PROVE  FenceInv'
  <2> DEFINE g == [f EXCEPT !.cancel = [turn |-> calls[c].id, awaiting |-> a, official |-> o],
                            !.rejected = f.rejected \cup cancelIds(c)]
  <2>1. /\ FenceRecord(g) /\ ~g.closed /\ ~g.closing /\ g.cancel.turn = calls[c].id
        /\ g.rejected = f.rejected \cup cancelIds(c)
    BY <1>2 DEF FenceRecord, FenceFields, Unfenced
  <2>2. Remembers(g) /\ calls[c].id \in g.rejected
    BY <1>2, <2>1 DEF Remembers, cancelIds
  <2>3. calls' = [calls EXCEPT ![c] = k] /\ fence' = g
    BY <1>2, <1>4 DEF Go, Writes
  <2>4. /\ DOMAIN k = DOMAIN NoCall /\ k.kind = "cancel" /\ k.pc = "post"
        /\ k.id = calls[c].id /\ k.shared = calls[c].shared
    BY <1>1, <1>2 DEF NoCall, At
  <2> HIDE DEF g, k, f
  <2>5. QED
    BY <1>1, <1>2, <1>4, <2>1, <2>2, <2>3, <2>4, CancelWrites DEF At
<1>5. QED
  BY <1>1, <1>3, <1>4, ReturnStep DEF Ends, At

\* The answer decides whether the cancellation is lifted, kept or taken back,
\* each by a write of the fence as it was read at the entry.
LEMMA CancelAnswered ==
  ASSUME FenceInv, NEW c \in Slots, CancelAnswer(c)
  PROVE  FenceInv'
<1> DEFINE f  == calls[c].shared
           id == calls[c].id
           s  == lo[Me(c)]
           kept(a) == [f EXCEPT !.cancel = [turn |-> id, awaiting |-> a, official |-> s.seen],
                                !.rejected = f.rejected \cup cancelIds(c)]
           lift == lifted(f, f.rejected \cup cancelIds(c))
           good(g) == /\ FenceRecord(g) /\ Remembers(g) /\ ~g.closed /\ ~g.closing
                      /\ g.cancel.turn = NoId => g.cancel = NoCancel
<1>1. At(c, "cancel", "answer")
  BY DEF CancelAnswer
<1>2. /\ FenceRecord(f) /\ Remembers(f) /\ Unfenced(f) /\ id # NoId
      /\ DOMAIN calls[c] = DOMAIN NoCall /\ Inside(c) /\ DOMAIN calls = Slots
  BY <1>1, CancelShared
<1>3. ASSUME NEW a PROVE good(kept(a)) /\ id \in kept(a).rejected
  <2>1. /\ FenceRecord(kept(a)) /\ ~kept(a).closed /\ ~kept(a).closing
        /\ kept(a).cancel.turn = id /\ kept(a).rejected = f.rejected \cup cancelIds(c)
    BY <1>2 DEF FenceRecord, FenceFields, Unfenced
  <2> HIDE DEF kept
  <2>2. QED
    BY <1>2, <2>1 DEF Remembers, cancelIds
<1>4. good(lift) /\ id \in lift.rejected
  <2>1. /\ FenceRecord(lift) /\ ~lift.closed /\ ~lift.closing
        /\ lift.cancel = NoCancel /\ lift.rejected = f.rejected \cup cancelIds(c)
    BY <1>2 DEF FenceRecord, FenceFields, Unfenced, lifted
  <2> HIDE DEF lift
  <2>2. QED
    BY <1>2, <2>1 DEF Remembers, cancelIds
<1>5. good(f)
  BY <1>2 DEF Unfenced
<1>6. ASSUME NEW k, NEW g, calls' = [calls EXCEPT ![c] = k], fence' = g, UNCHANGED <<lease, returned>>,
             good(g), DOMAIN k = DOMAIN NoCall, k.kind = "cancel", k.id = id, k.shared = f,
             k.pc \notin {"lease", "finally"},
             k.pc \in {"post", "answer", "written"} => id \in g.rejected
      PROVE  FenceInv'
  BY <1>1, <1>2, <1>6, CancelWrites DEF At
<1>7. ASSUME NEW p, NEW proof, p \in {"written", "restored"}
      PROVE  LET k == [calls[c] EXCEPT !.pc = p, !.proof = proof]
             IN  /\ DOMAIN k = DOMAIN NoCall /\ k.kind = "cancel" /\ k.id = id /\ k.shared = f
                 /\ k.pc = p
  BY <1>1, <1>2, <1>7 DEF NoCall, At
<1>8. \/ /\ Writes(lift) \/ Writes(kept(FALSE))
         /\ calls' = [calls EXCEPT ![c].pc = "written", ![c].proof = s.early]
         /\ UNCHANGED <<lease, returned>>
      \/ returned' = returned \cup {<<calls[c].turn, id>>} /\ Leave(c) /\ UNCHANGED fence
      \/ /\ Writes(f)
         /\ calls' = [calls EXCEPT ![c].pc = "restored", ![c].proof = s.seen # {}]
         /\ UNCHANGED <<lease, returned>>
      \/ Writes(kept(s.seen = {})) /\ Leave(c) /\ UNCHANGED returned
  BY Zenon DEF CancelAnswer
<1> HIDE DEF kept, lift, good, s, id, f
<1>9. CASE /\ Writes(lift) \/ Writes(kept(FALSE))
           /\ calls' = [calls EXCEPT ![c].pc = "written", ![c].proof = s.early]
           /\ UNCHANGED <<lease, returned>>
  <2> DEFINE k == [calls[c] EXCEPT !.pc = "written", !.proof = s.early]
  <2>1. calls' = [calls EXCEPT ![c] = k]
    BY <1>2, <1>9
  <2>2. DOMAIN k = DOMAIN NoCall /\ k.kind = "cancel" /\ k.id = id /\ k.shared = f /\ k.pc = "written"
    BY <1>7
  <2>3. PICK g : fence' = g /\ good(g) /\ id \in g.rejected
    BY <1>3, <1>4, <1>9 DEF Writes
  <2> HIDE DEF k
  <2>4. QED
    BY <1>6, <1>9, <2>1, <2>2, <2>3
<1>10. CASE /\ Writes(f)
            /\ calls' = [calls EXCEPT ![c].pc = "restored", ![c].proof = s.seen # {}]
            /\ UNCHANGED <<lease, returned>>
  <2> DEFINE k == [calls[c] EXCEPT !.pc = "restored", !.proof = s.seen # {}]
  <2>1. calls' = [calls EXCEPT ![c] = k]
    BY <1>2, <1>10
  <2>2. DOMAIN k = DOMAIN NoCall /\ k.kind = "cancel" /\ k.id = id /\ k.shared = f /\ k.pc = "restored"
    BY <1>7
  <2> HIDE DEF k
  <2>3. QED
    BY <1>5, <1>6, <1>10, <2>1, <2>2 DEF Writes
<1>11. CASE Writes(kept(s.seen = {})) /\ Leave(c) /\ UNCHANGED returned
  <2>1. PICK g : fence' = g /\ good(g)
    BY <1>3, <1>11 DEF Writes
  <2>2. FenceOK'
    BY <1>11, <2>1 DEF good, FenceOK, FenceRecord, Remembers
  <2>3. QED
    BY <1>1, <1>2, <1>11, <2>2, ReturnWrites DEF Ends, At
<1>12. CASE returned' = returned \cup {<<calls[c].turn, id>>} /\ Leave(c) /\ UNCHANGED fence
  <2>1. id \in fence.rejected
    BY <1>1 DEF FenceInv, CallOK, id
  <2>2. FenceOK'
    BY <1>12, <2>1 DEF FenceInv, FenceOK, FenceRecord, Remembers
  <2>3. QED
    BY <1>1, <1>2, <1>12, <2>2, ReturnWrites DEF Ends, At
<1>13. QED
  BY <1>8, <1>9, <1>10, <1>11, <1>12

\* The turn is returned as cancelled once the fence has its id.
LEMMA CancelReturns ==
  ASSUME FenceInv, NEW c \in Slots, CancelWritten(c) \/ CancelRestored(c) \/ CancelFinally(c)
  PROVE  FenceInv'
<1>1. CASE CancelWritten(c)
  <2>1. /\ At(c, "cancel", "written") /\ Leave(c) /\ fence' = fence
        /\ returned' = returned \cup {<<calls[c].turn, calls[c].id>>}
    BY <1>1 DEF CancelWritten
  <2>2. calls[c].id \in fence.rejected /\ Inside(c)
    BY <2>1 DEF FenceInv, CallOK, Inside, At
  <2>3. FenceOK'
    BY <2>1, <2>2 DEF FenceInv, FenceOK, FenceRecord, Remembers
  <2>4. QED
    BY <2>1, <2>2, <2>3, ReturnWrites DEF Ends, At
<1>2. ASSUME CancelRestored(c) \/ CancelFinally(c) PROVE FenceInv'
  <2>1. Ends(c) /\ UNCHANGED <<fence, returned>>
    BY <1>2, Zenon DEF CancelRestored, CancelFinally, Ends, At, hist
  <2>2. QED
    BY <2>1, ReturnStep
<1>3. QED
  BY <1>1, <1>2

\* A close marks the fence as closing before it stops the session.
LEMMA CloseEnters ==
  ASSUME FenceInv, NEW c \in Slots, CloseEnter(c)
  PROVE  FenceInv'
<1>1. /\ DOMAIN calls = Slots /\ CallOK(c) /\ At(c, "close", "lease") /\ lease = NoSlot
      /\ UNCHANGED returned
  BY DEF FenceInv, CloseEnter, hist
<1>2. \/ Return(c) /\ UNCHANGED fence
      \/ /\ fence.cancel = NoCancel /\ ~fence.closed /\ lease' = c
         /\ fence' = [fence EXCEPT !.closing = TRUE]
         /\ calls' = [calls EXCEPT ![c].pc = "post", ![c].shared = fence]
  BY Zenon DEF CloseEnter, Writes
<1>3. CASE /\ fence.cancel = NoCancel /\ ~fence.closed /\ lease' = c
           /\ fence' = [fence EXCEPT !.closing = TRUE]
           /\ calls' = [calls EXCEPT ![c].pc = "post", ![c].shared = fence]
  <2> DEFINE k == [calls[c] EXCEPT !.pc = "post", !.shared = fence]
  <2>1. calls' = [calls EXCEPT ![c] = k]
    BY <1>1, <1>3
  <2>2. DOMAIN k = DOMAIN NoCall /\ k.kind = "close" /\ k.shared = fence
    BY <1>1 DEF NoCall, At, CallOK
  <2> HIDE DEF k
  <2>3. /\ DOMAIN calls' = Slots /\ calls'[c] = k
        /\ \A d \in Slots \ {c} : calls'[d] = calls[d]
    BY <1>1, <2>1
  <2>4. FenceRecord(fence) /\ Remembers(fence)
    BY DEF FenceInv, FenceOK
  <2>5. FenceOK'
    BY <1>1, <1>3, <2>4 DEF FenceOK, FenceRecord, FenceFields, Remembers
  <2>6. CallOK(c)'
    BY <1>1, <1>3, <2>2, <2>3, <2>4 DEF CallOK, Inside, At, FenceRecord, Remembers
  <2>7. QED
    BY <1>1, <2>3, <2>5, <2>6, AloneStep
<1>4. QED
  BY <1>1, <1>2, <1>3, ReturnStep DEF Ends

\* The session is closed, or the fence is as the close has read it, or the close
\* leaves it closing.
LEMMA CloseAnswered ==
  ASSUME FenceInv, NEW c \in Slots, CloseAnswer(c)
  PROVE  FenceInv'
<1> DEFINE f == calls[c].shared
<1>1. At(c, "close", "answer") /\ Return(c) /\ returned' = returned
  BY DEF CloseAnswer, hist
<1>2. Inside(c) /\ FenceRecord(f) /\ Remembers(f) /\ f.cancel = NoCancel
  BY <1>1 DEF FenceInv, CallOK, Inside, At
<1>3. fence' \in {fence, f, [f EXCEPT !.closing = FALSE, !.closed = TRUE]}
  BY Zenon DEF CloseAnswer, Writes
<1> HIDE DEF f
<1>4. FenceOK'
  BY <1>1, <1>2, <1>3 DEF FenceInv, FenceOK, FenceRecord, FenceFields, Remembers
<1>5. QED
  BY <1>1, <1>2, <1>4, ReturnWrites DEF Ends

\* A close begins; the server handles the interrupt or the stop; it is read.
LEMMA ControlMoves ==
  ASSUME FenceInv, NEW c \in Slots,
         \/ GetSession(c)
         \/ \E p \in Providers : CloseSession(c, p)
         \/ \E a \in Answers : PostInterrupt(c, a) \/ PostStop(c, a)
  PROVE  FenceInv'
<1>1. DOMAIN calls = Slots /\ DOMAIN calls[c] = DOMAIN NoCall
  BY DEF FenceInv, CallOK
<1>2. CASE GetSession(c)
  <2> DEFINE k == [calls[c] EXCEPT !.pc = "checks", !.snap = Snapshot]
  <2>1. calls' = [calls EXCEPT ![c] = k] /\ calls[c].pc = "snapshot" /\ UNCHANGED <<fence, lease, returned>>
    BY <1>1, <1>2 DEF GetSession, hist
  <2>2. /\ DOMAIN k = DOMAIN NoCall /\ k.kind = calls[c].kind /\ k.pc = "checks"
        /\ k.shared = calls[c].shared /\ k.id = calls[c].id /\ k.at = calls[c].at
    BY <1>1 DEF NoCall
  <2> HIDE DEF k
  <2>3. QED
    BY <2>1, <2>2, MoveStep
<1>3. ASSUME NEW p \in Providers, CloseSession(c, p) PROVE FenceInv'
  <2> DEFINE k == [NoCall EXCEPT !.kind = "close", !.at = p, !.pc = "lease"]
  <2>1. calls' = [calls EXCEPT ![c] = k] /\ UNCHANGED <<fence, lease, returned>>
    BY <1>3 DEF CloseSession, Call, hist
  <2>2. DOMAIN k = DOMAIN NoCall /\ k.pc = "lease" /\ k.kind = "close"
    BY DEF NoCall
  <2> HIDE DEF k
  <2>3. QED
    BY <2>1, <2>2, BeginStep
<1>4. ASSUME NEW a \in Answers, PostInterrupt(c, a) \/ PostStop(c, a) PROVE FenceInv'
  <2> DEFINE k == [calls[c] EXCEPT !.pc = "answer", !.answer = Outcome(a)]
  <2>1. /\ calls' = [calls EXCEPT ![c] = k] /\ UNCHANGED <<fence, lease, returned>>
        /\ At(c, "cancel", "post") \/ At(c, "close", "post")
    BY <1>1, <1>4 DEF PostInterrupt, PostStop, hist
  <2>2. /\ DOMAIN k = DOMAIN NoCall /\ k.kind = calls[c].kind /\ k.pc = "answer"
        /\ k.shared = calls[c].shared /\ k.id = calls[c].id /\ k.at = calls[c].at
    BY <1>1 DEF NoCall
  <2> HIDE DEF k
  <2>3. QED
    BY <2>1, <2>2, MoveStep DEF At
<1>5. QED
  BY <1>2, <1>3, <1>4

-----------------------------------------------------------------------------
(* Reads, streams and the server *)

\* getSessionInfo and readHistory write nothing.
LEMMA ReadKeeps ==
  ASSUME FenceInv, NEW c \in Slots,
         \/ \E p \in Providers, k \in {"info", "history"} : Read(c, k, p)
         \/ ReadEnter(c) \/ ReadInstall(c) \/ GetHistory(c) \/ InfoAnswer(c) \/ HistoryAnswer(c)
  PROVE  FenceInv'
<1>1. DOMAIN calls = Slots /\ DOMAIN calls[c] = DOMAIN NoCall
  BY DEF FenceInv, CallOK
<1>2. ASSUME NEW p \in Providers, NEW m \in {"info", "history"}, Read(c, m, p) PROVE FenceInv'
  <2> DEFINE k == [NoCall EXCEPT !.kind = m, !.at = p, !.pc = "lease"]
  <2>1. calls' = [calls EXCEPT ![c] = k] /\ UNCHANGED <<fence, lease, returned>>
    BY <1>2 DEF Read, Call, hist
  <2>2. DOMAIN k = DOMAIN NoCall /\ k.pc = "lease" /\ k.kind = m
    BY DEF NoCall
  <2> HIDE DEF k
  <2>3. QED
    BY <2>1, <2>2, BeginStep
<1>3. ASSUME ReadEnter(c) \/ ReadInstall(c) PROVE FenceInv'
  <2>1. /\ calls[c].kind \in {"info", "history"} /\ UNCHANGED <<fence, lease, returned>>
        /\ \E pc, f : calls' = [calls EXCEPT ![c] = [calls[c] EXCEPT !.pc = pc, !.shared = f]]
    <3>1. CASE ReadEnter(c)
      BY <1>1, <3>1 DEF ReadEnter, At, hist
    <3>2. CASE ReadInstall(c)
      BY <1>1, <3>2 DEF ReadInstall, At, hist
    <3>3. QED
      BY <1>3, <3>1, <3>2
  <2>2. PICK pc, f : calls' = [calls EXCEPT ![c] = [calls[c] EXCEPT !.pc = pc, !.shared = f]]
    BY <2>1
  <2> DEFINE k == [calls[c] EXCEPT !.pc = pc, !.shared = f]
  <2>3. calls' = [calls EXCEPT ![c] = k]
    BY <2>2
  <2>4. /\ DOMAIN k = DOMAIN NoCall /\ k.kind = calls[c].kind
        /\ k.id = calls[c].id /\ k.at = calls[c].at
    BY <1>1 DEF NoCall
  <2> HIDE DEF k
  <2>5. QED
    BY <2>1, <2>3, <2>4, MoveStep
<1>4. CASE GetHistory(c)
  <2> DEFINE k == [calls[c] EXCEPT !.pc = "snapshot", !.items = History]
  <2>1. /\ calls' = [calls EXCEPT ![c] = k] /\ UNCHANGED <<fence, lease, returned>>
        /\ calls[c].kind = "history"
    BY <1>1, <1>4 DEF GetHistory, At, hist
  <2>2. /\ DOMAIN k = DOMAIN NoCall /\ k.kind = calls[c].kind
        /\ k.shared = calls[c].shared /\ k.id = calls[c].id /\ k.at = calls[c].at
    BY <1>1 DEF NoCall
  <2> HIDE DEF k
  <2>3. QED
    BY <2>1, <2>2, MoveStep
<1>5. ASSUME InfoAnswer(c) \/ HistoryAnswer(c) PROVE FenceInv'
  BY <1>5, ReturnStep, Zenon DEF InfoAnswer, HistoryAnswer, Ends, hist
<1>6. QED
  BY <1>2, <1>3, <1>4, <1>5

\* A cancelled input that was consumed after all has its fence back, unless the
\* session is closed, closing, or has another.
LEMMA ReopenKeeps ==
  ASSUME StreamOK, FenceInv, NEW p \in Providers, ReopenFence(p)
  PROVE  FenceInv'
<1> DEFINE id == Ack(stream[p].ev.of)
<1>1. /\ fence' = reopened(fence, id) /\ lease = NoSlot /\ UNCHANGED <<calls, lease, returned>>
      /\ stream[p].pc = "reopen"
  BY Zenon DEF ReopenFence, Writes
<1>2. id # NoId
  BY <1>1, FenceAssumption DEF StreamOK, Ack, Ids
<1> HIDE DEF id
<1>3. FenceOK
  BY DEF FenceInv
<1>4. FenceOK'
  <2>1. CASE fence' = fence
    BY <1>1, <1>3, <2>1 DEF FenceOK, Remembers, FenceRecord
  <2>2. CASE fence' # fence
    <3> DEFINE g == [fence EXCEPT !.cancel = [turn |-> id, awaiting |-> TRUE, official |-> {}],
                                  !.rejected = fence.rejected \cup {id}]
    <3>1. fence' = g /\ ~fence.closed /\ ~fence.closing
      BY <1>1, <2>2 DEF reopened
    <3>2. /\ DOMAIN g = FenceFields /\ g.closed = fence.closed /\ g.closing = fence.closing
          /\ g.cancel.turn = id /\ g.rejected = fence.rejected \cup {id}
      BY <1>3 DEF FenceOK, FenceRecord, FenceFields
    <3> HIDE DEF g
    <3>3. QED
      BY <1>1, <1>2, <1>3, <3>1, <3>2 DEF FenceOK, FenceRecord, Remembers
  <2>3. QED
    BY <2>1, <2>2
<1>5. QED
  BY <1>1, <1>4, NobodyStep

\* A proven cancellation is lifted, and its ids stay rejected.
LEMMA ResolveKeeps ==
  ASSUME FenceInv, NEW p \in Providers, ResolveFence(p)
  PROVE  FenceInv'
<1> DEFINE ids == {stream[p].done, stream[p].ev.turn} \ {NoId}
           g   == lifted(fence, fence.rejected \cup ids)
<1>1. /\ fence' = fence \/ fence' = g
      /\ lease = NoSlot /\ UNCHANGED <<calls, lease, returned>>
  BY Zenon DEF ResolveFence, Writes, resolved, hist
<1> HIDE DEF ids
<1>2. FenceOK
  BY DEF FenceInv
<1>3. /\ DOMAIN g = FenceFields /\ g.closed = fence.closed /\ g.closing = FALSE
      /\ g.cancel = NoCancel /\ g.rejected = fence.rejected \cup ids
  BY <1>2 DEF FenceOK, FenceRecord, FenceFields, lifted
<1> HIDE DEF g
<1>4. FenceOK'
  BY <1>1, <1>2, <1>3 DEF FenceOK, FenceRecord, Remembers
<1>5. QED
  BY <1>1, <1>4, NobodyStep

\* What concerns neither the calls nor the fence.
LEMMA OthersKeep ==
  ASSUME FenceInv,
         \/ \E p \in Providers :
              \/ Connect(p) \/ Disconnect(p) \/ StreamEnter(p) \/ StreamInstall(p) \/ StreamItems(p)
              \/ StreamSnapshot(p) \/ StreamSync(p) \/ Deliver(p)
         \/ \E t \in Turns : Start(t) \/ Complete(t)
         \/ UNCHANGED vars
  PROVE  FenceInv'
<1>1. UNCHANGED <<fence, lease, calls, returned>>
  <2>1. ASSUME NEW p \in Providers, Connect(p) \/ Disconnect(p) \/ StreamEnter(p) \/ StreamInstall(p)
        PROVE  UNCHANGED <<fence, lease, calls, returned>>
    BY <2>1, Zenon DEF Connect, Disconnect, StreamEnter, StreamInstall, hist
  <2>2. ASSUME NEW p \in Providers, StreamItems(p) \/ StreamSnapshot(p) \/ StreamSync(p)
        PROVE  UNCHANGED <<fence, lease, calls, returned>>
    BY <2>2, Zenon DEF StreamItems, StreamSnapshot, StreamSync, hist
  <2>3. ASSUME NEW p \in Providers, Deliver(p)
        PROVE  UNCHANGED <<fence, lease, calls, returned>>
    BY <2>3, Zenon DEF Deliver, hist
  <2>4. ASSUME NEW t \in Turns, Start(t) \/ Complete(t)
        PROVE  UNCHANGED <<fence, lease, calls, returned>>
    BY <2>4, Zenon DEF Start, Complete, hist
  <2>5. ASSUME UNCHANGED vars
        PROVE  UNCHANGED <<fence, lease, calls, returned>>
    BY <2>5, Zenon DEF vars, hist
  <2>6. QED
    BY <2>1, <2>2, <2>3, <2>4, <2>5, Zenon
<1>2. QED
  BY <1>1, NobodyStep

-----------------------------------------------------------------------------
(* The theorems *)

\* The inductive invariant.
IInv == LocalOK /\ StreamOK /\ FenceInv

\* The initial state satisfies the invariant.
LEMMA InitEstablishes == Init => IInv
<1> SUFFICES ASSUME Init PROVE IInv
  OBVIOUS
<1>1. LocalOK
  BY DEF Init, LocalOK
<1>2. StreamOK
  <2>1. <<>> \in Seq(Frames)
    OBVIOUS
  <2>2. QED
    BY <2>1 DEF Init, StreamOK, NoStream
<1>3. FenceInv
  <2>1. ASSUME NEW c \in Slots PROVE CallOK(c)
    BY DEF Init, CallOK, Inside, At, NoCall
  <2>2. FenceOK
    BY DEF Init, FenceOK, FenceRecord, FenceFields, Remembers, NoCancel
  <2>3. QED
    BY <2>1, <2>2 DEF Init, FenceInv
<1>4. QED
  BY <1>1, <1>2, <1>3 DEF IInv

\* Every step keeps it.
LEMMA NextKeeps == IInv /\ [Next]_vars => IInv'
<1> SUFFICES ASSUME IInv, [Next]_vars PROVE IInv'
  OBVIOUS
<1>1. LocalOK /\ StreamOK /\ FenceInv
  BY DEF IInv
<1>2. ASSUME NEW c \in Slots, NEW p \in Providers,
             \/ \E t \in Turns : SendTurn(c, p, t) \/ CancelTurn(c, p, t)
             \/ CloseSession(c, p)
             \/ \E k \in {"info", "history"} : Read(c, k, p)
      PROVE  FenceInv'
  BY <1>1, <1>2, SendBegins, CancelBegins, ControlMoves, ReadKeeps, Zenon
<1>3. ASSUME NEW c \in Slots, CallStep(c) PROVE FenceInv'
  <2>1. ASSUME SendEnter(c) \/ SendChecks(c) \/ SendAnswer(c) \/ SendRejected(c) PROVE FenceInv'
    BY <1>1, <2>1, SendEnters, SendMoves, SendAnswered
  <2>2. ASSUME \/ CancelEnter(c) \/ CancelChecks(c) \/ CancelAnswer(c) \/ CancelWritten(c)
               \/ CancelRestored(c) \/ CancelFinally(c)
        PROVE  FenceInv'
    BY <1>1, <2>2, CancelEnters, CancelChecked, CancelAnswered, CancelReturns
  <2>3. ASSUME GetSession(c) \/ CloseEnter(c) \/ CloseAnswer(c) PROVE FenceInv'
    BY <1>1, <2>3, CloseEnters, CloseAnswered, ControlMoves
  <2>4. ASSUME ReadEnter(c) \/ ReadInstall(c) \/ GetHistory(c) \/ InfoAnswer(c) \/ HistoryAnswer(c)
        PROVE  FenceInv'
    BY <1>1, <2>4, ReadKeeps
  <2>5. ASSUME NEW a \in Answers,
               (\E k \in AckKinds : PostMessage(c, k, a)) \/ PostInterrupt(c, a) \/ PostStop(c, a)
        PROVE  FenceInv'
    BY <1>1, <2>5, SendMoves, ControlMoves
  <2>6. QED
    BY <1>3, <2>1, <2>2, <2>3, <2>4, <2>5, Zenon DEF CallStep
<1>4. ASSUME NEW p \in Providers, StreamStep(p) \/ Connect(p) \/ Disconnect(p) PROVE FenceInv'
  BY <1>1, <1>4, ReopenKeeps, ResolveKeeps, OthersKeep, Zenon DEF StreamStep
<1>5. ASSUME (\E t \in Turns : Start(t) \/ Complete(t)) \/ UNCHANGED vars PROVE FenceInv'
  BY <1>1, <1>5, OthersKeep, Zenon
<1>6. FenceInv'
  BY <1>2, <1>3, <1>4, <1>5, Zenon DEF Next, SystemStep
<1>7. QED
  BY <1>1, <1>6, ShapeKeeps DEF IInv

\* So it always holds.
LEMMA Invariance == Spec => []IInv
  BY InitEstablishes, NextKeeps, PTL DEF Spec

\* sendTurn never posts a message against the fence: neither another provider's
\* cancellation nor its close gets between the check and the request.
THEOREM WritersFencedHolds == Spec => []WritersFenced
<1>1. IInv => WritersFenced
  BY DEF IInv, FenceInv, CallOK, WritersFenced, Unfenced
<1>2. QED
  BY <1>1, Invariance, PTL

\* The fence never carries a cancellation together with a close, whichever of
\* cancelTurn, closeSession and the streams write it and in whatever order.
THEOREM FencesExclusiveHolds == Spec => []FencesExclusive
<1>1. IInv => FencesExclusive
  BY DEF IInv, FenceInv, FenceOK, FencesExclusive
<1>2. QED
  BY <1>1, Invariance, PTL

\* No write of the fence, from whatever was read before, forgets the id of a turn
\* that cancelTurn has returned as cancelled.
THEOREM CancelledStaysRejectedHolds == Spec => []CancelledStaysRejected
<1>1. IInv => CancelledStaysRejected
  BY DEF IInv, FenceInv, FenceOK, Remembers, CancelledStaysRejected
<1>2. QED
  BY <1>1, Invariance, PTL
=============================================================================
