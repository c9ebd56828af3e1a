--------------------------- MODULE SessionEvents ---------------------------
(***************************************************************************)
(* How the events of one session reach their readers through one           *)
(* OmnigentHttpProvider (http-provider.ts): streamEvents, which replays the *)
(* persisted history after the reader's cursor and goes on with the frames  *)
(* of the stream it opened before it read the history, and readHistory,     *)
(* which answers a page of the history after a cursor.                      *)
(*                                                                          *)
(* The Omnigent server is external: it persists items, and says at once on  *)
(* every open stream what it persisted; the start and the end of a turn and *)
(* the letters of a message in the making are frames only.  A stream may    *)
(* begin with a replay of the response that is in flight.  A reader follows *)
(* its cursor, the number of the last event it received.                    *)
(*                                                                          *)
(* Which turn a frame is about, and frames of cancelled turns, are the      *)
(* matter of SseNormalizer and SessionFence and left out here.              *)
(***************************************************************************)
EXTENDS EventMapper

CONSTANTS
    Readers,
    Messages, Calls,
    TurnOf,       \* the turn of a message or a call
    TextOf,       \* the text of a message, a sequence of letters
    DeltaIds,     \* how deltas name their message: "item", "stream", "none"
    PageSize,     \* the limit of readHistory
    MaxRequests,  \* bound: streams a reader opens and pages it reads, together
    MaxWaiting,   \* bound: frames that wait for a reader, when more are said
    NoTurn, NoMessage

ASSUME SessionEventsAssumption ==
    /\ TurnOf \in [Messages \cup Calls -> Turns]
    /\ \A m \in Messages : TextOf[m] # <<>>
    /\ DeltaIds \subseteq {"item", "stream", "none"}
    /\ PageSize \in Nat \ {0} /\ MaxRequests \in Nat /\ MaxWaiting \in Nat

VARIABLES
    items,      \* what the server has persisted
    outcome,    \* how it stands with each turn
    active,     \* the turn that runs
    message,    \* the message in the making: [id, n, by], n letters said
    filed,      \* eventSequences: the number an event's key was given
    next,       \* nextEventSequences
    delivered,  \* deliveredTextEventsByTurnIds: [turn, from, text, at]
    reader,     \* each reader's stream or request, and its cursor
    got         \* what each reader has received

server == <<items, outcome, active, message>>
numbering == <<filed, next>>
vars == <<server, numbering, delivered, reader, got>>

Idle == [pc |-> "off", from |-> 0, batch |-> <<>>, mapper |-> NewMapper(<<>>), queue |-> <<>>]
NewReader == [call |-> Idle, cursor |-> 0, whole |-> 0, requests |-> 0]
Nothing == [started |-> {}, calls |-> {}, results |-> {},
            text |-> [t \in Turns |-> <<>>], ends |-> [t \in Turns |-> <<>>]]

Init ==
    /\ items = <<>> /\ outcome = [t \in Turns |-> "accepted"]
    /\ active = NoTurn /\ message = NoMessage
    /\ filed = EmptyMap /\ next = 1 /\ delivered = {}
    /\ reader = [r \in Readers |-> NewReader]
    /\ got = [r \in Readers |-> Nothing]

-----------------------------------------------------------------------------
(* The server. *)

Raw(type, turn, id, what) == [type |-> type, turn |-> turn, id |-> id, what |-> what]
Item(type, turn, id, what) ==
    [type |-> type, turn |-> turn, id |-> id, what |-> what, interrupted |-> FALSE]
Persisted(id) == \E i \in DOMAIN items : items[i].id = id

(* Frames are read by the streams that are open. *)
Streams(r) == reader[r].call.pc \in {"opened", "streaming"}
Broadcast(frames) ==
    /\ \A r \in Readers : Len(reader[r].call.queue) <= MaxWaiting
    /\ reader' = [r \in Readers |->
                    IF Streams(r) THEN [reader[r] EXCEPT !.call.queue = @ \o frames]
                    ELSE reader[r]]
ServerOnly == UNCHANGED <<numbering, delivered, got>>

DeltaId(m, by) ==
    CASE by = "item" -> m [] by = "stream" -> <<"stream", m>> [] by = "none" -> NoId

StartTurn(t) ==
    /\ active = NoTurn /\ outcome[t] = "accepted"
    /\ active' = t /\ outcome' = [outcome EXCEPT ![t] = "running"]
    /\ items' = Append(items, Item("user", t, <<"user", t>>, <<>>))
    /\ Broadcast(<<Raw("created", t, NoId, <<>>)>>)
    /\ UNCHANGED message /\ ServerOnly

BeginMessage(m, by) ==
    /\ active = TurnOf[m] /\ message = NoMessage /\ ~Persisted(m)
    /\ message' = [id |-> m, n |-> 1, by |-> by]
    /\ Broadcast(<<Raw("delta", active, DeltaId(m, by), SubSeq(TextOf[m], 1, 1))>>)
    /\ UNCHANGED <<items, outcome, active>> /\ ServerOnly

NextDelta ==
    /\ message # NoMessage /\ message.n < Len(TextOf[message.id])
    /\ message' = [message EXCEPT !.n = @ + 1]
    /\ Broadcast(<<Raw("delta", active, DeltaId(message.id, message.by),
                       <<TextOf[message.id][message.n + 1]>>)>>)
    /\ UNCHANGED <<items, outcome, active>> /\ ServerOnly

(* A message may also come without deltas. *)
EndMessage(m) ==
    /\ active = TurnOf[m] /\ ~Persisted(m)
    /\ message # NoMessage => message.id = m /\ message.n = Len(TextOf[m])
    /\ message' = NoMessage
    /\ items' = Append(items, Item("message", active, m, TextOf[m]))
    /\ Broadcast(<<Raw("message", active, m, TextOf[m])>>)
    /\ UNCHANGED <<outcome, active>> /\ ServerOnly

(* A call and its result: their ids in frames are not those of the items.   *)
UseTool(c) ==
    /\ active = TurnOf[c] /\ message = NoMessage /\ ~Persisted(<<"call", c>>)
    /\ items' = items \o <<Item("call", active, <<"call", c>>, c),
                           Item("result", active, <<"result", c>>, c)>>
    /\ Broadcast(<<Raw("call", active, <<"streamed", c>>, c),
                   Raw("result", active, <<"answered", c>>, c)>>)
    /\ UNCHANGED <<outcome, active, message>> /\ ServerOnly

(* Success leaves no item, a failure an error, a cancellation the message  *)
(* it interrupted; the end is marked twice: response.* and turn.*.          *)
EndTurn(how) ==
    LET mark == Raw("end", active, NoId, how)
        marks == <<mark, mark>>
        cut == SubSeq(TextOf[message.id], 1, message.n)
        interrupts == how = "cancelled" /\ message # NoMessage
    IN  /\ active # NoTurn
        /\ how = "completed" => message = NoMessage
        /\ items' = CASE how = "failed" ->
                           Append(items, Item("error", active, <<"error", active>>, <<>>))
                      [] interrupts ->
                           Append(items, [Item("message", active, message.id, cut)
                                            EXCEPT !.interrupted = TRUE])
                      [] OTHER -> items
        /\ outcome' = [outcome EXCEPT ![active] = how]
        /\ active' = NoTurn /\ message' = NoMessage
        /\ Broadcast(IF interrupts THEN <<Raw("message", active, message.id, cut)>> \o marks
                     ELSE marks)
        /\ ServerOnly

(* What a new stream begins with, if there is a response in flight. *)
InFlight ==
    LET created == <<Raw("created", active, NoId, <<>>)>>
        said == IF message = NoMessage THEN <<>>
                ELSE <<Raw("delta", active, DeltaId(message.id, message.by),
                           SubSeq(TextOf[message.id], 1, message.n))>>
    IN  {<<>>} \cup (IF active = NoTurn THEN {} ELSE {created \o said})

-----------------------------------------------------------------------------
(* The provider and its readers. *)

(* Events with their numbers, given to a reader: recordDeliveredText. *)
Recorded(record, n) ==
    IF n.event.type # "text" \/ \E d \in record : d.at = n.seq THEN record
    ELSE record \cup {[turn |-> n.event.turn, from |-> n.event.from, text |-> n.event.what,
                       at |-> n.seq]}

Received(have, n) ==
    LET e == n.event
    IN  CASE e.type = "started" -> [have EXCEPT !.started = @ \cup {e.turn}]
          [] e.type = "text" -> [have EXCEPT !.text[e.turn] = @ \o e.what]
          [] e.type = "call" -> [have EXCEPT !.calls = @ \cup {e.what}]
          [] e.type = "result" -> [have EXCEPT !.results = @ \cup {e.what}]
          [] e.type = "ended" -> [have EXCEPT !.ends[e.turn] = Append(@, e.what)]

(* reduceTurnState and requireSingleTerminalEvent, over what was received. *)
Reduced(have, t) ==
    IF have.ends[t] # <<>> THEN have.ends[t][1]
    ELSE IF t \in have.started THEN "running" ELSE "accepted"
SingleTerminal(have, t) == Len(have.ends[t]) <= 1

Give(r, numbered) ==
    /\ delivered' = FoldLeft(Recorded, delivered, numbered)
    /\ got' = [got EXCEPT ![r] = FoldLeft(Received, @, numbered)]

\* As CursorAfter, but the cursor is the number of the next event.
CursorOfNext(r, numbered) ==
    IF numbered = <<>> THEN reader[r].cursor ELSE numbered[Len(numbered)].seq + 1

CursorAfter(r, numbered) ==
    IF numbered = <<>> THEN reader[r].cursor ELSE numbered[Len(numbered)].seq

(* Trimmed and numbered, in that order, then only what is after the cursor. *)
Numbered(events, from, floor) ==
    Resequence(filed, next, Trim(events, delivered, from), floor)
Beyond(numbered, from) == SelectSeq(numbered, LAMBDA n : n.seq > from)
Renumber(book) == filed' = book.filed /\ next' = book.next

(* streamEvents: openSessionStream *)
Open(r) ==
    /\ reader[r].call = Idle /\ reader[r].requests < MaxRequests
    /\ \E frames \in InFlight :
         reader' = [reader EXCEPT
                      ![r].requests = @ + 1,
                      ![r].call = [Idle EXCEPT !.pc = "opened", !.from = reader[r].cursor,
                                               !.queue = frames]]
    /\ UNCHANGED <<server, numbering, delivered, got>>

(* getHistory, and after the snapshot the history is trimmed and numbered.  *)
(* What arrives in between waits in the queue.                              *)
Replay(r) ==
    LET call == reader[r].call
        book == Numbered(MapHistory(items).events, call.from, 0)
    IN  /\ call.pc = "opened"
        /\ Renumber(book)
        /\ reader' = [reader EXCEPT ![r].call.pc = "streaming",
                                    ![r].call.mapper = NewMapper(items),
                                    ![r].call.batch = Beyond(book.events, call.from)]
        /\ UNCHANGED <<server, delivered, got>>

(* The reader asks for one more event of the replay. *)
TakeReplayed(r) ==
    LET call == reader[r].call
        one == SubSeq(call.batch, 1, 1)
    IN  /\ call.pc = "streaming" /\ call.batch # <<>>
        /\ Give(r, one)
        /\ reader' = [reader EXCEPT ![r].cursor = CursorAfter(r, one),
                                    ![r].call.batch = Tail(@)]
        /\ UNCHANGED <<server, numbering>>

(* The reader asks for more, and a frame is read. *)
TakeFrame(r) ==
    LET call == reader[r].call
        mapped == MapFrame(call.mapper, Head(call.queue))
        book == Numbered(mapped.events, call.from, call.from)
        new == Beyond(book.events, call.from)
    IN  /\ call.pc = "streaming" /\ call.batch = <<>> /\ call.queue # <<>>
        /\ Renumber(book)
        /\ Give(r, new)
        /\ reader' = [reader EXCEPT ![r].cursor = CursorAfter(r, new),
                                    ![r].call.mapper = mapped.mapper,
                                    ![r].call.queue = Tail(@)]
        /\ UNCHANGED server

(* The connection breaks, or the reader stops.  (One that breaks before it *)
(* gave an event is as if it had not been opened.)                          *)
Drop(r) ==
    /\ reader[r].call.pc = "streaming"
    /\ reader' = [reader EXCEPT ![r].call = Idle]
    /\ UNCHANGED <<server, numbering, delivered, got>>

(* readHistory after the reader's cursor, which becomes nextCursor.  whole  *)
(* remembers how much history there was when a page was the last.           *)
ReadHistory(r) ==
    LET book == Numbered(MapHistory(items).events, reader[r].cursor, 0)
        all == Beyond(book.events, reader[r].cursor)
        page == IF Len(all) > PageSize THEN SubSeq(all, 1, PageSize) ELSE all
    IN  /\ reader[r].call = Idle /\ reader[r].requests < MaxRequests
        /\ Renumber(book)
        /\ Give(r, page)
        /\ reader' = [reader EXCEPT ![r].requests = @ + 1,
                                    ![r].cursor = CursorAfter(r, page),
                                    ![r].whole = IF page = all THEN Len(items) ELSE @]
        /\ UNCHANGED server

-----------------------------------------------------------------------------
Server ==
    \/ \E t \in Turns : StartTurn(t)
    \/ \E m \in Messages, by \in DeltaIds : BeginMessage(m, by)
    \/ NextDelta
    \/ \E m \in Messages : EndMessage(m)
    \/ \E c \in Calls : UseTool(c)
    \/ \E how \in {"completed", "failed", "cancelled"} : EndTurn(how)

Reader(r) ==
    \/ Open(r) \/ Replay(r) \/ TakeReplayed(r) \/ TakeFrame(r) \/ Drop(r) \/ ReadHistory(r)

Next == Server \/ \E r \in Readers : Reader(r)

Spec == Init /\ [][Next]_vars

-----------------------------------------------------------------------------
(* Properties. *)

(* A live stream that has read every frame knows all; a reader of pages    *)
(* knows what there was when its last page, the one that was not full, was  *)
(* read.                                                                    *)
CaughtUp(r) ==
    LET call == reader[r].call
    IN  IF call.pc = "streaming" /\ call.batch = <<>> /\ call.queue = <<>> THEN Len(items)
        ELSE reader[r].whole

Within(part, whole) ==
    FoldLeft(LAMBDA n, x : IF n < Len(part) /\ part[n + 1] = x THEN n + 1 ELSE n, 0, whole)
        = Len(part)

PersistedText(t, n) ==
    LET texts == SelectSeq(SubSeq(items, 1, n), LAMBDA i : i.type = "message" /\ i.turn = t)
    IN  FlattenSeq([k \in DOMAIN texts |-> texts[k].what])

Has(r, item) ==
    /\ item.turn \in got[r].started
    /\ item.type = "call" => item.what \in got[r].calls
    /\ item.type = "result" => item.what \in got[r].results
    /\ item.type = "error" \/ item.interrupted => got[r].ends[item.turn] # <<>>

\* Whoever has followed its cursor to the end of the history has every turn,
\* call, result, failure and cancellation in it, and the text of each turn,
\* whatever part came letter by letter, as a whole or after a break.
NothingLost ==
    \A r \in Readers :
        LET n == CaughtUp(r)
        IN  /\ \A i \in 1 .. n : Has(r, items[i])
            /\ \A t \in Turns : Within(PersistedText(t, n), got[r].text[t])

\* A reader is told once that a turn is over, by a frame or by the history,
\* across its connections and pages, and the state it reduces the events of
\* the turn to is the one the turn has or had (requireSingleTerminalEvent in
\* state-machines.ts calls a second terminal event a protocol failure).
OneTerminal ==
    \A r \in Readers, t \in Turns :
        /\ SingleTerminal(got[r], t)
        /\ Reduced(got[r], t) \in {"accepted", "running", outcome[t]}
=============================================================================
