---------------------------- MODULE EventMapper ----------------------------
(***************************************************************************)
(* From what the server says to the neutral events of a session:           *)
(* OmnigentEventMapper maps one frame of an event stream, after the history *)
(* that was read when the stream was opened; mapOmnigentConversationHistory *)
(* maps the persisted items; the last part numbers events, and takes from   *)
(* them the text that a cursor has behind it already (http-provider.ts).    *)
(*                                                                          *)
(* A text is a sequence of letters.  An item has the one text block; its id *)
(* is the message's or the call's.  The raw frames are records              *)
(*   [type, turn, id, what]: id is the message id of a delta (NoId if it    *)
(*   has none) or the item id; what is the text, the call, or how the turn  *)
(*   ended.                                                                 *)
(* A runtime event is a record [type, turn, what, from, key]: from is the   *)
(* message it is known to belong to, key what its number is filed under;    *)
(* NoKey stands for a key that no other event has (live deltas).            *)
(***************************************************************************)
EXTENDS Naturals, Sequences, SequencesExt

CONSTANTS Turns, NoId, NoKey

After(s, n) == SubSeq(s, n + 1, Len(s))
EmptyMap == [x \in {} |-> <<>>]
At(map, x) == IF x \in DOMAIN map THEN map[x] ELSE <<>>
Put(map, x, v) == [y \in DOMAIN map \cup {x} |-> IF y = x THEN v ELSE map[y]]
Without(map, x) == [y \in DOMAIN map \ {x} |-> map[y]]

Event(type, turn, what, from, key) ==
    [type |-> type, turn |-> turn, what |-> what, from |-> from, key |-> key]
StartedEvent(t) == Event("started", t, <<>>, NoId, <<"started", t>>)
EndedEvent(t, how) == Event("ended", t, how, NoId, <<"ended", t, how>>)
CallEvent(t, c) == Event("call", t, c, NoId, <<"call", c>>)
ResultEvent(t, c) == Event("result", t, c, NoId, <<"result", c>>)

(***************************************************************************)
(* mapOmnigentConversationHistory.  Items: the user's message, the         *)
(* assistant's with its text and whether it was interrupted, a call, its    *)
(* result, an error.  Success is in no item.                                *)
(***************************************************************************)
ItemEvents(item, mapped) ==
    LET begun == IF item.turn \in mapped.started THEN <<>> ELSE <<StartedEvent(item.turn)>>
        end(how) == IF item.turn \in mapped.ended THEN <<>> ELSE <<EndedEvent(item.turn, how)>>
    IN  CASE item.type = "user" -> begun
          [] item.type = "message" ->
               begun \o <<Event("text", item.turn, item.what, item.id, <<"text", item.id>>)>>
                     \o (IF item.interrupted THEN end("cancelled") ELSE <<>>)
          [] item.type = "call" -> begun \o <<CallEvent(item.turn, item.what)>>
          [] item.type = "result" -> begun \o <<ResultEvent(item.turn, item.what)>>
          [] item.type = "error" ->
               IF item.turn \in mapped.ended THEN <<>> ELSE begun \o end("failed")

MapItem(mapped, item) ==
    LET events == ItemEvents(item, mapped)
        turnsOf(type) == {events[i].turn : i \in {j \in DOMAIN events : events[j].type = type}}
    IN  [events |-> mapped.events \o events,
         started |-> mapped.started \cup turnsOf("started"),
         ended |-> mapped.ended \cup turnsOf("ended")]

MapHistory(items) ==
    FoldLeft(MapItem, [events |-> <<>>, started |-> {}, ended |-> {}], items)

(***************************************************************************)
(* The mapper of a connection, seeded with the history.  past is           *)
(* historicalTextByMessageId, passed historicalMessagesByTurnId, sent      *)
(* emittedTextByMessageId, loose emittedUnidentifiedTextByTurnId, pending   *)
(* pendingMessageIdsByTurnId.                                               *)
(***************************************************************************)
NewMapper(items) ==
    LET mapped == MapHistory(items)
        kind(type) == SelectSeq(items, LAMBDA i : i.type = type)
        whats(type) == {kind(type)[i].what : i \in DOMAIN kind(type)}
        messages == kind("message")
    IN  [started |-> mapped.started, ended |-> mapped.ended,
         calls |-> whats("call"), results |-> whats("result"),
         seen |-> {items[i].id : i \in DOMAIN items},
         past |-> [m \in {messages[i].id : i \in DOMAIN messages} |->
                     messages[SelectInSeq(messages, LAMBDA x : x.id = m)].what],
         passed |-> [t \in Turns |-> SelectSeq(messages, LAMBDA x : x.turn = t)],
         sent |-> EmptyMap,
         loose |-> [t \in Turns |-> <<>>],
         pending |-> [t \in Turns |-> <<>>]]

Mapped(mapper, events) == [mapper |-> mapper, events |-> events]

(* The persisted message a delta may be the replay of: by its id, by equal *)
(* text, by a text it begins or ends.                                       *)
PassedIndex(messages, raw) ==
    LET first(P(_)) == SelectInSeq(messages, P)
        same == first(LAMBDA m : m.id = raw.id)
        equal == first(LAMBDA m : m.what = raw.what)
        part == first(LAMBDA m : IsPrefix(raw.what, m.what) \/ IsSuffix(raw.what, m.what))
    IN  IF same > 0 THEN same ELSE IF equal > 0 THEN equal ELSE part

Claimed(mapper, raw) ==
    LET i == PassedIndex(mapper.passed[raw.turn], raw)
        claimed == [mapper EXCEPT !.passed[raw.turn] = RemoveAt(@, i)]
    IN  IF i = 0 THEN mapper
        ELSE IF raw.id \in DOMAIN mapper.past THEN claimed
        ELSE [claimed EXCEPT !.past = Put(@, raw.id, mapper.passed[raw.turn][i].what)]

(* The part of a persisted text that a delta does not replay, and whether  *)
(* the delta replays any: from its beginning, or its very end.              *)
FirstAt(s, part) == IndexFirstSubSeq(part, s)
Replays(rest, text) ==
    \/ IsPrefix(text, rest)
    \/ IsSuffix(text, rest) /\ FirstAt(rest, text) + Len(text) - 1 = Len(rest)
RestAfter(rest, text) == IF IsPrefix(text, rest) THEN After(rest, Len(text)) ELSE <<>>

(* mapTextDelta, from where it has a text to emit. *)
EmitDelta(mapper, raw, text) ==
    LET sent == [mapper EXCEPT !.sent = Put(@, raw.id, At(@, raw.id) \o text),
                               !.pending[raw.turn] =
                                   IF Contains(@, raw.id) THEN @ ELSE Append(@, raw.id)]
        unidentified == [mapper EXCEPT !.loose[raw.turn] = @ \o text]
    IN  Mapped(IF raw.id = NoId THEN unidentified ELSE sent,
               <<Event("text", raw.turn, text, raw.id, NoKey)>>)

MapDelta(mapper, raw) ==
    LET claimed == Claimed(mapper, raw)
        rest == claimed.past[raw.id]
        left == RestAfter(rest, raw.what)
        done == [claimed EXCEPT !.past = Without(@, raw.id)]
        fresh == IF IsPrefix(rest, raw.what) THEN After(raw.what, Len(rest)) ELSE raw.what
    IN  IF raw.id = NoId THEN EmitDelta(mapper, raw, raw.what)
        ELSE IF raw.id \notin DOMAIN claimed.past THEN EmitDelta(claimed, raw, raw.what)
        ELSE IF Replays(rest, raw.what)
             THEN Mapped(IF left = <<>> THEN done
                         ELSE [claimed EXCEPT !.past[raw.id] = left], <<>>)
        ELSE EmitDelta(done, raw, fresh)

(***************************************************************************)
(* mapOutputItem for a message: what of it was not emitted delta by delta, *)
(* under its own id, under that of a pending stream message whose text      *)
(* fits, or without any id.                                                 *)
(***************************************************************************)
PendingIndex(mapper, raw) ==
    SelectInSeq(mapper.pending[raw.turn], LAMBDA m :
        IF raw.id \in DOMAIN mapper.sent THEN m = raw.id
        ELSE LET text == At(mapper.sent, m)
             IN  text # <<>> /\ (IsPrefix(text, raw.what) \/ IsPrefix(raw.what, text)))

EmittedOf(mapper, raw) ==
    LET i == PendingIndex(mapper, raw)
    IN  IF raw.id \in DOMAIN mapper.sent THEN mapper.sent[raw.id]
        ELSE IF i > 0 THEN At(mapper.sent, mapper.pending[raw.turn][i])
        ELSE mapper.loose[raw.turn]

MapMessage(mapper, raw) ==
    LET emitted == EmittedOf(mapper, raw)
        i == PendingIndex(mapper, raw)
        delta == IF IsPrefix(emitted, raw.what) THEN After(raw.what, Len(emitted))
                 ELSE IF IsPrefix(raw.what, emitted) THEN <<>>
                 ELSE raw.what
    IN  Mapped([mapper EXCEPT !.pending[raw.turn] = IF i = 0 THEN @ ELSE RemoveAt(@, i),
                              !.sent = Put(@, raw.id, raw.what),
                              !.loose[raw.turn] = <<>>],
               IF delta = <<>> THEN <<>>
               ELSE <<Event("text", raw.turn, delta, raw.id, <<"item", raw.id>>)>>)

MapCall(mapper, raw) ==
    Mapped([mapper EXCEPT !.calls = @ \cup {raw.what}],
           IF raw.what \in mapper.calls THEN <<>> ELSE <<CallEvent(raw.turn, raw.what)>>)
MapResult(mapper, raw) ==
    Mapped([mapper EXCEPT !.results = @ \cup {raw.what}],
           IF raw.what \in mapper.results THEN <<>> ELSE <<ResultEvent(raw.turn, raw.what)>>)
MapCreated(mapper, raw) ==
    Mapped([mapper EXCEPT !.started = @ \cup {raw.turn}],
           IF raw.turn \in mapper.started THEN <<>> ELSE <<StartedEvent(raw.turn)>>)

\* As MapEnd, but the end of a turn is not remembered.
MapEveryEnd(mapper, raw) == Mapped(mapper, <<EndedEvent(raw.turn, raw.what)>>)

(* mapTerminalEvent and mapFailedEvent, of a turn that goes by its response id
   throughout: turnAliasId, which they look up too, is left out, and so are the
   ends timed_out and incomplete. *)
MapEnd(mapper, raw) ==
    Mapped([mapper EXCEPT !.ended = @ \cup {raw.turn}],
           IF raw.turn \in mapper.ended THEN <<>> ELSE <<EndedEvent(raw.turn, raw.what)>>)

IsItem(raw) == raw.type \in {"message", "call", "result"}

(* OmnigentEventMapper.map: an item is mapped once, and never if history had it. *)
MapFrame(mapper, raw) ==
    LET noted == IF IsItem(raw) THEN [mapper EXCEPT !.seen = @ \cup {raw.id}] ELSE mapper
    IN  IF IsItem(raw) /\ raw.id \in mapper.seen THEN Mapped(mapper, <<>>)
        ELSE CASE raw.type = "created" -> MapCreated(noted, raw)
               [] raw.type = "delta" -> MapDelta(noted, raw)
               [] raw.type = "message" -> MapMessage(noted, raw)
               [] raw.type = "call" -> MapCall(noted, raw)
               [] raw.type = "result" -> MapResult(noted, raw)
               [] raw.type = "end" -> MapEnd(noted, raw)

(***************************************************************************)
(* trimDeliveredHistoryText.  delivered is a set of                        *)
(* [turn, from, text, at], at being the number the text was delivered under *)
(***************************************************************************)
Gathered(groups, d) ==
    LET i == SelectInSeq(groups, LAMBDA g : g.from = d.from)
    IN  IF i = 0 THEN Append(groups, [from |-> d.from, text |-> d.text])
        ELSE [groups EXCEPT ![i].text = @ \o d.text]

(* deliveredTextForCursor *)
DeliveredTo(delivered, turn, cursor) ==
    FoldLeft(Gathered, <<>>,
             SetToSortSeq({d \in delivered : d.turn = turn /\ d.at <= cursor},
                          LAMBDA a, b : a.at < b.at))

(* groupTextEvents: an item is one block of text, so a group is one event. *)
Texts(events, turn) == SelectSeq(events, LAMBDA e : e.type = "text" /\ e.turn = turn)

SameMessage(e, g) == e.from # NoId /\ e.from = g.from
SameText(e, g) == e.what = g.text
Compatible(e, g) == IsPrefix(g.text, e.what) \/ IsPrefix(e.what, g.text)
Matches(e, g, by) ==
    CASE by = "id" -> SameMessage(e, g)
      [] by = "text" -> SameText(e, g)
      [] by = "part" -> Compatible(e, g)

(* One pass of matchDeliveredTextGroups; pairs maps the place of an event  *)
(* to that of its group.                                                    *)
Pass(events, groups, pairs, by) ==
    FoldLeftDomain(LAMBDA found, i :
        LET free == {j \in DOMAIN groups :
                        /\ \A k \in DOMAIN found : found[k] # j
                        /\ Matches(events[i], groups[j], by)}
        IN  IF i \in DOMAIN found \/ free = {} THEN found
            ELSE Put(found, i, CHOOSE j \in free : \A k \in free : j <= k),
        pairs, events)

(* matchDeliveredTextGroups, but for its pass over equal times: events carry none *)
Pairs(events, groups) ==
    FoldLeft(LAMBDA pairs, by : Pass(events, groups, pairs, by),
             EmptyMap, <<"id", "text", "part">>)

Continuation(e, n) ==
    [e EXCEPT !.what = After(@, n), !.key = IF @ = NoKey THEN NoKey ELSE Append(@, n)]

Trimmed(e, g) ==
    CASE IsPrefix(e.what, g.text) -> <<>>
      [] IsPrefix(g.text, e.what) /\ g.text # e.what -> <<Continuation(e, Len(g.text))>>
      [] OTHER -> <<e>>

Trim(events, delivered, cursor) ==
    LET texts(t) == Texts(events, t)
        groups(t) == DeliveredTo(delivered, t, cursor)
        trimmed(e) ==
            LET i == SelectInSeq(texts(e.turn), LAMBDA x : x = e)
                pairs == Pairs(texts(e.turn), groups(e.turn))
            IN  IF e.type = "text" /\ i \in DOMAIN pairs
                THEN Trimmed(e, groups(e.turn)[pairs[i]]) ELSE <<e>>
    IN  FlattenSeq([i \in DOMAIN events |-> trimmed(events[i])])

(***************************************************************************)
(* resequenceRuntimeEvents: an event keeps the number its key was given,   *)
(* or takes the next; seq is the number.                                    *)
(***************************************************************************)
Number(book, e) ==
    LET known == e.key \in DOMAIN book.filed
        n == IF known THEN book.filed[e.key] ELSE book.next
    IN  [filed |-> IF known \/ e.key = NoKey THEN book.filed ELSE Put(book.filed, e.key, n),
         next |-> IF known THEN book.next ELSE book.next + 1,
         events |-> Append(book.events, [event |-> e, seq |-> n])]

Max0(a, b) == IF a >= b THEN a ELSE b
Resequence(filed, next, events, floor) ==
    FoldLeft(Number, [filed |-> filed, next |-> Max0(next, floor + 1), events |-> <<>>], events)
=============================================================================
