--------------------------- MODULE SseNormalizer ---------------------------
(***************************************************************************)
(* OmnigentSseNormalizer (packages/omnigent-transport/src/sse-stream.ts):    *)
(* the part of a session stream that decides which turn a frame is about.    *)
(* A frame carries a response id or none; the normalizer remembers the turn  *)
(* ids the provider sent and has not seen a response for (unbound), and      *)
(* gives the first of them to the first frame of an unknown response.        *)
(*                                                                         *)
(* The state of one normalizer is a record, its methods are operators from   *)
(* record to record.  Of a frame only its response id, whether it is         *)
(* terminal and its kind matter here; everything else it carries is payload. *)
(* Bare turn.* frames and restoreRejectedTurnId, which only a retry of the    *)
(* same idempotency key calls, are left out.                                 *)
(***************************************************************************)
EXTENDS Integers, Sequences, SequencesExt

CONSTANTS
  Ids,   \* turn ids: the provider's own, and the server's response ids
  NoId   \* undefined

NewNormalizer ==
  [current    |-> NoId,                    \* currentResponseId
   fallback   |-> NoId,                    \* fallbackTurnId
   quarantine |-> NoId,                    \* identityFreeQuarantineTurnId
   known      |-> {},                      \* knownResponseIds
   rejected   |-> {},                      \* rejectedTurnIds
   alias      |-> [i \in Ids |-> NoId],    \* responseAliases
   tentative  |-> [i \in Ids |-> NoId],    \* tentativeResponseAliases
   unbound    |-> <<>>,                    \* unboundTurnIds
   ended      |-> <<>>,                    \* pendingTerminalTurnIds
   ambiguous  |-> FALSE]                   \* pendingTerminalAmbiguous

Without(s, ids) == SelectSeq(s, LAMBDA i : i \notin ids)

Defined(a, b) == IF a # NoId THEN a ELSE b     \* a ?? b

\* The turn id is waiting for a response, or already has one.
Tracked(n, id) ==
  Contains(n.unbound, id) \/ Contains(n.ended, id) \/ \E r \in Ids : n.alias[r] = id

bindResponseAlias(n, r, id) ==
  [n EXCEPT !.alias[r] = id, !.tentative[r] = NoId,
            !.unbound = Without(@, {id}), !.ended = Without(@, {id})]

bindResponseId(n, r, id) ==
  IF r \in n.rejected THEN n
  ELSE bindResponseAlias([n EXCEPT !.known = @ \cup {r}], r, id)

setActiveResponseId(n, r) ==
  IF r \in n.rejected
  THEN [n EXCEPT !.current = NoId, !.quarantine = r]
  ELSE [n EXCEPT !.current = r,
                 !.quarantine = IF r # NoId THEN NoId ELSE @,
                 !.known = @ \cup ({r} \ {NoId}),
                 !.tentative = IF r # NoId /\ n.unbound # <<>> /\ n.alias[r] = NoId
                               THEN [@ EXCEPT ![r] = Head(n.unbound)] ELSE @]

setFallbackTurnId(n, id) ==
  IF id \in n.rejected THEN n
  ELSE [n EXCEPT !.fallback = id,
                 !.quarantine = IF @ = id THEN NoId ELSE @,
                 !.unbound = IF Tracked(n, id) THEN @ ELSE Append(@, id)]

\* removeFallbackTurnId for each of a set of ids.
removeFallbackTurnIds(n, ids) ==
  [n EXCEPT !.fallback = IF @ \in ids THEN NoId ELSE @,
            !.unbound = Without(@, ids), !.ended = Without(@, ids),
            !.alias = [r \in Ids |-> IF @[r] \in ids THEN NoId ELSE @[r]],
            !.tentative = [r \in Ids |-> IF @[r] \in ids THEN NoId ELSE @[r]]]

quarantineFallbackTurnId(n, id) ==
  [n EXCEPT !.rejected = @ \cup {id}, !.quarantine = id,
            !.unbound = IF Tracked(n, id) THEN @ ELSE Append(@, id)]

\* rejectTurnId for each of a set of ids.
rejectTurnIds(n, ids) ==
  LET m == removeFallbackTurnIds(n, ids)
  IN  [m EXCEPT !.rejected = @ \cup ids, !.known = @ \ ids,
                !.quarantine = IF n.current \in ids THEN n.current ELSE @,
                !.current = IF @ \in ids THEN NoId ELSE @]

replaceFallbackTurnId(n, old, new) ==
  LET rename(i) == IF i = old THEN new ELSE i
      renamed(s) == IF Contains(s, old) /\ Contains(s, new) THEN Without(s, {old})
                    ELSE [k \in DOMAIN s |-> rename(s[k])]
  IN  [n EXCEPT !.fallback = rename(@), !.unbound = renamed(@), !.ended = renamed(@),
                !.alias = [r \in Ids |-> rename(@[r])],
                !.tentative = [r \in Ids |-> rename(@[r])]]

(***************************************************************************)
(* normalize.  First the turn the frame is about, then the turn id that the  *)
(* response goes by at the provider (turnAliasId), taken from what is bound, *)
(* from a tentative binding, or from the waiting turns; at last what the     *)
(* frame leaves behind.                                                      *)
(***************************************************************************)
Correlation(n, r, terminal) ==
  LET rejected == r \in n.rejected
      given    == n.alias[Defined(r, n.current)]
      fresh    == r # NoId /\ ~rejected
      tried    == IF fresh /\ n.alias[r] = NoId THEN n.tentative[r] ELSE NoId
      unknown  == fresh /\ n.alias[r] = NoId /\ tried = NoId /\ r \notin n.known
      base     == [n |-> n, alias |-> NoId, confirmed |-> FALSE]
      bound(m, id) == [n |-> bindResponseAlias(m, r, id), alias |-> id, confirmed |-> TRUE]
  IN  IF (r # NoId \/ n.current # NoId) /\ given # NoId
      THEN [base EXCEPT !.alias = given, !.confirmed = TRUE]
      ELSE IF tried # NoId THEN bound(n, tried)
      ELSE IF unknown /\ n.unbound # <<>> /\ (~terminal \/ n.ended = <<>>)
           THEN bound(n, Head(n.unbound))
      ELSE IF unknown /\ terminal /\ n.ended # <<>> /\ n.unbound = <<>>
           THEN LET one == ~n.ambiguous /\ Len(n.ended) = 1
                    m   == [n EXCEPT !.ended = Tail(@),
                                     !.ambiguous = @ /\ Len(n.ended) > 1]
                IN  IF one THEN bound(m, Head(n.ended))
                    ELSE [n |-> m, alias |-> Head(n.ended), confirmed |-> FALSE]
      ELSE base

Settle(n, r, turn, c, terminal) ==
  LET prev == n.current
      m    == [c.n EXCEPT !.known = IF r # NoId /\ r \notin n.rejected THEN @ \cup {r} ELSE @]
      idless == r = NoId /\ prev = NoId /\ turn # NoId /\ turn = n.fallback
      m1   == IF ~idless THEN m
              ELSE [m EXCEPT !.unbound = Without(@, {turn}),
                             !.ambiguous = @ \/ (m.ended # <<>> /\ ~Contains(m.ended, turn)),
                             !.ended = IF Contains(@, turn) THEN @ ELSE Append(@, turn)]
      m2   == IF c.confirmed THEN [m1 EXCEPT !.unbound = Without(@, {c.alias}),
                                             !.ended = Without(@, {c.alias})]
              ELSE m1
  IN  IF terminal
      THEN [m2 EXCEPT !.current = IF r = prev \/ (r = NoId /\ turn = prev) THEN NoId ELSE @,
                      !.fallback = IF @ \in {turn, c.alias} THEN NoId ELSE @]
      ELSE [m EXCEPT !.current = IF r # NoId /\ r \notin n.rejected THEN r ELSE @]

\* What normalize returns: the next state and the ids of the event.
normalize(n, r, terminal) ==
  LET q  == IF r = NoId THEN n.quarantine ELSE IF r \in n.rejected THEN r ELSE NoId
      m  == [n EXCEPT !.quarantine = q]
      fb == IF terminal /\ r = NoId /\ n.current = NoId /\ Len(n.unbound) # 1
            THEN NoId ELSE n.fallback
      turn == Defined(r, Defined(n.current, Defined(q, fb)))
      c  == Correlation(m, r, terminal)
  IN  [n |-> Settle(m, r, turn, c, terminal),
       turn |-> turn, alias |-> c.alias, confirmed |-> c.confirmed]
=============================================================================
