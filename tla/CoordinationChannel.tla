------------------------ MODULE CoordinationChannel ------------------------
(***************************************************************************)
(* The pure part of LocalCoordinationChannel (coordination-channel.ts):    *)
(* what send does to the messages it read, and what a page of list is.     *)
(* Times are seconds, as created_at has them; an id stands for message_id, *)
(* whose order has nothing to do with the order of sending.                *)
(***************************************************************************)
EXTENDS Naturals, Sequences, FiniteSets, SequencesExt, Subsequence

CONSTANTS
    InboxTtl,   \* INBOX_TTL_MS, in the model's seconds
    Capacity,   \* 10000 in the code
    PageLimit,  \* the limit of a query
    WholeRepo   \* the scope of granularity "repo", which meets every scope

Unexpired(m, now) == m.at + InboxTtl > now

(* send's map and filter: a future time becomes now, the expired go. *)
Dated(m, now) == IF m.at > now THEN [m EXCEPT !.at = now] ELSE m
DatedAll(messages, now) == [i \in DOMAIN messages |-> Dated(messages[i], now)]
Normalized(messages, now) ==
    Subsequence(DatedAll(messages, now),
                {i \in DOMAIN messages : Unexpired(Dated(messages[i], now), now)})

Full(messages, now) == Len(Normalized(messages, now)) >= Capacity

(***************************************************************************)
(* The file after a send.  A refused send still makes the corrected times  *)
(* durable, if there were any, and with them the pruning.                  *)
(***************************************************************************)
Sent(messages, m, now) ==
    IF ~Full(messages, now) THEN Append(Normalized(messages, now), m)
    ELSE IF DatedAll(messages, now) # messages THEN Normalized(messages, now)
    ELSE messages

(* compareCoordinationTuple *)
Before(a, b) == a.at < b.at \/ (a.at = b.at /\ a.id < b.id)

(* scopeMatches, for scopes that are otherwise disjoint. *)
ScopeMatches(m, scope) == m.scope = scope \/ WholeRepo \in {m.scope, scope}

(* list: the unexpired messages of the scope after the cursor, cut at the *)
(* limit: those with fewer than PageLimit of them before.                 *)
Waiting(messages, scope, cursor, now) ==
    {m \in ToSet(messages) : /\ Unexpired(m, now)
                             /\ ScopeMatches(m, scope)
                             /\ Before(cursor, m)}
Page(messages, scope, cursor, now) ==
    LET waiting == Waiting(messages, scope, cursor, now)
    IN  {m \in waiting : Cardinality({n \in waiting : Before(n, m)}) < PageLimit}

(* The page's last message, in whose place the next query starts. *)
LatestOf(page) == CHOOSE m \in page : \A n \in page \ {m} : Before(n, m)
=============================================================================
