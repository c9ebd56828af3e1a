---------------------------- MODULE AppendOnlyLog ----------------------------
(***************************************************************************)
(* What the state ledger promises its users: a log of records with          *)
(* increasing sequence numbers.  A record is added above every sequence     *)
(* number the log ever had, and retention removes records without changing  *)
(* the others or giving their numbers back.                                 *)
(***************************************************************************)
EXTENDS Integers, Sequences, Subsequence

CONSTANT RecordIds

VARIABLES log,        \* the records a reader may see
          highWater   \* the largest sequence number the log ever had

Init == log = <<>> /\ highWater = 0

\* A record with a fresh sequence number and an identity the log lacks.
Add(id, seq) ==
  /\ seq > highWater
  /\ \A k \in DOMAIN log : log[k].id # id
  /\ log' = Append(log, [id |-> id, seq |-> seq])
  /\ highWater' = seq

\* Retention keeps the records with the given identities, in order.
Prune(ids) ==
  /\ log' = Subsequence(log, {k \in DOMAIN log : log[k].id \in ids})
  /\ UNCHANGED highWater

Next ==
  \/ \E id \in RecordIds : Add(id, highWater + 1)
  \/ \E ids \in SUBSET RecordIds : Prune(ids)

Spec == Init /\ [][Next]_<<log, highWater>>
=============================================================================
