---------------------------- MODULE Subsequence ----------------------------
(***************************************************************************)
(* What is left of a sequence when only some of its positions are kept, in  *)
(* their order: the filter by which the lease store trims its history and   *)
(* the ledger selects what a compaction keeps.  It is defined by ranks,     *)
(* not by recursion, so that it can be reasoned about.                      *)
(***************************************************************************)
EXTENDS Integers, Sequences, FiniteSets

\* How many members of S are below i, and the member with k - 1 below it.
Rank(S, i) == Cardinality({j \in S : j < i})
Nth(S, k)  == CHOOSE i \in S : Rank(S, i) = k - 1

Subsequence(s, S) == [k \in 1..Cardinality(S) |-> s[Nth(S, k)]]
=============================================================================
