------------------------- MODULE MCAppendOnlyStore -------------------------
(* A small instance of AppendOnlyStore for TLC: its writers are alike. *)
EXTENDS AppendOnlyStore, TLC

Interchangeable == Permutations(Stores)
=============================================================================
