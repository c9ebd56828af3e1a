-------------------------- MODULE MCSessionEvents --------------------------
(* Instances of SessionEvents: two messages of a turn and one call.  Alike *)
(* texts begin with the same letter, unlike ones share none.                *)
EXTENDS SessionEvents, TLC

CONSTANTS t1, m1, m2, c1

TwoMessages == (m1 :> t1) @@ (m2 :> t1)
SameTurn == TwoMessages @@ (c1 :> t1)
Alike == (m1 :> <<"a", "b">>) @@ (m2 :> <<"a">>)
Unlike == (m1 :> <<"a", "b">>) @@ (m2 :> <<"c">>)
=============================================================================
