------------------------ MODULE MCCoordinationRoot -------------------------
(* A small instance of CoordinationRoot for TLC. *)
EXTENDS CoordinationRoot

CONSTANTS p1, p2, s1, s2,       \* processes, their slots
          claude, main, dev, top, scope   \* a provider, branches, a path, a scope

Cooldown == [kind |-> "cooldown", provider |-> claude]
Send == [kind |-> "send", scope |-> scope]
Lease(b) == [kind |-> "lease", branch |-> b, path |-> top]
Manage == [kind |-> "manage"]
AllOps == {Cooldown, Send, Lease(main), Lease(dev), Manage}

\* A fresh root, and one an older version left: a lease released in place and
\* a message from a clock that was ahead.
SomeRoots ==
  {[leases |-> {}, inbox |-> <<>>],
   [leases |-> {[id |-> 0, branch |-> main, path |-> top, released |-> TRUE]},
    inbox  |-> <<[id |-> 0, at |-> MaxTime, scope |-> scope]>>]}

\* Processes and slots are interchangeable.
Interchangeable == Permutations(Procs) \cup Permutations(Slots)
=============================================================================
