---------------------------- MODULE MCLeaseStore ----------------------------
(* Small instances of LeaseStore for TLC. *)
EXTENDS LeaseStore, TLC

Path(granularity, selector) ==
  [granularity |-> granularity, selector |-> selector]

Src      == Path("path-set", {<<"src">>})
SrcLib   == Path("path-set", {<<"src", "lib">>})
SymF     == Path("symbol", {<<"f">>})

Ask(mode, scope, ttl) == [mode |-> mode, scope |-> scope, ttl |-> ttl]

\* A directory and a path under it, of different lifetimes, and a scope apart
\* from both, so that two leases may be live at once.
HardRequests ==
  {Ask("hard", Src, 1), Ask("hard", SrcLib, 2), Ask("hard", SymF, 2)}

Interchangeable == Permutations(Procs)
=============================================================================
