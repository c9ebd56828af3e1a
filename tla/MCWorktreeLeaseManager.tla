----------------------- MODULE MCWorktreeLeaseManager -----------------------
(* Small instances of WorktreeLeaseManager for TLC. *)
EXTENDS WorktreeLeaseManager

CONSTANTS main, top, sub   \* a branch, two paths

Ask(branch, mode, path) ==
  [task |-> "t", branch |-> branch, mode |-> mode, path |-> path]

OneRequest == {Ask(main, "write", top)}

\* Fresh worktrees at two paths and their continuation, where it left off or
\* at a path that is named, on one branch.
ContinueRequests ==
  {Ask(main, "write", top), Ask(main, "write", sub),
   Ask(main, "sequential_continue", NoPath), Ask(main, "sequential_continue", sub)}
=============================================================================
