CONSTANTS
  main = main
  top = top
  sub = sub
  Procs = {p1, p2}
  Branches = {main}
  Paths = {top}
  Requests <- OneRequest
  Ops = {"acquire", "release", "cleanup", "retain", "recover"}
  DirtyStates = {"clean"}
  Ttl = 1
  MaxTime = 1
  MaxWait = 1
  MaxMutations = 2
  MaxRows = 3
  MaxFaults = 1
  MaxTrees = 2
  NoProc = NoProc
  NoPath = NoPath
  NoBranch = NoBranch
  NoRecord = NoRecord
  NoIntent = NoIntent
  NoReclamation = NoReclamation
  NoWork = NoWork
SPECIFICATION FairSpec
INVARIANT HolderKeepsLease
PROPERTIES RemovalSafe IntentsResolve
