CONSTANTS
  main = main
  top = top
  sub = sub
  Procs = {p1}
  Branches = {main}
  Paths = {top, sub}
  Requests <- ContinueRequests
  Ops = {"acquire", "renew", "release", "retain"}
  DirtyStates = {"clean", "dirty"}
  Ttl = 1
  MaxTime = 1
  MaxWait = 0
  MaxMutations = 5
  MaxRows = 3
  MaxFaults = 1
  MaxTrees = 0
  NoProc = NoProc
  NoPath = NoPath
  NoBranch = NoBranch
  NoRecord = NoRecord
  NoIntent = NoIntent
  NoReclamation = NoReclamation
  NoWork = NoWork
SPECIFICATION Spec
INVARIANTS TypeOK ClaimsExclude FilesAgree NoLegacyConflict EvidenceKept
PROPERTIES NeverRevived ContinuesOnLatest
