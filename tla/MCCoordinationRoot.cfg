SPECIFICATION Spec
CONSTANTS
  p1 = p1
  p2 = p2
  s1 = s1
  s2 = s2
  claude = claude
  main = main
  dev = dev
  top = top
  scope = scope
  Nobody = Nobody
  WholeRepo = WholeRepo
  Procs = {p1, p2}
  Slots = {s1, s2}
  MaxFiles = 2
  Providers = {claude}
  Ops <- AllOps
  InitialRoots <- SomeRoots
  ReaderScope = scope
  InboxTtl = 2
  Capacity = 2
  PageLimit = 1
  MaxCalls = 2
  MaxTime = 3
  MaxFaults = 2
INVARIANTS OneAnswers CooldownsJournaled LeasesStand InboxKept PagesMissOnlyTies
CHECK_DEADLOCK FALSE
SYMMETRY Interchangeable
