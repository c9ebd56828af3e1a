CONSTANTS
  Procs = {p1, p2}
  LeaseIds = {a, b}
  Requests <- HardRequests
  Ttls = {1, 2}
  MaxTime = 2
  MaxCalls = 3
  LeaseCap = 2
  EventCap = 3
  Rewinds = FALSE
  NoLease = NoLease
  NoProc = NoProc
  NoCall = NoCall
SPECIFICATION Spec
SYMMETRY Interchangeable
CHECK_DEADLOCK FALSE
INVARIANTS TypeOK HardExclusion HoldersExclude HistoryInTimeOrder HistoryProvesLeases ReleaseAlwaysFits
PROPERTY ImplementsService
