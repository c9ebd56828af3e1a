CONSTANTS
  Stores = {s1, s2}
  Readers = {r1}
  RecordIds = {a, b, c}
  MaxRecords = 2
  MaxAttempts = 2
  MaxOps = 5
  NoStore = NoStore
  NoTail = NoTail
  Torn = Torn
  NoManifest = NoManifest
  NoCache = NoCache
  NoWork = NoWork
SPECIFICATION Spec
SYMMETRY Interchangeable
CHECK_DEADLOCK FALSE
INVARIANTS SnapshotLinearizable NoFalseCorruption TypeOK Recoverable AckedSurvives CacheSound
PROPERTY ImplementsLog
