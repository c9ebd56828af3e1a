SPECIFICATION Spec
CONSTANTS
  t1 = t1
  t2 = t2
  alpha = alpha
  beta = beta
  gamma = gamma
  Nothing = Nothing
  Profiles <- ThreeProfiles
  Settings <- SomeSettings
  Tasks = {t1, t2}
  Launchers = {t1}
  Requests <- SomeRequests
  SessionRequests <- SomeSessions
  InitialLedgers <- SomeLedgers
  Probes <- SomeProbes
  Signals <- SomeSignals
  Failures <- SomeFailures
  Ttl = 1
  MaxCalls = 2
  MaxTime = 1
  MaxEvents = 1
INVARIANTS RoutesJustified HardRoutesExclude LaunchesRecorded RetriesBounded
CHECK_DEADLOCK FALSE
