SPECIFICATION Spec
CONSTANTS
  Providers = {p, q}
  Owners = {p}
  Readers = {p}
  Turns = {t1, t2}
  Slots = {c1}
  AckKinds = {"pending"}
  AllowQueuedTurns = FALSE
  Faults = {"denied", "malformed"}
  MaxCancels = 1
  MaxCloses = 1
  MaxReads = 0
  MaxOpens = 1
  NoId = NoId
  NoSlot = NoSlot
INVARIANTS WritersFenced FencesExclusive CancelledStaysRejected
SYMMETRY Symmetry
CHECK_DEADLOCK FALSE
