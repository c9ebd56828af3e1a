SPECIFICATION Spec
CONSTANTS
  Providers = {p, q}
  Owners = {p}
  Readers = {p}
  Turns = {t1, t2}
  Slots = {c1}
  AckKinds = {"pending"}
  AllowQueuedTurns = FALSE
  Faults = {}
  MaxCancels = 1
  MaxCloses = 0
  MaxReads = 0
  MaxOpens = 1
  NoId = NoId
  NoSlot = NoSlot
INVARIANTS InterruptHitsOwnTurn
SYMMETRY Symmetry
CHECK_DEADLOCK FALSE
