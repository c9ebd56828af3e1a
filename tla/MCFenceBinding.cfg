SPECIFICATION Spec
CONSTANTS
  Providers = {p}
  Owners = {p}
  Readers = {p}
  Turns = {t1, t2}
  Slots = {c1, c2}
  AckKinds = {"pending", "item"}
  AllowQueuedTurns = FALSE
  Faults = {}
  MaxCancels = 0
  MaxCloses = 1
  MaxReads = 1
  MaxOpens = 2
  NoId = NoId
  NoSlot = NoSlot
INVARIANTS RightResponse
SYMMETRY Symmetry
CHECK_DEADLOCK FALSE
