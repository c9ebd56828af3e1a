SPECIFICATION Spec
CONSTANTS
  t1 = t1
  m1 = m1
  m2 = m2
  c1 = c1
  Turns = {t1}
  Messages = {m1, m2}
  Calls = {}
  TurnOf <- TwoMessages
  TextOf <- Alike
  Readers = {r1}
  DeltaIds = {"item", "stream", "none"}
  PageSize = 2
  MaxRequests = 2
  MaxWaiting = 2
  NoId = NoId
  NoKey = NoKey
  NoTurn = NoTurn
  NoMessage = NoMessage
INVARIANT NothingLost
CHECK_DEADLOCK FALSE
