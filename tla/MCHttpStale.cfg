SPECIFICATION HttpSpec
CONSTANTS
  c1 = c1
  Conns = {c1}
  EventsLen = 3
  MaxPieces = 1
  MaxSegments = 1
  SendMayFail = FALSE
  Manners = "ANY"
INVARIANT DisconnectHasContext
CHECK_DEADLOCK FALSE
