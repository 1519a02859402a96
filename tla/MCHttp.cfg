SPECIFICATION HttpFairSpec
CONSTANTS
  c1 = c1
  c2 = c2
  c3 = c3
  Conns = {c1, c2, c3}
  EventsLen = 6
  MaxPieces = 2
  MaxSegments = 1
  SendMayFail = TRUE
  Manners = "SERVED"
INVARIANTS
  FreedOnce
  ReadsLivePayload
  HangsUpWhenDone
  NeverForgotten
PROPERTY Answered
CHECK_DEADLOCK FALSE
