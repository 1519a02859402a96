SPECIFICATION BoardSpec
CONSTANTS
  c1 = c1
  c2 = c2
  Clients = {c1, c2}
  Requests <- MCRequests
  MaxSegments = 3
  QueueLen = 2
  Exchanges <- MCExchanges
  MaxInFlight = 2
  Word = 17
  Second = 8
  Wrap = 32
  Day = 60
  MaxEvents = 3
INVARIANTS
  Reachable
  AnsweredAsAsked
  SetsTimeOnce
  ClockRight
PROPERTIES
  RepliesToAll
  Settles
