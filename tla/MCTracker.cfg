SPECIFICATION TrackerFairSpec
CONSTANTS
  QueueLen = 3
  MaxPackets = 3
  Codes = {200, 302, 500}
  Lookups = {"OK", "INPROGRESS", "ARG", "NOT_FOUND"}
  MaxFlaps = 0
  MaxSets = 0
INVARIANTS
  LentMemoryLive
  CloseNotLost
PROPERTIES
  RequesterUsedOneAtATime
  KeepsToSession
  Recovers
CHECK_DEADLOCK FALSE
