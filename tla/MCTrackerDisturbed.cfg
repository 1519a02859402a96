SPECIFICATION TrackerSpec
CONSTANTS
  QueueLen = 2
  MaxPackets = 2
  Codes = {200, 302, 500}
  Lookups = {"OK", "INPROGRESS", "NOT_FOUND"}
  MaxFlaps = 1
  MaxSets = 1
INVARIANTS
  FreesOnlyHeap
  NotStranded
CHECK_DEADLOCK FALSE
