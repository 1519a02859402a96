SPECIFICATION LinkFairSpec
CONSTANTS
  CreateMayFail = TRUE
  MaxEvents = 3
INVARIANTS
  ReadyMeansUp
  BeaconFollowsMode
  HotspotStable
  NeverSilent
PROPERTY HotspotIfUnable
CHECK_DEADLOCK FALSE
