SPECIFICATION Spec
CONSTANTS
  Services <- MCServices
  QueueMax = 2
  ShedThresholds <- MCThresholds
  DedupLru = 10
  DrainMax = 2
  Lag = 1
  Lateness = 0
  RingCap = 2
  BatchMax = 2
  BodyMax = 4
  MaxEvents = 3
  MaxNow = 4
  MaxPosts = 2
  MaxDisturbances = 1
CHECK_DEADLOCK FALSE
INVARIANTS TypeOK CountsAreExact ReplayChangesNothing NothingVanishes
PROPERTY SnapshotsGoLast
