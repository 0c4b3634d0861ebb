SPECIFICATION Spec
CONSTANTS
  Services <- MCServices
  Names <- MCNames
  Patterns <- MCPatterns
  Rollbackable = {"auth"}
  DetectMultiple = 3
  DetectErrRate = 20
  UserErrRate = 50
  Debounce = 2
  Warmup = 1
  BaselineWindows = 3
  MarginThreshold = 100
  DecaySeconds = 5
  AutonomyConfidence = 600
  ProbeFloor = 400
  MaxArrivals = 4
  MaxObserved = 5
  MaxRelaunches = 1
  MaxProbes = 2
  MaxResets = 1
CHECK_DEADLOCK FALSE
INVARIANTS TypeOK EachWindowOnce FlagsAreRight PlanIsSupported PlanIsForMeasured
