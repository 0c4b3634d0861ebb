SPECIFICATION FairSpec
CONSTANTS
  Upstreams <- MCUpstreams
  MaxRuns = 2
  MaxResets = 1
CHECK_DEADLOCK FALSE
INVARIANTS TypeOK OneProbeAtATime ShedIsShown ShedHasItsTimer
PROPERTIES ShedEnds SlotIsFreed
