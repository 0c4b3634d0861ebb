SPECIFICATION Spec
CONSTANTS
  Services <- MCServices
  Recovers <- MCRecovers
  Degrades <- MCDegrades
  Worst = 1
  BaselineWindows = 1
  VerifyWindows = 3
  SustainWindows = 2
  MaxSpan = 3
  RingSize = 3
  CanBeBlind = TRUE
  MaxGap = 1
  Actions = 1
  MaxArrivals = 4
  MaxRestarts = 1
  MaxResets = 0
CHECK_DEADLOCK FALSE
INVARIANTS RecoveredIsSustained EvidenceFollowsAction BlameIsUnbroken
