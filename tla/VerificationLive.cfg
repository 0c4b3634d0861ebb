SPECIFICATION StreamSpec
CONSTANTS
  Services <- MCOneService
  Recovers <- MCRecovers
  Degrades <- MCDegrades
  Worst = 1
  BaselineWindows = 1
  VerifyWindows = 3
  SustainWindows = 2
  MaxSpan = 3
  RingSize = 4
  CanBeBlind = FALSE
  MaxGap = 0
  Actions = 1
  MaxArrivals = 5
  MaxRestarts = 0
  MaxResets = 1
CHECK_DEADLOCK FALSE
INVARIANT TypeOK
PROPERTY VerificationConcludes
