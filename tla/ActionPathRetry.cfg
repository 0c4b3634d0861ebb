SPECIFICATION Spec
CONSTANTS
  Options <- MCOptions
  Reversible <- MCReversible
  Rank <- MCRank
  None = None
  BaselineWindows = 2
  AdminTimeoutMs = 2500
  ExecutorBudgetMs = 2000
  OverlappingReset = FALSE
  OverlappingApprove = TRUE
  MaxIncidents = 2
  MaxApproves = 3
  MaxResets = 1
CHECK_DEADLOCK FALSE
INVARIANTS TypeOK AtMostOnce OneChangeAtATime IrreversibleNeedsConsent
