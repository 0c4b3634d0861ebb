SPECIFICATION Spec
CONSTANTS
  Options <- MCOptions
  Reversible <- MCReversible
  Rank <- MCRank
  None = None
  BaselineWindows = 2
  AdminTimeoutMs = 2500
  ExecutorBudgetMs = 3000
  OverlappingReset = FALSE
  OverlappingApprove = TRUE
  MaxIncidents = 1
  MaxApproves = 2
  MaxResets = 0
CHECK_DEADLOCK FALSE
INVARIANT StaysUp
