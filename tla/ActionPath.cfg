SPECIFICATION FairSpec
CONSTANTS
  Options <- MCOptions
  Reversible <- MCReversible
  Rank <- MCRank
  None = None
  BaselineWindows = 2
  AdminTimeoutMs = 2500
  ExecutorBudgetMs = 3000
  OverlappingReset = FALSE
  OverlappingApprove = FALSE
  MaxIncidents = 2
  MaxApproves = 2
  MaxResets = 1
CHECK_DEADLOCK FALSE
INVARIANTS CommittedWhileInFlight StaysUp
PROPERTY ExecutionSettles
