SPECIFICATION FairSpec
CONSTANTS
  q1 = q1
  q2 = q2
  q3 = q3
  q4 = q4
  q5 = q5
  Queries <- FiveQueries
  Size = 2
  QueueMax = 2
CHECK_DEADLOCK FALSE
INVARIANTS TypeOK PermitsConserved NoIdlePermit
PROPERTIES OldestFirst WaitersAreServed PoolSpec
