SPECIFICATION FairSpec
CONSTANTS
  Uids = {q1, q2, q3}
  BatchSize = 2
  MaxPasses = 2
  MaxLate = 1
INVARIANTS
  TypeOK
  StaleDocsExplained
  IndexFollowsMart
PROPERTIES
  RowsReachTheIndex
CHECK_DEADLOCK FALSE
