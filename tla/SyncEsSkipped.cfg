SPECIFICATION Spec
CONSTANTS
  Uids = {q1, q2, q3}
  BatchSize = 2
  MaxPasses = 2
  MaxLate = 1
INVARIANT
  NothingSkipped
CHECK_DEADLOCK FALSE
