SPECIFICATION Spec
CONSTANT
  MaxStarts = 3
INVARIANTS
  TypeOK
  CleanLogMeansInstalled
  LeftoversNeverInTheWay
  RunningChainsCanWrite
  RunningIsComplete
  ServicesGrowByFailureOnly
PROPERTY
  InstallerEnds
CHECK_DEADLOCK FALSE
