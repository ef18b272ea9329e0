SPECIFICATION LoopSpec
CONSTANTS
  Reports <- MCReports
  NoMag = NoMag
  DT_WINDOW = 2
  DIST_WINDOW = 1
  DM_WINDOW = 1
  GRID = 2
  MaxRows = 4
INVARIANT
  EarlyExitSound
CHECK_DEADLOCK FALSE
