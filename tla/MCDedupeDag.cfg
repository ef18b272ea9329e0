SPECIFICATION FairSpec
CONSTANTS
  Reports <- MCReports
  NoMag = NoMag
  DT_WINDOW = 2
  DIST_WINDOW = 1
  DM_WINDOW = 1
  GRID = 2
  WINDOW = 3
  MaxClock = 6
INVARIANTS
  TypeOK
  PassReflected
  FirstSeenWithinWindow
PROPERTIES
  OldRowsKept
  RerunChangesNothing
  EveryReportDeduped
CHECK_DEADLOCK FALSE
