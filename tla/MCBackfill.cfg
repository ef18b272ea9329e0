SPECIFICATION Spec
CONSTANTS
  e1 = e1
  e2 = e2
  Events = {e1, e2}
  Reported <- ReportedTwo
  PythonWriters = {live, backfill}
  NifiWriters = {nifi}
  Uris = {u1, u2}
  NoUri = NoUri
  MaxTime = 2
  Container = backfill
  Origin <- OriginTwoDays
  Days = 2
  Source = "AFAD"
  Responses = {"one", "both", "none"}
  Versions = {"old", "new"}
  FetchParser <- ParserOf
  ReplayParser <- ReplayParserOf
INVARIANTS
  BackfillAssumption
  TypeOK
  HandlesResolve
PROPERTIES
  EndMeansStored
  RowsKept
