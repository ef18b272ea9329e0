SPECIFICATION FairSpec
CONSTANTS
  e1 = e1
  e2 = e2
  Events = {e1, e2}
  Reported <- MCReported
  PythonWriters = {live, backfill}
  NifiWriters = {nifi}
  Uris = {u1, u2}
  NoUri = NoUri
  MaxTime = 2
INVARIANTS
  TypeOK
  UriResolves
PROPERTIES
  ImplementsTable
  WritersReconcile
  FirstSeenKept
  UpsertsEnd
