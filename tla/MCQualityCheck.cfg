SPECIFICATION CheckedFairSpec
CONSTANTS
  e1 = e1
  e2 = e2
  Events = {e1, e2}
  Reported <- Reported2
  PythonWriters = {live}
  NifiWriters = {nifi}
  Uris = {u1}
  NoUri = NoUri
  MaxTime = 2
  Source = "AFAD"
  BatchSize = 1
PROPERTIES
  EveryRowSettled
  FailsOnlyByGrowth
