SPECIFICATION Spec
CONSTANTS
  e1 = e1
  e2 = e2
  e3 = e3
  Events = {e1, e2, e3}
  Reported <- Reported3
  PythonWriters = {live}
  NifiWriters = {nifi}
  Uris = {u1}
  NoUri = NoUri
  MaxTime = 2
  Source = "AFAD"
  BatchSize = 2
INVARIANTS
  TypeOK
  WatermarkCovers
  CutIsATie
  HarmFromRaw
PROPERTIES
  AuditHandleKept
  WatermarkNeverRegresses
