SPECIFICATION Spec
CONSTANTS
  Docs = {d1}
  d1 = d1
  d2 = d2
  Workers = {w1}
  w1 = w1
  w2 = w2
  Null = Null
  ArchiveDelay = 1
  Limit = 1
  MaxClock = 3
  MaxEvents = 3
  MaxFaults = 0
PROPERTY ArchivedBecomesArhivat
