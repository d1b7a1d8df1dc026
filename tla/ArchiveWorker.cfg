SPECIFICATION Spec
CONSTANTS
  Docs = {d1, d2}
  d1 = d1
  d2 = d2
  Workers = {w1, w2}
  w1 = w1
  w2 = w2
  Null = Null
  ArchiveDelay = 0
  Limit = 1
  MaxClock = 1
  MaxEvents = 3
  MaxFaults = 1
INVARIANTS
  TypeOK
  PackagesAreFinal
  SentOncePerReplica
  PendingIsInPipeline
PROPERTIES
  ImplementsArchiveRecord
  ArchivedIsFinal
  DueIsTakenUp
  CancelledStops
