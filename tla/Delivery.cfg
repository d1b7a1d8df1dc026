SPECIFICATION Spec
CONSTANTS
  EntityIds = {e1, e2}
  e1 = e1
  e2 = e2
  Denumire <- MCDenumire
  Filters <- MCFilters
  Clients = {l1}
  Limits <- MCLimits
  MaxLimit = 2
  DefaultLimit = 1
  Null = Null
  Documents = {d1}
  Callers = {c1, c2}
  MaxCalls = 1
INVARIANTS
  TypeOK
  SubmittedMeansSent
  OneMessagePerDecision
  WalkMissesNobody
PROPERTIES
  EveryDeliveryEnds
CHECK_DEADLOCK FALSE
