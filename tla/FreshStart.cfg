SPECIFICATION Spec
CONSTANTS
  Replicas = {r1, r2}
  DefaultRoles <- MCDefaultRoles
  DefaultPermissions <- MCDefaultPermissions
  Grantees <- MCGrantees
  Edits <- MCEdits
  MaxFaults = 1
  Keys <- MCKeys
  Requests <- MCRequests
  MaxClock = 1
  Null = Null
  u1 = u1
  i1 = i1
  d1 = d1
PROPERTY StartupMigrates
CHECK_DEADLOCK FALSE
