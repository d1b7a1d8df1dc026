SPECIFICATION Spec
CONSTANTS
  Registries = {r1}
  r1 = r1
  r2 = r2
  p1 = p1
  Callers = {c1, c2}
  Prefixes = {p1}
  InitialRows <- MCOneRegistry
  Null = Null
  MaxInteger = 3
  MaxLag = 1
  StartClock = 1
  MaxClock = 3
INVARIANT DisplayedNumbersUnique
