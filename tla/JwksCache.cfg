SPECIFICATION Spec
CONSTANTS
  Keys = {k1}
  k1 = k1
  Callers = {c1, c2}
  Tokens <- MCTokens
  Null = Null
  Ttl = 2
  FetchTimeout = 1
  Skew = 1
  MaxClock = 4
INVARIANTS
  TypeOK
  WithdrawnKeysExpire
  PublishedKeysWork
PROPERTIES
  StoresAreSpaced
  EveryTokenIsAnswered
