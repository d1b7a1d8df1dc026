SPECIFICATION Spec
CONSTANTS
  Uploads = {a1, a2}
  Earlier = {a1}
  Builders = {b1}
  Names <- MCNames
  MaxChunks = 2
  Actions <- MCActions
  MaxEvents = 2
  MaxClock = 1
  Null = Null
INVARIANTS
  TypeOK
  StoredIsWhole
  PackageIsFaithful
PROPERTIES
  CopierEnds
CHECK_DEADLOCK FALSE
