SPECIFICATION Spec
CONSTANTS
  Docs = {d1}
  Callers = {c1, c2}
  Requests <- MCFewRequests
  Compartments = {k1}
  Subjects = {u1, u2}
  Reasons = {m1}
  k1 = k1
  u1 = u1
  u2 = u2
  m1 = m1
  Null = Null
  MaxClock = 1
  MaxEvents = 5
INVARIANT RejectedCanBeReassigned
