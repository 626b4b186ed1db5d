CONSTANTS
  r1 = r1  r2 = r2  r3 = r3  p1 = p1  p2 = p2  stored = stored  s1 = s1  d1 = d1
  c1 = c1  c2 = c2  m1 = m1  m2 = m2  u1 = u1  u2 = u2  v1 = v1  v2 = v2
  None = None
  Requests = {r1, r2, r3}
  Phones = {p1, p2}
  Sessions = {s1}
  Devices = {d1}
  Stored <- StoredRows
  MaxSends = 2
  MaxTries = 1
  MaxCrashes = 1
  Forms = {"bare"}
  MaxLost = 1
  MaxErrors = 1
SPECIFICATION ReceptionSpec
SYMMETRY RequestSymmetry
CHECK_DEADLOCK FALSE
INVARIANT NoAckIsRefused
