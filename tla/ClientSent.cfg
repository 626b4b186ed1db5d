CONSTANTS
  None = None  a1 = a1  m1 = m1  v1 = v1
  k1 = k1  k2 = k2  s1 = s1  u1 = u1  u2 = u2  b1 = b1  g1 = g1
  Accounts = {a1}
  Jobs = {m1}
  Orphans = {}
  MaxAttempts = 2
  MaxErrors = 0
  MaxRestarts = 0
SPECIFICATION ClientSpec
INVARIANT SentWasHanded
