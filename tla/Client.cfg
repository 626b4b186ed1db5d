CONSTANTS
  None = None  a1 = a1  m1 = m1  v1 = v1
  k1 = k1  k2 = k2  s1 = s1  u1 = u1  u2 = u2  b1 = b1  g1 = g1
  Accounts = {a1}
  Jobs = {m1, v1}
  Orphans = {v1}
  MaxAttempts = 2
  MaxErrors = 1
  MaxRestarts = 1
SPECIFICATION AllSpec
SYMMETRY CallSymmetry
INVARIANTS AllTypes StatusTellsChannel RetryIsArmed NoLostWakeup RunningIsHeld NoNeedlessRepeat
INVARIANTS OnlyOverlapsDisturb AdmittedAsConfigured
PROPERTIES DeletedIsDone MembersAreServed
