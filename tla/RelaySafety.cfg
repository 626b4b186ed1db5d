CONSTANTS
  c1 = c1  c2 = c2
  u1 = u1  u2 = u2
  m1 = m1  m2 = m2
  Conns <- TwoConns
  Users <- TwoUsers
  UserOf <- SameUser
  Msgs <- TwoMsgs
  Plan <- Group
  Capacity = 1
  FindMayFail = TRUE
  MaxFailures = 1
  None = None
SPECIFICATION Spec
CHECK_DEADLOCK FALSE
SYMMETRY SymmetricConns
INVARIANTS TypeOK NoMissedWakeup AcceptedIsHandled
PROPERTY KeepsMailboxSafety
