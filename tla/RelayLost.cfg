CONSTANTS
  c1 = c1  c2 = c2
  u1 = u1  u2 = u2
  m1 = m1  m2 = m2
  Conns <- TwoConns
  Users <- OneUser
  UserOf <- SameUser
  Msgs <- OneMsg
  Plan <- Direct
  Capacity = 1
  FindMayFail = TRUE
  MaxFailures = 1
  None = None
SPECIFICATION Spec
CHECK_DEADLOCK FALSE
SYMMETRY SymmetricSenders
INVARIANT AcceptedIsNeverLost
