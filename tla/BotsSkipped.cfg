CONSTANTS
  c1 = c1  c2 = c2  c3 = c3
  u1 = u1  u2 = u2  s1 = s1  s2 = s2
  m1 = m1  m2 = m2  p1 = p1  p2 = p2
  Conns <- ThreeConns
  Users <- TwoUsers
  UserOf <- TwoAndOne
  MaxConnectionsPerUser = 2
  Listener = Listener
  RunLoop = RunLoop
  None = None
  MaxDropped = 1
  MaxSessions = 2
  MaxFailures = 1
  Limit = 1
SPECIFICATION BotsSpec
CHECK_DEADLOCK FALSE
INVARIANT PendingIsAhead
