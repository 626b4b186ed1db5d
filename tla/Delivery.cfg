CONSTANTS
  c1 = c1  c2 = c2  u1 = u1  u2 = u2  m1 = m1  s1 = s1  s2 = s2  e1 = e1  None = None
  Listener = Listener
  RunLoop = RunLoop
  Servers = {s1, s2}
  Users = {u1, u2}
  EventIds = {e1}
  Targets <- EventTargets
  Origin <- EventOrigin
  MaxSessions = 2
  MaxFailures = 2
SPECIFICATION AllSpec
CHECK_DEADLOCK FALSE
INVARIANTS PublishedIsKept
PROPERTIES SessionsEnd RegistrationAnswered KeepsMailbox
