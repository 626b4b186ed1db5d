CONSTANTS
  c1 = c1  c2 = c2  s1 = s1  s2 = s2  u1 = u1  u2 = u2  None = None
  Pumps = {c1, c2}
  Users = {u1, u2}
  UserOf <- BothOfOne
  MaxMsgs = 2
  MaxRequests = 4
  MaxStarts = 2
SPECIFICATION AllSpec
CHECK_DEADLOCK FALSE
INVARIANTS AllTypes NoticesAreSent StoresAreSound
PROPERTIES GoneGoesOffline TypersAreForgotten SignalEnds
