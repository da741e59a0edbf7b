SPECIFICATION RefreshSpec
CONSTANTS
  Request = {r1}
  Browser = {b1}
  User = {u1}
  SessionId = {s1, s2}
  None = None
  Absolute = 1
  Idle = 1
  Skew <- MCNoSkew
  Drift = 0
  MaxTime = 3
  Faults = FALSE
PROPERTY
  AbsoluteUnderRefresh
CHECK_DEADLOCK FALSE
