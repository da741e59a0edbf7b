SPECIFICATION Spec
CONSTANTS
  r1 = r1
  r2 = r2
  Request = {r1, r2}
  Browser = {b1}
  User = {u1}
  SessionId = {s1}
  None = None
  Absolute = 9
  Idle = 1
  Skew <- MCNoSkew
  Drift = 0
  MaxTime = 4
  Faults = FALSE
PROPERTY
  DeletesOnlyExpired
CHECK_DEADLOCK FALSE
