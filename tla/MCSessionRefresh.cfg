SPECIFICATION RefreshSpec
CONSTANTS
  Request = {r1, r2}
  Browser = {b1}
  User = {u1}
  SessionId = {s1, s2, s3}
  None = None
  Absolute = 1
  Idle = 1
  Skew <- MCAhead
  Drift = 0
  MaxTime = 1
  Faults = TRUE
SYMMETRY Interchangeable
INVARIANTS
  OneRowPerLogin
  OneHolderOfToken
PROPERTIES
  NoReturn
CHECK_DEADLOCK FALSE
