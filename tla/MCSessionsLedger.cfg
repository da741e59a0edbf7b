SPECIFICATION Spec
CONSTANTS
  r1 = r1
  r2 = r2
  Request = {r1, r2}
  Browser = {b1}
  User = {u1}
  SessionId = {s1, s2}
  None = None
  Absolute = 1
  Idle = 1
  Skew <- MCSkew
  Drift = 1
  MaxTime = 3
  Faults = TRUE
SYMMETRY Interchangeable
INVARIANTS
  CookieBacked
  EndedMeansDenied
PROPERTIES
  NoResurrection
  ImplementsLedger
  AbsoluteLifetime
  IdleLifetime
CHECK_DEADLOCK FALSE
