SPECIFICATION Spec
CONSTANTS
  Tab = {t1, t2}
  Call = {c1, c2}
  Session = {s1, s2}
  None = None
  Keep = Keep
SYMMETRY Symmetry
INVARIANTS
  LiveIsHeld
  StatusExplained
  SignedOutAfresh
CHECK_DEADLOCK FALSE
