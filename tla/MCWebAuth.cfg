SPECIFICATION Spec
CONSTANTS
  Tab = {t1, t2}
  Call = {c1, c2, c3}
  Serial = {1, 2, 3, 4, 5, 6, 7, 8, 9, 10}
  MaxKey = 2
  None = None
  Keep = Keep
INVARIANTS
  LogoutHasToken
  QuietLogoutAccepted
CONSTRAINT FewerUnderNewKey
SYMMETRY Symmetry
CHECK_DEADLOCK FALSE
