SPECIFICATION Spec
CONSTANTS
  Request = {r1, r2}
  Tab = {t1, t2}
  Attempt = {a1, a2}
  Page = {deep, far}
  Local = {deep}
  Home = home
  None = None
  Denied = Denied
  MaxCodes = 1
SYMMETRY Interchangeable
INVARIANTS
  OwnVerifierOnly
  OneSessionPerCode
  LandsWhereAsked
PROPERTIES
  SoloNotRefused
  ImplementsConsents
CHECK_DEADLOCK FALSE
