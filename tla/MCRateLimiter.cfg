SPECIFICATION Spec
CONSTANTS
  Request = {r1, r2, r3}
  Ip = {i1}
  None = None
  Cost = 2
  Burst = 4
  Ttl = 6
  Delay = 1
  MaxTime = 9
SYMMETRY Interchangeable
INVARIANTS
  TypeOK
  NoOverAdmission
PROPERTIES
  DenialEarned
CHECK_DEADLOCK FALSE
