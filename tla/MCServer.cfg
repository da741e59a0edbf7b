SPECIFICATION FairSpec
CONSTANTS
  Req = {r1, r2}
  MaxConns = 1
INVARIANTS
  CleanExit
  RefusedOnlyAfterFailure
  LoggedAsSent
PROPERTIES
  DrainEnds
  ProbesAnswered
CHECK_DEADLOCK FALSE
