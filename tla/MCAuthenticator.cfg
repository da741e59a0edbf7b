SPECIFICATION FairSpec
CONSTANTS
  Request = {r1, r2, r3}
  None = None
  MaxRestarts = 1
INVARIANTS
  DiscoveredOnce
  OneProvider
PROPERTIES
  EveryCallReturns
  RetriedUntilFound
CHECK_DEADLOCK FALSE
