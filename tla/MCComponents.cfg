SPECIFICATION Spec
CONSTANTS
  Files <- MCFiles
  MaxDeviations = 2
  Developer = {d1, d2}
  Name <- MCName
  MaxVersion = 3
  Tab = {t1, t2}
INVARIANTS
  RefusalsNameCulprits
  ScopesAsListed
  ReservedKept
  HandlersGuarded
  AdminsGranted
  NamesShown
  NoneSkipped
  ShownAsReloaded
CHECK_DEADLOCK FALSE
