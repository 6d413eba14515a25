CONSTANTS
  c1 = c1
  p1 = p1
  p2 = p2
  d1 = d1
  Clients = {c1}
  LastEvent = 5
  Tenants = {p1, p2, d1}
  TenantsOf <- MixedTenants
  ValueOf <- MixedValues
  KeyRank <- NameRanks
  MaxLimit = 3
  DefaultLimit = 2
  DefaultValues = 4
  FallbackPage = 2
  Asks <- AllAsks
  Faulty = TRUE
CHECK_DEADLOCK FALSE
SPECIFICATION FairSpec
INVARIANTS
  TypeOK
  FinishedWalkIsComplete
  NoRepeats
  StoppedWalkHasSeenWindow
  FinishedWalkBackIsComplete
  OnlyOwnEvents
  EqualCountMeansComplete
  LinesAreDistinct
  OnlyOwnValues
  ShortListIsComplete
PROPERTIES
  QueriesEnd
  PagesMoveOn
