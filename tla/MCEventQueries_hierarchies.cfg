CONSTANTS
  c1 = c1
  p1 = p1
  p2 = p2
  d1 = d1
  Clients = {c1}
  LastEvent = 5
  Tenants = {p1, p2, d1}
  TenantsOf <- MixedTenants
  ValueOf <- FrequentValues
  KeyRank <- NameRanks
  MaxLimit = 3
  DefaultLimit = 2
  DefaultValues = 4
  FallbackPage = 2
  Asks <- HierarchyAsks
  Faulty = FALSE
CHECK_DEADLOCK FALSE
SPECIFICATION Spec
INVARIANTS
  AllHierarchiesListed
