SPECIFICATION Spec
CONSTANTS
  None = None
  h1 = h1
  h2 = h2
  Self = Self
  Relay = Relay
  Strategies <- MCStrategies
  NextHops = {"mx", "lmtp", "lmtps"}
  MxLists <- MCMxLists
  Bodies <- MCBodies
  PolicyIds = {1, 2}
  Records <- MCRecords
  Chains <- MCChains
  MaxMx = 2
  MaxIps = 2
CHECK_DEADLOCK FALSE
INVARIANTS
  EncryptedWhenRequired
  CachedPolicyHonoured
  ReportsTrue
PROPERTIES
  RefinesDomainVisit
