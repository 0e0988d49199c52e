SPECIFICATION RecoverySpec
CONSTANTS
  Parts = {"recovery"}
  Reqs = {"r1", "r2"}
  Backends = {"b1", "b2"}
  Home <- TwoHomes
  Mode <- AllNormal
  MaxRetries = 1
  MaxConcurrency = 1
  MaxFaults = 2
  MaxAdmin = 0
  AdminOps = {}
  Scraping = TRUE
  Urls = {"u1", "u2"}
  Tenants = {"t1"}
  Tenant <- TenantOf
  MaxInflight = 2
  PrefillPool = {"b1"}
  SpeculativeK = 2
  FailThreshold = 2
  Classes = {"gold", "bronze"}
  Class <- ClassOf
  Weights <- TierWeights
  DefaultWeight = 1
  Cost = 3
PROPERTIES EveryRequestEnds HealthFollowsReality
CHECK_DEADLOCK FALSE
