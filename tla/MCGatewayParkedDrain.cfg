SPECIFICATION Spec
CONSTANTS
  r1 = r1
  r2 = r2
  b1 = b1
  b2 = b2
  Reqs = {r1, r2}
  Backends = {b1, b2}
  Home <- TwoBackends
  Mode <- AllNormal
  MaxRetries = 1
  MaxConcurrency = 1
  MaxFaults = 0
  MaxAdmin = 1
  AdminOps = {"drain"}
  Scraping = FALSE
  Urls = {"u1", "u2"}
  Tenants = {"t1"}
  Tenant <- TenantOf
  MaxInflight = 2
  PrefillPool = {b1}
  SpeculativeK = 2
  FailThreshold = 2
  Classes = {"gold", "bronze"}
  Class <- ClassOf
  Weights <- TierWeights
  DefaultWeight = 1
  Cost = 3
PROPERTIES NoNewWorkWhileDraining
CHECK_DEADLOCK FALSE
