SPECIFICATION BooksSpec
CONSTANTS
  Parts = {"requests", "membership"}
  Reqs = {"r1", "r2", "r3", "r4", "r5", "r6"}
  Backends = {"b1", "b2"}
  Urls = {"u1", "u2", "u3"}
  Home <- TwoHomes
  Tenants = {"t1", "t2"}
  Tenant <- TenantOf
  MaxInflight = 2
  Mode <- ModeOf
  PrefillPool = {"b1"}
  MaxRetries = 1
  SpeculativeK = 2
  FailThreshold = 2
  Classes = {"gold", "bronze"}
  Class <- ClassOf
  Weights <- TierWeights
  DefaultWeight = 1
  Cost = 3
  MaxConcurrency = 2
  MaxFaults = 2
  MaxAdmin = 2
  AdminOps = {"add", "remove", "drain", "undrain"}
  Scraping = TRUE
INVARIANTS
 LoadExactUnlessDropped FailoverExhaustsCandidates HeldResourcesExact CountersAreSane
CHECK_DEADLOCK FALSE
