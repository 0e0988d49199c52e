SPECIFICATION ProgressSpec
CONSTANTS
 Parts = {"rust", "race", "fleet"}
 RustReqs = {1, 2}
 RustBackends = {"b1", "b2"}
 Clients = {"t1", "t2"}
 ClientOf <- MCClientOf
 ClientCap = 2
 FailLimit = 2
 Retries = 2
 Lanes = {1, 2, 3}
 RaceWidth = 3
 LaneLimit = 1
 LaneLoads = {0, 2}
 Estimates = {1, 2}
 Members = {1, 2}
 Hosts = {"h"}
 Transports = {"memory", "redis", "gossip"}
 MaxMoves = 2
 MaxLosses = 1
 MaxReboots = 1
 MaxBacklog = 1
INVARIANTS
 RaceIsSettled ViewsAreSnapshots
PROPERTIES
 EverythingEnds ViewsFollowLoad
CHECK_DEADLOCK FALSE
