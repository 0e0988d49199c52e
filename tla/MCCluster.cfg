SPECIFICATION ClusterSpec
CONSTANTS
  Parts = {"members", "drains"}
  Replicas = {1, 2, 3}
  Backends = {"b1", "b2", "b3"}
  Urls = {"u1", "u2"}
  Models = {"m1"}
  Boot <- BootBoth
  DefaultModel = "m1"
  SharedStore = TRUE
  StoreFails = TRUE
  Ops = {"drain", "undrain", "add", "remove"}
  MaxOps = 3
  MaxRestarts = 2
INVARIANTS
 VersionDeterminesEntry PoolIsConsistent FlagsFollowMap
PROPERTIES
 EntriesOnlyGetNewer ConvergeUnlessRestarted
CHECK_DEADLOCK FALSE
