SPECIFICATION ClusterSpec
CONSTANTS
  Parts = {"drains"}
  Replicas = {1, 2}
  Backends = {"b1"}
  Urls = {"u1", "u2"}
  Models = {"m1"}
  Boot <- BootB1
  DefaultModel = "m1"
  SharedStore = FALSE
  StoreFails = FALSE
  Ops = {"drain", "undrain"}
  MaxOps = 2
  MaxRestarts = 1
PROPERTIES MapsConverge
CHECK_DEADLOCK FALSE
