SPECIFICATION PartsSpec
CONSTANTS
 Parts = {"access"}
 Calls = {1, 2, 3}
 Payers = {"t1"}
 PayerOf <- MCPayerOf
 Rps <- MCOne
 Tps <- MCThree
 InflightCap <- MCTwo
 InputTokens = {1}
 AskedTokens = {0, 2, 4}
 DefaultOutput = 1
 MaxOutput = 3
 MaxActual = 3
 MaxTime = 4
 RustReqs = {1, 2, 3}
 RustBackends = {"b1", "b2"}
 Clients = {"t1", "t2"}
 ClientOf <- MCClientOf
 ClientCap = 2
 FailLimit = 2
 Retries = 1
 Quarters = 4
 ShedQuarter = 3
 SatInflight = 2
 TtftSlo = 500
 QueueEnabled = TRUE
 QueueLimit = 1
 RetryBase = 200
 RetryMax = 1100
 SomeFleets <- MCFleets
 SomeTtfts = {0, 500, 501, 2000}
 SomeDepths = {0, 1}
 Nodes = {1, 2, 3}
 NodeRoles <- MCNodeRoles
 PromptTokens = 4
 OutputTokens = 2
 NodeBlockTokens = 2
 PrefillTokenMs = 2
 DecodeTokenMs = 1
 PrefillQueueMs = 4
 DecodeQueueMs = 2
 TransferTokenMs = 1
 NodeLimit = 1
 Margin = 1
 NodeStates <- MCNodeStates
 Asks = {1, 2, 3, 4, 5}
 Shape <- MCShape
 Servers = {1, 2}
 Adapters <- MCAdapters
 Caps <- MCCaps
 FallbackToBase = FALSE
 SplitPools <- MCSplitPools
 ChunkCapacity = 2
 MediaCapacity = 1
 Shaky = {1}
 MaxFlips = 1
 ChunkTokens = 1
 Media <- MCMedia
 AffinityPrefillMs = 1
 AffinityServiceMs = 1
 AffinityLimit = 1
 ImageBase = 1
 TileTokens = 1
 AudioTokensPerSecond = 1
 Similarity <- MCSimilarity
 Threshold = 97
 MaxEntries = 2
 PinCapacity = 1
 PinTtl = 0
 Jobs = {1, 2, 3}
 ParentLists <- MCParentLists
 Workers = {1, 2}
 WorkerLimit = 1
 WorkerLoads = {0, 2}
 JobBlocks = 1
 JobBlockMs = 2
 QueueMs = 1
 ParentBonus = 1
 Strategies = {"locality", "round_robin"}
 MinReplicas = 2
 MaxReplicas = 4
 ServiceRate = 1
 UtilPercent = 25
 WaitSlo = 100
 UpCooldown = 4
 DownCooldown = 5
 ScaleStep = 2
 Deadband = 1
 Gaps = {2, 3}
 Sizes = {0, 3, 6}
 Burst = 3
 LastRound = 9
 Holders = {"b1", "b2"}
 CacheBlocks = 3
 Runs <- MCRuns
 MaxInserts = 4
 BlockTokens = 1
 PrefillMs = 2
 ServiceMs = 1
 Hysteresis = 1
 InflightLimit = 1
 SomeViews <- MCViews
 Orders <- MCOrders
 HashRuns <- MCHashRuns
 Counters = {0, 1}
 Texts <- MCTexts
 TenantIds <- MCTenantIds
 BlockChars = 2
 Cutoff = 2
 KvBlocks = 4
 MaxServed = 3
 TokenIds <- MCTokenIds
 TokenBlock = 1
 CharsPerToken = 4
 Weights = {1, 2}
 Predicts <- MCPredicts
 StaticMs = {1, 3}
 BlendPercent = 150
 MaxBoots = 2
 Keys = {"", "k1", "k2", "k3", "k4", "kx"}
 Foreigners = {"kx", "ky"}
 Digest <- MCDigest
 Policies <- MCPolicies
 MaxAccesses = 2
 WireSelf = "g1"
 WireOrigins = {"g1", "g2"}
 MaxWire = 2
 Gauged = {"b1"}
 Bounds <- MCBounds
 Samples = {0, 3, 5}
 MaxUpdates = 2
 ReplayOrder <- MCReplayOrder
 Documents <- MCDocuments
 SystemBlocks <- MCSystemBlocks
 Concurrency = 2
 Setups <- MCSetups
 TurnBlocks = 1
 Sessions = 3
 Depth = 1
 MaxReplay = 5
 ServiceWindow = 2
 PrefillTicks = 1
 DecodeTicks = 3
 QueuePenalty = 250
 OffersPerTick = 4
 LastTick = 4
INVARIANT UnknownKeysGet401
CHECK_DEADLOCK FALSE
