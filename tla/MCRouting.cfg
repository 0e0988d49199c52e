SPECIFICATION RoutingSpec
CONSTANTS
 Holders = {"b1", "b2"}
 CacheBlocks = 3
 BlockTokens = 1
 PrefillMs = 2
 ServiceMs = 1
 Hysteresis = 1
 InflightLimit = 1
 Turns = {1, 2, 3}
 NoSession = "none"
 SessionOf <- MCSessionOf
 PromptOf <- MCPromptOf
 StrategyOf <- MCStrategyOf
 MaxChanges = 1
 MaxClock = 1
 PinCapacity = 1
 PinTtl = 0
INVARIANTS
 TreeAgreesWithHistory LastTurnIsPinned
PROPERTIES
 RoutingIsSound
CHECK_DEADLOCK FALSE
