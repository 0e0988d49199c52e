SPECIFICATION FairShareSpec
CONSTANTS
  g1 = g1
  g2 = g2
  g3 = g3
  b1 = b1
  b2 = b2
  Reqs <- MCReqs
  Classes = {"gold", "bronze"}
  Class <- MCClass
  Weights <- MCWeights
  DefaultWeight = 1
  Cost = 2
  MaxConcurrency = 2
INVARIANTS
 TypeOK SlotAccounting NoIdleSlotWhileWaiting WaitersQueuedOnce FairService
PROPERTIES
 EveryWaiterServed ImplementsSlotPool
CHECK_DEADLOCK FALSE
