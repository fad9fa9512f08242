SPECIFICATION FairTriggers
CONSTANTS
  MaxCalls = 2
  Callers = {"careful", "careless"}
  TakeProfits = {0, 1}
  StopLosses = {0, 1}
  MaxGain = 2
  Retries = 1
  Polls = 1
  Tasks = {t1, t2}
  OrderRetries = 1
  MaxOrderCalls = 3
  MaxIntents = 2
  MaxLate = 1
INVARIANTS
  VisibleIsOnChain
  CopiesBounded
  HandleNamesItsOrder
PROPERTIES
  CarefulKeepsLegs
  CallsReturn
  ImplementsOrderBook
