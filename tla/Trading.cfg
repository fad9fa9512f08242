SPECIFICATION TradingSpec
CONSTANTS
  MaxOpened = 2
  MaxOI = 5
  MaxLeverage = 1100
  MaxPairs = 4
  MaxCollateral = 20
  MinFactor = 90
  MaxFactor = 110
  MaxMantissa = 50
  MaxHour = 7
  Tasks = {t1, t2, t3}
  Outside = 1
  MaxClock = 2
INVARIANTS
  SenderMayAct
  OrderFitsPair
  BoundCloseHitsItsPosition
  VerifiedMayTrade
  FeesFollowTheBook
  HeadroomIsExact
  StopsAreFeasible
  NetRisesWithGross
  TargetsAreReached
  AmountsAreExact
  PairsKeepTheirKind
  IncludedCallsRun
PROPERTIES
  DelegatedCallsRun
