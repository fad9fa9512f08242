SPECIFICATION QuestionSpec
CONSTANTS
  MaxOI = 5
  MaxLeverage = 1100
  MaxPairs = 4
  MaxCollateral = 20
  MinFactor = 90
  MaxFactor = 110
  MaxMantissa = 50
  MaxHour = 7
INVARIANT
  HoursFollowTheSchedule
