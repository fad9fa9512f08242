SPECIFICATION Spec
CONSTANTS
  MaxCalls = 2
  Callers = {"in_turn"}
  TakeProfits = {0, 1}
  StopLosses = {0, 1}
  MaxGain = 2
  Retries = 1
  Polls = 2
PROPERTIES
  UntouchedLegKept
