SPECIFICATION FairWrite
CONSTANTS
  Attempts = 4
  Retries = 2
  Polls = 2
  GatewayErrors = {"502", "504"}
  Receipts = {"status"}
  Tasks = {t1, t2, t3}
  Together = 2
INVARIANTS
  RoutesTypeOK
  BusyMeansUnsent
  SendsDoNotCollide
PROPERTIES
  ImplementsSubmission
  OtherRoutesImplementSubmission
  CallsReturn
