SPECIFICATION FairSpec
CONSTANTS
  Retries = 2
  Polls = 2
INVARIANT
  WaitedReceiptLanded
