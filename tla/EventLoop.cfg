SPECIFICATION FairLoop
CONSTANTS
  Tasks = {t1, t2}
  TTL = 1
  MaxTime = 2
  MaxCalls = 3
  Kinds = {"lazer", "hermes", "orders"}
  Overflow = 3
  Feeds = 2
  MaxMessages = 3
  MaxLoops = 2
INVARIANTS
  NoStaleData
  ForcedIsFresh
  MetaLock
  IteratorTypeOK
  NoTaskLeft
PROPERTIES
  CallsReturn
  Recovers
  StopIsNoticed
  Served
