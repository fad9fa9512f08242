SPECIFICATION FairSpec
CONSTANTS
  Kinds = {"hermes", "orders"}
  Overflow = 3
  Feeds = 2
  MaxMessages = 3
PROPERTY
  StopEnds
