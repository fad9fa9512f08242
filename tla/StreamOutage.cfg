SPECIFICATION StreamSpec
CONSTANTS
  Kinds = {"hermes"}
  Overflow = 3
  Feeds = 2
  MaxMessages = 3
INVARIANTS
  Reconnects
