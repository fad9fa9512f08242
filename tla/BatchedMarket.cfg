SPECIFICATION FairSpec
CONSTANTS
  Deadline = 2
  MaxNoise = 1
  MaxResumes = 1
  HookFaults = {"http", "other"}
INVARIANTS
  ExactlyOnceInOrder
  SettledJourneyComplete
  TimeoutIsHonest
PROPERTIES
  ImplementsSettlement
  CallReturns
