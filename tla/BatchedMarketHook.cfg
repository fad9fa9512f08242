SPECIFICATION FairSpec
CONSTANTS
  Deadline = 2
  MaxNoise = 1
  MaxResumes = 1
  HookFaults = {"http"}
PROPERTIES
  HookExceptionAborts
