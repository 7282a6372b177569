SPECIFICATION FairSpec
CONSTANTS
  Request = {r1, r2}
  Kinds = {"query", "cancel", "configure"}
  QueueDepth = 1
  MaxSteps = 1
  PollEnabled = TRUE
  ScanOnBoot = FALSE
  None = None
PROPERTIES PollRuns ImplementsService ImplementsProgress
