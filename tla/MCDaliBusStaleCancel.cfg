SPECIFICATION Spec
CONSTANTS
  Request = {r1, r2}
  Kinds = {"cancel", "scan"}
  QueueDepth = 2
  MaxSteps = 1
  PollEnabled = FALSE
  ScanOnBoot = FALSE
  None = None
SYMMETRY Symmetry
CHECK_DEADLOCK FALSE
INVARIANTS CancelOnlyRunning
