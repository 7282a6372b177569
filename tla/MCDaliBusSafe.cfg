SPECIFICATION Spec
CONSTANTS
  Request = {r1, r2, r3}
  Kinds = {"query", "set_level", "cancel", "configure", "commission", "scan"}
  QueueDepth = 2
  MaxSteps = 2
  PollEnabled = FALSE
  ScanOnBoot = TRUE
  None = None
SYMMETRY Symmetry
CHECK_DEADLOCK FALSE
INVARIANTS TypeOK RefsCountHolders NoEmptyAnswer ConfigureGetsOutcome PublishedAtMostOnce OutcomeAnnounced NoSuccessWhileCommissioning CancelIsPrompt
PROPERTIES NoOvertaking
