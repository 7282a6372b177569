SPECIFICATION FairSpec
CONSTANTS
  Gear = {g1}
  Stubborn = {}
  MaxGears = 1
  Radix = 2
  MaxStuckRounds = 2
  DistinctRandoms = TRUE
  RegistryKnown = FALSE
  MaxFaults = Unlimited
  FramesLost = TRUE
  Unlimited = Unlimited
  NoAddr = NoAddr
  None = None
CHECK_DEADLOCK FALSE
PROPERTIES Terminates
