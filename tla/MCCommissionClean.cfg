SPECIFICATION Spec
CONSTANTS
  Gear = {g1, g2, g3}
  Stubborn = {g3}
  MaxGears = 4
  Radix = 2
  MaxStuckRounds = 3
  DistinctRandoms = TRUE
  RegistryKnown = TRUE
  MaxFaults = 0
  FramesLost = FALSE
  Unlimited = Unlimited
  NoAddr = NoAddr
  None = None
SYMMETRY Symmetry
CHECK_DEADLOCK FALSE
INVARIANTS SearchIsolates SuccessMeansAddressed BusLeftUsable LandsOnFree
