SPECIFICATION Spec
CONSTANTS
  Secret = {s}
  NoKey = NoKey
  Mask = Mask
  Name = {n}
  NoName = NoName
  Absent = Absent
  MaxWrites = 2
  MaxBoots = 1
  MaxFaults = 1
CHECK_DEADLOCK FALSE
INVARIANTS AcknowledgedHolds RestartTold
PROPERTIES SurvivesReset
