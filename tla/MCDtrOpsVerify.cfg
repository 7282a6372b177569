SPECIFICATION Spec
CONSTANTS
  Gear = {g1}
  Target = {g1}
  Direct = {1}
  Stored = {2, 3}
  FadeTime = 3
  Ignored = {4}
  Named = {1, 2, 3}
  MaxValue = 2
  VersionAt = 2
  GtinAt = 0
  GtinBytes = 2
  SerialAt = 1
  SerialBytes = 1
  Foreign = TRUE
  MaxFaults = 2
  Silence = Silence
  None = None
CHECK_DEADLOCK FALSE

INVARIANTS IdentityIsBank0
PROPERTIES OkMeansWritten
