SPECIFICATION FairSpec
CONSTANTS
  Gear = {g1}
  Group = {k1}
  Prefix = {p, q}
  Off = Off
  WorkDepth = 2
  LoopDepth = 1
  Commands = {"rename", "set_config", "reboot", "get_gears", "other"}
  MaxMoves = 3
CHECK_DEADLOCK FALSE
INVARIANTS RetainedIsCurrent ConfigAdopted NoOrphan
PROPERTIES KeepsEntities ComesToRest
