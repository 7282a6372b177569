SPECIFICATION FairSpec
CONSTANTS
  Fd = {f1}
  MaxClients = 1
  LoopDepth = 2
CHECK_DEADLOCK FALSE
INVARIANTS LedTellsTruth
PROPERTIES GapsEnd ImageSettles
