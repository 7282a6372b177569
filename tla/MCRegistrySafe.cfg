SPECIFICATION Spec
CONSTANTS
  Gear = {g1, g2}
  Dali2 = {g2}
  Members = {g1}
  MaxGears = 2
  Operations = {"scan", "poll_all", "identify"}
  Commands = {"set_level", "off", "on", "query", "group", "move", "remove"}
  Scanned = {TRUE, FALSE}
  Unstable = FALSE
  BlinkFrames = 2
  MaxTypes = 1
  Group = Group
  Broadcast = Broadcast
  NoAddr = NoAddr
  Unknown = Unknown
  Silence = Silence
  Clash = Clash
PROPERTIES ScanTellsTruth NeverJoinsOccupied LevelsAsCommanded CountsDown
