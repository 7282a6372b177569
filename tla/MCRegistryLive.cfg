SPECIFICATION FairSpec
CONSTANTS
  Gear = {g1, g2}
  Dali2 = {g2}
  Members = {g1}
  MaxGears = 2
  Operations = {"scan", "poll_all"}
  Commands = {"group", "query", "bus_check"}
  Scanned = {FALSE}
  Unstable = TRUE
  BlinkFrames = 0
  MaxTypes = 1
  Group = Group
  Broadcast = Broadcast
  NoAddr = NoAddr
  Unknown = Unknown
  Silence = Silence
  Clash = Clash
PROPERTIES PollRepairs
