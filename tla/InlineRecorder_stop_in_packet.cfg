SPECIFICATION Safety
CONSTANTS
  BufCap = 2
  MaxPkt = 2
  Goal = 3
  FrameStart = {}
  StopModes = {"DURATION"}
  StopWhen = "any"
  StrayPackets = FALSE
  FileErrors = FALSE
PROPERTY NothingAfterStop
