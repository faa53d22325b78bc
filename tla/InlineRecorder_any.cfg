SPECIFICATION Safety
CONSTANTS
  BufCap = 2
  MaxPkt = 5
  Goal = 3
  FrameStart <- MCFewFrames
  StopModes = {"BYTES", "DURATION"}
  StopWhen = "any"
  StrayPackets = TRUE
  FileErrors = TRUE
CHECK_DEADLOCK FALSE
INVARIANT OneHandoff
PROPERTY NoPacketAfterStop
