SPECIFICATION Spec
CONSTANTS
  FramePackets = 2
  FrameGoal = 2
  ByteGoal = 3
  MaxFrames = 2
  MaxErrors = 1
CHECK_DEADLOCK FALSE
INVARIANT FileFollowsSequence
PROPERTY RecordingEnds
