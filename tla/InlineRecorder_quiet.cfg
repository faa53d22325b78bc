SPECIFICATION Spec
CONSTANTS
  BufCap = 2
  MaxPkt = 7
  Goal = 5
  FrameStart <- MCFrameStart
  StopModes = {"BYTES", "FRAMES", "DURATION"}
  StopWhen = "quiet"
  StrayPackets = FALSE
  FileErrors = FALSE
INVARIANTS TypeOK OneHandoff SettledWhenSwitching BufferExclusion NoFault CompleteFile
PROPERTIES ReaderProceeds StopFlushes ImplementsStream
