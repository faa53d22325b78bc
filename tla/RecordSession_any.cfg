SPECIFICATION Spec
CONSTANTS
  Callers = {"config", "capture"}
  EarlyReasons = TRUE
  OneReporter = FALSE
  InvalidPackets = FALSE
INVARIANTS TypeOK StoppedIsFlushed ExitWasAsked
PROPERTY UserStopEndsProcess
