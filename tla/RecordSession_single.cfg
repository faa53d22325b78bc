SPECIFICATION Spec
CONSTANTS
  Callers = {"config", "data", "timer", "capture"}
  EarlyReasons = FALSE
  OneReporter = TRUE
  InvalidPackets = TRUE
CHECK_DEADLOCK FALSE
INVARIANTS OneStop ExitIsFlushed StoppedIsAnswered FinalStatus
