SPECIFICATION Spec
CONSTANTS
  Callers = {"config", "data"}
  EarlyReasons = FALSE
  OneReporter = FALSE
  InvalidPackets = FALSE
INVARIANT OneStop
