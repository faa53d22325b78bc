SPECIFICATION Spec
CONSTANTS
  Procs = {p1, p2}
  Recs = {r1}
  Commands = {"start_record", "stop_record", "fpga", "fpga_version"}
  MaxRuns = 3
  MaxAsync = 1
  Nobody = Nobody
INVARIANTS AnswerIsOwn LauncherLetsGo
PROPERTY CommandEnds
CHECK_DEADLOCK FALSE
