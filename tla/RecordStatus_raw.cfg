SPECIFICATION Spec
CONSTANTS
  MaxPkt = 3
  MaxArrivals = 3
  Width = 4
  Statuses = {"NO_LVDS_DATA", "REC_FILE_CREATION_ERR"}
INVARIANTS TypeOK ReceivedAndFilled ZeroFilledIsExact ReportedIsKept StopIsExplained
PROPERTY ReportIsShown
