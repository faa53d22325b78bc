SPECIFICATION Spec
CONSTANTS
  Wrap = 1048576
  MaxEdits = 1
  Payload = 32
  BufSize = 100
  Megabyte = 110
  ShortSizes = {8, 12}
  MaxPackets = 7
  MaxGap = 2
  FileErrors = TRUE
CHECK_DEADLOCK FALSE
INVARIANTS TypeOK AskedIsUsed FilesAreStream LogIsExact
