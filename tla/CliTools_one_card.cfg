SPECIFICATION Spec
CONSTANTS
  Cards = {"c1"}
  Recs = {"r1", "r2"}
  Polls = 1
  NoSeg = NoSeg
  NoCard = NoCard
  Nobody = Nobody
INVARIANTS TypeOK VisibleWhileRecording StartIsReal FailedAttachNeedsTimeout
PROPERTIES StopClearsStatus CommandsEnd
