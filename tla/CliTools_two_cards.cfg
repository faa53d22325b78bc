SPECIFICATION Spec
CONSTANTS
  Cards = {"c1", "c2"}
  Recs = {"r1", "r2"}
  Polls = 1
  NoSeg = NoSeg
  NoCard = NoCard
  Nobody = Nobody
INVARIANT OwnSegment
