\* Both functions on one device, in pieces of every size from none to two frames.
SPECIFICATION FairSpec
CONSTANTS
  FrameLen = 3
  QueueCap = 1
  MaxFrame = 3
  MaxNpt = 6
  Kinds = {"ci16", "cf32"}
  None = None
INVARIANTS TypeOK NothingSkipped Ci16AsStored ReadsInsideFrame
PROPERTIES FetchEnds WrongInsideFrame
