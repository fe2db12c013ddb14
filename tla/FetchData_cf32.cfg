\* fetch_data_cf32 alone.
SPECIFICATION Spec
CONSTANTS
  FrameLen = 3
  QueueCap = 1
  MaxFrame = 2
  MaxNpt = 4
  Kinds = {"cf32"}
  None = None
INVARIANTS Cf32AsStored
