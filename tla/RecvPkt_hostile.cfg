\* Everything the network may do, on a four-valued packet counter.
SPECIFICATION Spec
CONSTANTS
  QueueCap = 2
  CmdCap = 1
  SockCap = 1
  CntMod = 4
  MaxCnt = 1
  MaxStream = 1
  StatCap = 0
  Faults = {"foreign", "runt"}
  None = None
INVARIANTS TypeOK NoForwardGap GapInv FrameIntegrity
PROPERTIES GapFilled
