\* A full queue while a gap is filled.
SPECIFICATION Spec
CONSTANTS
  QueueCap = 1
  CmdCap = 1
  SockCap = 1
  CntMod = 4
  MaxCnt = 3
  MaxStream = 1
  StatCap = 3
  Faults = {}
  None = None
INVARIANTS DropsAreFrames
