\* A full queue while a packet is due.
SPECIFICATION Spec
CONSTANTS
  QueueCap = 1
  CmdCap = 1
  SockCap = 1
  CntMod = 4
  MaxCnt = 3
  MaxStream = 1
  StatCap = 0
  Faults = {}
  None = None
INVARIANTS EqualityIsSufficient
