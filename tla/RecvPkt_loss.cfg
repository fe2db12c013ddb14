\* Packets are lost, runts arrive, the device starts a second stream.
SPECIFICATION Spec
CONSTANTS
  QueueCap = 2
  CmdCap = 1
  SockCap = 1
  CntMod = 5
  MaxCnt = 3
  MaxStream = 2
  StatCap = 0
  Faults = {"runt", "restart"}
  None = None
INVARIANTS StreamContiguous SendNeverBlocks
PROPERTIES AcceptedNotDropped
