\* Late and duplicated packets.
SPECIFICATION ThreadFairSpec
CONSTANTS
  QueueCap = 2
  CmdCap = 1
  SockCap = 1
  CntMod = 5
  MaxCnt = 4
  MaxStream = 1
  StatCap = 0
  Faults = {"late"}
  None = None
INVARIANTS FillersFollow
PROPERTIES DestroyStops AcceptedIsForwarded
