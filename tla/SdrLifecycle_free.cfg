\* Everything the network may do; both threads scheduled.
SPECIFICATION FairLifeSpec
CONSTANTS
  QueueCap = 1
  CmdCap = 1
  SockCap = 1
  CntMod = 2
  MaxCnt = 1
  MaxStream = 2
  StatCap = 0
  Faults = {"restart", "late", "foreign", "runt"}
  None = None
INVARIANTS LifeTypeOK UnwrapHolds
PROPERTIES FreeReturns JoinIsShort
