\* find_device, bcast_cmd and send_cmd from one port; repeated and undecodable datagrams,
\* and a socket that fails.
SPECIFICATION FairDiscSpec
CONSTANTS
  d1 = d1
  d2 = d2
  Devices = {d1, d2}
  Targets <- OneTarget
  Cmds = {query, mystery}
  Known = {query}
  Query = query
  Ids = {i1, i2}
  MaxCall = 2
  MaxN = 2
  MaxReply = 2
  Faults = {"duplicate", "garbage", "socket"}
  None = None
INVARIANTS DiscTypeOK FoundAnswers
PROPERTIES FindEnds CallEnds
