\* The tool and careless programs with two devices; requests and replies are lost or
\* late, a datagram may be none of CtrlMsg's, and the socket may fail.
SPECIFICATION ClientSpec
CONSTANTS
  d1 = d1
  d2 = d2
  start = start
  query = query
  stop = stop
  mystery = mystery
  Devices = {d1, d2}
  Targets <- TwoTargets
  Cmds = {start, query, stop, mystery}
  Known = {start, query, stop}
  Ids = {i1, i2, i3, i4, i5, i6}
  MaxCall = 3
  Faults = {"garbage", "socket"}
  None = None
  Programs <- Runs
  Queries = {query}
SYMMETRY IdSymmetry
INVARIANTS TypeOK Accounted ConfirmedIsExecuted FirstCallNeverPanics ScriptFollowed ToolNeverPanics AnsweredIsSettled
PROPERTIES KeepsContract
