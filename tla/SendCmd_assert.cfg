\* Two calls to one device, nothing worse than a late reply.
SPECIFICATION Spec
CONSTANTS
  d1 = d1
  d2 = d2
  Devices = {d1}
  Targets <- OneTarget
  Cmds = {start}
  Known = {start}
  Ids = {i1, i2}
  MaxCall = 2
  Faults = {}
  None = None
INVARIANTS AssertHolds
