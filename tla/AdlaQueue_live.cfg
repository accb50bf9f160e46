SPECIFICATION FairSpec
CONSTANTS
  Ctx = {0}
  Sub = {0, 1}
  Tee = {}
  Prio <- MCPrio
  HwTimeout = TRUE
  MayHold = FALSE
  MaxOpen = 1
  MaxInvoke = 2
  NoTask = NoTask
  Orphan = Orphan
PROPERTIES
  CloseEnds
  Served
\* Opens and invokes are bounded, so the system stops.
CHECK_DEADLOCK FALSE
