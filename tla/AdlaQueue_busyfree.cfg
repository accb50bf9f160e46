SPECIFICATION Spec
CONSTANTS
  Ctx = {0}
  Sub = {0, 1}
  Tee = {}
  Prio <- MCPrio
  HwTimeout = FALSE
  MayHold = FALSE
  MaxOpen = 1
  MaxInvoke = 2
  NoTask = NoTask
  Orphan = Orphan
INVARIANTS
  BusyDelaysFree
\* Opens and invokes are bounded, so the system stops.
CHECK_DEADLOCK FALSE
