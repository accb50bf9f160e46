SPECIFICATION Spec
CONSTANTS
  Ctx = {0, 1}
  Sub = {0}
  Tee = {1}
  Prio <- MCPrio
  HwTimeout = TRUE
  MayHold = TRUE
  MaxOpen = 3
  MaxInvoke = 1
  NoTask = NoTask
  Orphan = Orphan
INVARIANTS
  FreedUnlinked
  ModelAlive
\* Opens and invokes are bounded, so the system stops.
CHECK_DEADLOCK FALSE
