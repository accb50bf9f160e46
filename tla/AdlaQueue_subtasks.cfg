SPECIFICATION Spec
CONSTANTS
  Ctx = {0}
  Sub = {0, 1}
  Tee = {}
  Prio <- MCPrio
  HwTimeout = FALSE
  MayHold = TRUE
  MaxOpen = 2
  MaxInvoke = 3
  NoTask = NoTask
  Orphan = Orphan
INVARIANTS
  TypeOK
  PendingCovers
  OneOnDevice
  ExecutesPending
  DeviceInStep
  FinishedWasRun
PROPERTIES
  CancelledNotReported
  PriorityThenFifo
\* Opens and invokes are bounded, so the system stops.
CHECK_DEADLOCK FALSE
