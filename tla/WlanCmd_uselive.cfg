SPECIFICATION Spec
CONSTANTS
  b1 = b1  b2 = b2  n1 = n1  n2 = n2  None = None
  Cmd = {b1, n2}
  NonBlocking = {n2}
  CallThread = {}
  ReqCfm = {b1}
  ReqId <- MCReqId
  MaxQueued = 3
  MayFail = {}
  Timeouts = FALSE
  MayStop = FALSE
  MayClose = FALSE
INVARIANT SenderUsesLive
CHECK_DEADLOCK FALSE
