SPECIFICATION HostFairSpec
CONSTANTS
  b1 = b1  b2 = b2  n1 = n1  n2 = n2  None = None
  Cmd = {b1, b2, n1}
  NonBlocking = {n1}
  CallThread = {n1}
  ReqCfm = {b1, b2}
  ReqId <- MCReqId
  MaxQueued = 3
  MayFail = {"direct", "thread", "next"}
  Timeouts = TRUE
  MayStop = TRUE
  MayClose = FALSE
PROPERTY SenderReturns
CHECK_DEADLOCK FALSE
