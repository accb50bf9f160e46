SPECIFICATION FairSpec
CONSTANTS
  b1 = b1  b2 = b2  n1 = n1  n2 = n2  None = None
  Cmd = {b1, b2, n1, n2}
  NonBlocking = {n1, n2}
  CallThread = {n1}
  ReqCfm = {b1, b2}
  ReqId <- MCReqId
  MaxQueued = 3
  MayFail = {"thread"}
  Timeouts = FALSE
  MayStop = FALSE
  MayClose = TRUE
PROPERTIES Served CloseReturns
CHECK_DEADLOCK FALSE
