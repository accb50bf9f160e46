SPECIFICATION Spec
CONSTANTS
  SnModulo = 8
  BufSize = {3}
  Timeout = 1
  Protected = FALSE
  FirstSn = 6
  MaxSn = 11
  MayStop = FALSE
  MayRelease = FALSE
  Rekeys = {}
  MayMix = FALSE
  None = None
INVARIANT AgingMeetsBuffer
CHECK_DEADLOCK FALSE
