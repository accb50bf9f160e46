SPECIFICATION FairSpec
CONSTANTS
  SnModulo = 16
  BufSize = {3, 4}
  Timeout = 1
  Protected = TRUE
  FirstSn = 13
  MaxSn = 17
  MayStop = TRUE
  MayRelease = TRUE
  Rekeys = {15}
  MayMix = FALSE
  None = None
INVARIANTS TypeOK BufferAgrees ResetMeetsEmpty
PROPERTIES InStream AgingExpels Expelled
CHECK_DEADLOCK FALSE
