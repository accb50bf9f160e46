SPECIFICATION FairSpec
CONSTANTS
  SmallPages = 3
  LargePages = 4
  PageNum = {1, 2}
  PageOnce = 2
  Trigger = 3
  MayFail = TRUE
  MayStarve = FALSE
  MayCrash = "settled"
  MaxQueue = 1
  MaxUnread = 1
  MaxStop = 2
INVARIANTS TypeOK PagesAgree DeviceQuiet LayoutsAgree
PROPERTIES Drained SwitchEnds TxMoves MsgHandled
CHECK_DEADLOCK FALSE
