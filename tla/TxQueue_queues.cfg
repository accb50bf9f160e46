SPECIFICATION Spec
CONSTANTS
  TxQ = {7, 8}
  FlowQ = {7}
  HwSize = 2
  InitCredits = 1
  FlowStop = 1
  FlowRestart = 1
  Wide = 4
  Reasons = {"chan"}
  Request = {0, 1}
  Update <- MCUpdate
  MayRepeat = FALSE
  MayRace = FALSE
  MaxLen <- MCMaxLen
  MaxDebt = 1
  MaxTurns = 1
INVARIANTS TypeOK CreditsKept Scheduled FlowKept
