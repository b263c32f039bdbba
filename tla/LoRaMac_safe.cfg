CONSTANTS
  Types = {"UNCONFIRMED", "CONFIRMED"}
  ChannelsNbTrans = 3
  NbTrials = 3
  TxTimeouts = TRUE
  Races = FALSE
  IrqOverlaps = FALSE
  None = None
SPECIFICATION FairSpec
INVARIANTS IInv WindowsClosedWhileSending
PROPERTIES ServesSafely Serves NoSendWhileSending CounterReusedAfterFailure
