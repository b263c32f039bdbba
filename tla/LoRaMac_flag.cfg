CONSTANTS
  Types = {"UNCONFIRMED"}
  ChannelsNbTrans = 2
  NbTrials = 2
  TxTimeouts = FALSE
  Races = FALSE
  IrqOverlaps = TRUE
  None = None
SPECIFICATION FairSpec
PROPERTY BackToIdle
