CONSTANTS
  Types = {"CONFIRMED"}
  ChannelsNbTrans = 2
  NbTrials = 2
  TxTimeouts = FALSE
  Races = FALSE
  IrqOverlaps = FALSE
  None = None
SPECIFICATION FairSpec
PROPERTY EveryRequestConfirmed
