SPECIFICATION FairSpec
CONSTANTS
  queueMaxSize = 8
  MsgSizes <- MCMsgSizes
  Bytes = 8
INVARIANTS
  IInv
  DmaSendsFirst
  StopOnlyWhenIdle
PROPERTY
  Delivers
