CONSTANTS
  AdrAckLimit = 2
  AdrAckDelay = 2
  MinDatarate = 0
  MaxDatarate = 2
  JoinDatarate = 2
  TxDatarate = 0
  NbTrials = 3
  Commands = {0, 1, 2, 3, 4, 5, 6}
SPECIFICATION FairSpec
INVARIANT IInv
PROPERTIES ServerIsAskedFirst LonelyNodeRecovers JoinsInTheEnd
