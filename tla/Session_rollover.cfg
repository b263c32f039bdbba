CONSTANTS
  FCntMod = 4
  FCntRange = 64
  MaxFCntGap = 3
  DL_CHANNEL_ANS = DL_CHANNEL_ANS
  DEV_STATUS_ANS = DEV_STATUS_ANS
  LINK_CHECK_REQ = LINK_CHECK_REQ
  NoCid = NoCid
  Cids <- MCCids
  StickyCids <- MCStickyCids
  CmdSize <- MCCmdSize
  NUM_OF_MAC_COMMANDS = 4
  Requests <- MCNoRequests
  FOptsLength = 5
  AvailableSize = 12
  AppSizes <- MCAppSizes
  MaxTrials = 2
  MaxDown = 12
SPECIFICATION Spec
PROPERTIES FreshIsAccepted
