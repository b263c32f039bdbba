CONSTANTS
  JOIN = JOIN
  LINK_CHECK = LINK_CHECK
  BEACON_ACQUISITION = BEACON_ACQUISITION
  Requests <- MCRequests
  Join = JOIN
  Restricted <- MCRestricted
  NoRequest = NoRequest
  QueueLen = 3
  MaxPending = 4
  IrqRemoves = FALSE
SPECIFICATION FairSpec
INVARIANTS RequestsKeepFlag IInv
PROPERTIES IsFifo JoinConfirmIsTrue 
