CONSTANTS
  N = 1
  MaxIndex = 2
  CloseCap = 3
  Active = {"main", "recv"}
  AcceptMayStall = FALSE
  CloseQueueRoom = TRUE
SPECIFICATION FairSpec
PROPERTIES
  RequestedCloseIsRecycled
  DisconnectIsReported
