CONSTANTS
  N = 1
  MaxIndex = 2
  CloseCap = 1
  Active = {"main", "epoll", "recv", "send"}
  AcceptMayStall = FALSE
  CloseQueueRoom = FALSE
SPECIFICATION PromptSpec
INVARIANTS
  TypeOK
  HeldNotRecycled
  AcknowledgedIsLetGo
  DisconnectOnce
PROPERTIES
  ImplementsSessionPool
