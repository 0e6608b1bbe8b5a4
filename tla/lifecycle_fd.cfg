CONSTANTS
  N = 2
  MaxIndex = 1
  CloseCap = 3
  Active = {"main", "recv"}
  AcceptMayStall = FALSE
  CloseQueueRoom = TRUE
SPECIFICATION Spec
INVARIANTS
  HeldSocketIsOwn
