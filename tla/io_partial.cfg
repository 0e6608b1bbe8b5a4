CONSTANTS
  SendCap = 3
  WorkCap = 2
  KernelCap = 1
  MaxPacket = 2
  MaxBytes = 3
  MaxHeard = 1
  RingsHaveRoom = TRUE
SPECIFICATION Spec
INVARIANTS
  NothingSkipped
CHECK_DEADLOCK FALSE
