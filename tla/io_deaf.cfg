CONSTANTS
  SendCap = 3
  WorkCap = 2
  KernelCap = 1
  MaxPacket = 2
  MaxBytes = 3
  MaxHeard = 1
  RingsHaveRoom = TRUE
SPECIFICATION FairSpec
PROPERTIES
  HeardIsReceived
CHECK_DEADLOCK FALSE
