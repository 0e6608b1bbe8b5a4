CONSTANTS
  SendCap = 3
  WorkCap = 2
  KernelCap = 2
  MaxPacket = 2
  MaxBytes = 4
  MaxHeard = 1
  RingsHaveRoom = FALSE
SPECIFICATION FairSpec
INVARIANTS
  WireInOrder
PROPERTIES
  StuckOnlyByLoss
  DeafOnlyByLoss
  AppendedIsTaken
CHECK_DEADLOCK FALSE
