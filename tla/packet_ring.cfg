CONSTANTS
  Cap = 10
  HeadLen = 3
  IdLen = 2
  MaxData = 2
  Data = {1, 2}
  SessionIDs = {1}
SPECIFICATION Spec
INVARIANTS
  Apart
  NeverFatal
PROPERTIES
  ImplementsPacketQueue
