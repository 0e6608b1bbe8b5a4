CONSTANTS
  Cap = 5
  Items = {0, 1}
  MaxBatch = 2
  PrefixLen = 2
  StreamMaxLen = 4
  StreamBufLen = 8
  StreamLengths = {1, 2, 3, 4, 5}
  StreamQueueCap = 2
  MaxStream = 4
  MaxSession = 2
  PerQueue = 1
  AcceptCap = 1
  PacketCap = 2
  ClosedCap = 1
  FirstCap = 1
  RequestCap = 1
  MaxPackets = 2
  Threads <- AllThreads
  Acceptor = "accept"
  MayQuit <- CanQuit
  StartRank <- RankOfStart
  StopRank <- RankOfStop
  Groups = 5
  MaxClients = 1
SPECIFICATION FairSpec
INVARIANTS
  TypeOK
  Apart
  NothingHeldBack
  AddBeforeRecv
  RemovalReported
  ClosingIsRequested
  StoppedInOrder
PROPERTIES
  ImplementsBoundedQueue
  StopHangsOnlyInAccept
  ClosedForCause
CHECK_DEADLOCK FALSE
