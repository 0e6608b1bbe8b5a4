CONSTANTS
  NFd = 2
  RecvSlots = 3
  SendPlaces = 3
  RecvBufLen = 5
  MaxPacketLen = 3
  Lengths = {2, 3, 4}
  MaxAttempts = 3
  MaxHeard = 3
  MaxBytes = 3
  MaxTraffic = 4
  MaxOut = 2
  OutBufLen = 14
  InBufLen = 12
  Kinds = {"short", "long"}
  MaxFields = 2
  MaxReads = 2
  Pools = {"local", "global"}
  PacketLens = {1, 2, 3}
  Descs <- DescLists
  MaxCount = 2
  MaxBind = 3
  ParamTypes = {"Int64", "NULL"}
  ColTypes = {"String"}
  ResultLists <- ServerResults
  MaxParams = 2
SPECIFICATION ClientsSpec
INVARIANTS
  TypeOK
  WireIsOfThisConnection
  DeliveredIntact
  PacketsKeepTheirPlace
  OutputsOfTheCall
  RowsFillTheColumns
PROPERTIES
  GotInOrder
  ClosesOthersOnlyAfterFailure
  ClosesLegalOnlyAtOneByte
CHECK_DEADLOCK FALSE
