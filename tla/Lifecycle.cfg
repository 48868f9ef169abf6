SPECIFICATION FairSpec
CONSTANTS
  QueueSize = 3
  MaxConnects = 3
  MaxDiscs = 1
  MaxDrops = 2
INVARIANTS
  TypeOK
  QueueOutlivesCallbacks
  NothingLeft
  OrderlyEnd
  SocketsDeleted
PROPERTIES
  NotOnlineForEver
CHECK_DEADLOCK FALSE
