SPECIFICATION Spec
CONSTANTS
  p0 = p0 p1 = p1 p2 = p2 sub = sub unsub = unsub
  m0 = m0 m1 = m1 m2 = m2 n2 = n2
  NoMsg = NoMsg
  Kind <- MCKind
  Qos <- MCQos
  BQos <- MCBQos
  BId <- ApartIds
  Requests = {p0, unsub}
  BMsgs = {m0, m1, m2, n2}
  SessionSize = 2
  QueueSize = 2
  IdMod = 8
  InitIds = {0}
  CleanSessions = {TRUE, FALSE}
  KeepAlive = TRUE
  Wrap = FALSE
  MaxRequests = 2
  MaxConnects = 2
  MaxDiscs = 0
  MaxDrops = 1
  MaxFails = 1
  MaxPings = 0
  MaxPacket = 2
INVARIANTS
  ExactlyOnceIn
  AckedIsDelivered
  NoStalePubrec
  PacketsHaveEvents
CHECK_DEADLOCK FALSE
