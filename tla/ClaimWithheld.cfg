SPECIFICATION Spec
CONSTANTS
  p0 = p0 p1 = p1 p2 = p2 sub = sub unsub = unsub
  m0 = m0 m1 = m1 m2 = m2 n2 = n2
  NoMsg = NoMsg
  Kind <- MCKind
  Qos <- MCQos
  BQos <- MCBQos
  BId <- SharedIds
  Requests = {p2}
  BMsgs = {m2}
  SessionSize = 2
  QueueSize = 2
  IdMod = 8
  InitIds = {0}
  CleanSessions = {FALSE}
  KeepAlive = TRUE
  Wrap = FALSE
  MaxRequests = 2
  MaxConnects = 1
  MaxDiscs = 0
  MaxDrops = 0
  MaxFails = 0
  MaxPings = 1
  MaxPacket = 1
PROPERTIES
  WithheldWasReceived
CHECK_DEADLOCK FALSE
