SPECIFICATION FairSpec
CONSTANTS
  Listens = {TRUE, FALSE}
  Half = 8
  MaxPayload = 2
  SendCapacity = 2
  RecvCapacity = 3
  RtTimeout = 1
  MaxRetx = 2
  LingerTime = 1
  WindowSpan = 4
  SocketIsn = 9
  PeerIsn = 3
  AppBytes = 1
  CallerBytes = 1
  CalleeBytes = 2
  PipeSize = 1
  MaxCopy = 2
  MayReset = TRUE
  MayDrop = TRUE
INVARIANTS StreamsPass CloseIsComplete NobodyIsKilled
PROPERTIES SocketCloses
CHECK_DEADLOCK FALSE
