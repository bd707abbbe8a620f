SPECIFICATION FairSpec
CONSTANTS
  Endpoint = {client, server}
  OpenerSets = {{client}}
  Half = 8
  MaxPayload = 1
  SendCapacity = 2
  RecvCapacity = 2
  RtTimeout = 1
  MaxRetx = 3
  WindowSpan = 2
  LingerTime = 10
  Isns = {9}
  OpenerBytes = 2
  ListenerBytes = 1
  MaxInFlight = 6
  MaxLost = 1
  MayDestroy = {}
  Timely = TRUE
  client = client
  server = server
PROPERTIES BothClose
CHECK_DEADLOCK FALSE
