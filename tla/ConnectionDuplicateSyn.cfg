SPECIFICATION Spec
CONSTANTS
  Endpoint = {client, server}
  OpenerSets = {{client}}
  Half = 8
  MaxPayload = 1
  SendCapacity = 1
  RecvCapacity = 1
  RtTimeout = 1
  MaxRetx = 1
  WindowSpan = 2
  LingerTime = 2
  Isns = {2}
  OpenerBytes = 1
  ListenerBytes = 1
  MaxInFlight = 2
  MaxLost = 0
  MayDestroy = {}
  Timely = FALSE
  client = client
  server = server
INVARIANTS DroppedWasReceived
CHECK_DEADLOCK FALSE
