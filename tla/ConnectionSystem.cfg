SPECIFICATION Spec
CONSTANTS
  Endpoint = {client, server}
  OpenerSets = {{client}, {client, server}}
  Half = 8
  MaxPayload = 1
  SendCapacity = 1
  RecvCapacity = 1
  RtTimeout = 1
  MaxRetx = 1
  WindowSpan = 2
  LingerTime = 2
  Isns = {9}
  OpenerBytes = 1
  ListenerBytes = 0
  MaxInFlight = 2
  MaxLost = 0
  MayDestroy = {server}
  Timely = FALSE
  client = client
  server = server
INVARIANTS ReadersGetTheStreams DroppedWasReceived CloseIsClean SomeoneLingers
PROPERTY FollowsTheDiagram
CHECK_DEADLOCK FALSE
