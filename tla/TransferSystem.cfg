SPECIFICATION FairSpec
CONSTANTS
  Half = 3
  MaxPayload = 2
  SendCapacity = 2
  RecvCapacity = 2
  RtTimeout = 1
  MaxRetx = 4
  Isns = {4}
  MaxBytes = 5
  MaxLost = 1
  MaxRepeated = 1
  MaxEarly = 1
INVARIANTS ReaderGetsTheStream AcksAreSound
PROPERTIES RightEdgeNeverShrinks TransferCompletes
CHECK_DEADLOCK FALSE
