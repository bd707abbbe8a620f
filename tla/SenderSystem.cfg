SPECIFICATION FairSpec
CONSTANTS
  Half = 4
  MaxPayload = 2
  SendCapacity = 3
  RtTimeout = 1
  MaxRetx = 2
  Isns = {6}
  Windows = {0, 1, 3}
  MaxWindow = 3
  MaxBytes = 7
INVARIANTS NothingUnackedIsForgotten FlightIsUnacked FlightIsBounded TimerIsBackedOff NumbersAreFound
CHECK_DEADLOCK FALSE
PROPERTIES LostIsResent
