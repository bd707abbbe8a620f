SPECIFICATION Spec
CONSTANTS
  Capacity = 3
  Byte = {x, y}
  NoByte = NoByte
  MaxString = 4
  MaxBytes = 7
  IntHalf = 12
  SizeModulus = 64
INVARIANTS BufferSizeIsUnread
PROPERTIES ImplementsFIFO
CHECK_DEADLOCK FALSE
