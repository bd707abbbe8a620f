SPECIFICATION Spec
CONSTANTS
  RecvCapacity = 3
  StreamLength = 7
INVARIANTS OutputIsTheStream CacheIsSeparated EndsAtTheEnd
PROPERTIES DroppedOnlyWhenFull
CHECK_DEADLOCK FALSE
