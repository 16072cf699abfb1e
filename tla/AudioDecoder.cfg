SPECIFICATION Spec
CONSTANTS
  RemainderSize = 4
  DffChunk = 5
  Files <- SomeFiles
  Reads = {1, 3, 6}
  MaxErrors = 1
CHECK_DEADLOCK TRUE
INVARIANTS TypeOK Contiguous NothingLost
PROPERTY ReadEnds
