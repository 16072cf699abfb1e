SPECIFICATION Spec
CONSTANTS
  RemainderSize = 4
  DffChunk = 5
  Files <- SomeFiles
  Reads = {1, 3}
  MaxErrors = 1
PROPERTY ZeroIsEof
