SPECIFICATION Spec
CONSTANTS
  Client = {"a"}
  Fd = {1}
  Sends <- Watcher
  MaxPieces = 3
  ReadSize = 2
  MaxBuffer = 1
  AddMayFail = FALSE
  Early = FALSE
CHECK_DEADLOCK FALSE
INVARIANT LinesWhole
