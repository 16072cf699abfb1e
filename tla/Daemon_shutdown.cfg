SPECIFICATION Spec
CONSTANTS
  Client = {"a", "b"}
  Fd = {1, 2}
  Sends <- Few
  MaxPieces = 2
  ReadSize = 2
  MaxBuffer = 1
  AddMayFail = TRUE
  Early = FALSE
CHECK_DEADLOCK FALSE
INVARIANT ShutdownIsGraceful
