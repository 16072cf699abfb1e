SPECIFICATION Spec
CONSTANTS
  Client = {"a", "b"}
  Fd = {1, 2}
  Sends <- Rivals
  MaxPieces = 3
  ReadSize = 2
  MaxBuffer = 1
  AddMayFail = TRUE
  Early = FALSE
CHECK_DEADLOCK FALSE
INVARIANTS TypeOK OneController CommandsInOrder
