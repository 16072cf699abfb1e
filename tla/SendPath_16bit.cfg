SPECIFICATION Spec
CONSTANTS
  Environments <- Sink16
  Tracks <- AllTracks
  Frames = 10
  DsdBytes = 36
  RingSize = 256
  StagingSize = 256
  DeferredTimeout = 24
  MaxRetries = 3
  PopSize = 40
  MaxBeyond = 8
CHECK_DEADLOCK FALSE
INVARIANT ReadsInsideBlock
