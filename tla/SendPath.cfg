SPECIFICATION Spec
CONSTANTS
  Environments <- AllEnvironments
  Tracks <- AllTracks
  Frames = 10
  DsdBytes = 36
  RingSize = 256
  StagingSize = 256
  DeferredTimeout = 24
  MaxRetries = 3
  PopSize = 40
  MaxBeyond = 8
CHECK_DEADLOCK FALSE
INVARIANTS SinkHearsTrack HintKept BlocksGoWhole
