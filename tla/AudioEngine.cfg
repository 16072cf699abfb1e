SPECIFICATION Spec
CONSTANTS
  a = a
  b = b
  None = None
  Track = {a, b}
  Formats <- AllFormats
  Length = 1
  SilenceLimit = 0
  Commands = {"set_uri", "play_now", "resume", "stop", "pause", "queue_next", "clear_next", "seek"}
SYMMETRY Swap
INVARIANTS
  TypeOK
  DecodersMatchUris
  NextIsAnotherTrack
  RevokedStaysRevoked
CHECK_DEADLOCK FALSE
