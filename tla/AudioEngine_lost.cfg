SPECIFICATION Spec
CONSTANTS
  a = a
  b = b
  None = None
  Track = {a, b}
  Formats <- AllFormats
  Length = 1
  SilenceLimit = 0
  Commands = {"play_now", "queue_next"}
INVARIANT QueueNextHonoured
CHECK_DEADLOCK FALSE
