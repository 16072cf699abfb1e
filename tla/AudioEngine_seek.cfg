SPECIFICATION Spec
CONSTANTS
  a = a
  b = b
  None = None
  Track = {a, b}
  Formats <- AllFormats
  Length = 1
  SilenceLimit = 0
  Commands = {"play_now", "seek"}
PROPERTY StaleSeekMovesNothing
CHECK_DEADLOCK FALSE
