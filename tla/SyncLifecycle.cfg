SPECIFICATION Spec
CONSTANTS
  Format <- AllFormats
  Warmup <- Pcm44
  None = None
  Handlers = {"callback", "trackEnd", "disconnected", "stop", "uriChange", "pause", "resume", "reconnect", "cleanup", "selectTarget"}
INVARIANTS
  TypeOK
  NotMuted
  SinkHasFormat
  WorkerHasSession
  AbortHonoured
CHECK_DEADLOCK FALSE
