SPECIFICATION Spec
CONSTANTS
  Format <- TwoDepths
  Warmup <- Pcm44
  None = None
  Handlers = {"callback", "uriChange", "selectTarget"}
INVARIANT OpenIsConnected
CHECK_DEADLOCK FALSE
