SPECIFICATION Spec
CONSTANTS
  Tracks = 2
  FormatOf <- TwoRates
  Length = 3
  BlockUnits = 2
  RingUnits = 4
  Prefill = 2
  RebufferAt = 2
  MaxRetries = 2
  SilenceUnits = 1
  PullsOffline = TRUE
  TargetMayDrop = FALSE
  SlowOpen = FALSE
  Commands = {"play", "stop"}
INVARIANT StopHonoured
CHECK_DEADLOCK FALSE
