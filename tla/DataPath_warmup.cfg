SPECIFICATION Spec
CONSTANTS
  Mtus <- Ethernet
  Formats <- DsdFormats
  CommandBlocks = {0}
PROPERTY DsdWarmupScales
