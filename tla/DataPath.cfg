SPECIFICATION Spec
CONSTANTS
  Mtus <- SomeMtus
  Formats <- SomeFormats
  CommandBlocks = {0, 3}
CHECK_DEADLOCK TRUE
INVARIANTS TypeOK NoDrift WholeFrames ThresholdsFit
PROPERTY AudioResumesFilled
