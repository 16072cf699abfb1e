SPECIFICATION Spec
CONSTANTS
  Byte = {left, right}
  Size = 4
  MaxBlock = 3
INVARIANTS
  TypeOK
  NoOverlap
  StillFits
PROPERTY RefinesFifo
CHECK_DEADLOCK FALSE
