SPECIFICATION AccessSpec
CONSTANTS
  Users = {sendAudio, getNewStream}
  Reconfigurers = {audioOpen}
  NoOwner = NoOwner
  StoreBufferDepth = 2
INVARIANT Exclusion
