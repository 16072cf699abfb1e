SPECIFICATION FairSpec
CONSTANTS
  Users = {sendAudio, getNewStream, getBufferLevel}
  Reconfigurers = {audioOpen, ipcRelease}
  NoOwner = NoOwner
  StoreBufferDepth = 2
INVARIANTS
  AccessTypeOK
  ExclusionUnlessOvertaken
  CountExact
PROPERTY ReconfigureProceeds
