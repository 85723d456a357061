SPECIFICATION FairSpec
CONSTANTS
  Frames = 3
  Sends = 1
  Kinds <- AllKinds
CHECK_DEADLOCK FALSE
INVARIANTS TypeOK QueueIfCalm AcksReachDownload
PROPERTY NewestIsHandled
