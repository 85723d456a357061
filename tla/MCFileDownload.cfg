SPECIFICATION FairSpec
CONSTANTS
  Downloads = 2
  Lengths = {0, 2, 3}
  DataLen = 2
  WaitPolls = 2
  CntValues = 4
  CntStarts = {0, 1, 3}
INVARIANTS TypeOK FramesInOrder StopAndWait EndsForCause
PROPERTY DownloadsEnd
