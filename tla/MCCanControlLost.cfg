CONSTANTS
  Enabled = {1}
  p1 = p1
  p2 = p2
  Procs = {p1}
  Nobody = Nobody
  NoFrame = NoFrame
  NoJob = NoJob
  WriteFrames <- Can1Frames
  InitControls <- InitStopped
  MaxPosts = 1
  MaxSpurious = 1
SPECIFICATION FairSpec
CHECK_DEADLOCK FALSE
PROPERTY PostedCommandServed
