CONSTANTS
  Enabled = {1, 2}
  p1 = p1
  p2 = p2
  Procs = {p1}
  Nobody = Nobody
  NoFrame = NoFrame
  NoJob = NoJob
  WriteFrames <- NoFrames
  InitControls <- InitStopped
  MaxPosts = 1
  MaxSpurious = 1
SPECIFICATION Spec
CHECK_DEADLOCK FALSE
INVARIANT EachCanHasItsWorker
