CONSTANTS
  Enabled = {1, 2}
  p1 = p1
  p2 = p2
  Procs = {p1, p2}
  Nobody = Nobody
  NoFrame = NoFrame
  NoJob = NoJob
  WriteFrames <- BothFrames
  InitControls <- InitPending
  MaxPosts = 3
  MaxSpurious = 1
SPECIFICATION FairSpec
CHECK_DEADLOCK FALSE
INVARIANTS TypeOK MutualExclusion SessionParamsStable NoWakeupLost
PROPERTIES ImplementsSlots SignalledCommandServed WriterProceeds
