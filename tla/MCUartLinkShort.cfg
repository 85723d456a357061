SPECIFICATION ShortSpec
CONSTANTS
  Frames = 2
  Sends = 1
  Kinds <- OnlyCommands
CHECK_DEADLOCK FALSE
INVARIANT FramesAligned
