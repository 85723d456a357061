SPECIFICATION Spec
CONSTANTS
  Frames = 2
  Sends = 1
  Kinds <- OnlyCommands
CHECK_DEADLOCK FALSE
\* or ReceivedMarked
INVARIANT EveryFrameLogged
