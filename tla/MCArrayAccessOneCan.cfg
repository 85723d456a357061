SPECIFICATION Spec
CONSTANTS
  Base = 4
  RowLen <- MCRowLen
  Files <- AllFiles
  Garbage <- MCGarbage
  Present <- OnlyCan1
  Writes <- WholeWrites
  Reads <- SomeReads
  MaxFrames = 0
  MinSecs = 2
  MaxSecs = 5
  DefaultSecs = 4
  FRAME_DATA_LEN = 8
  IDLen = 1
  StationMax = 1
PROPERTY StartsAsConfigured
