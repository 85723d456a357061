SPECIFICATION Spec
CONSTANTS
  Base = 4
  RowLen <- MCRowLen
  Files <- Swapped
  Garbage <- MCGarbage
  Present <- Both
  Writes <- WholeWrites
  Reads <- SomeReads
  MaxFrames = 0
  MinSecs = 2
  MaxSecs = 5
  DefaultSecs = 4
  FRAME_DATA_LEN = 8
  IDLen = 1
  StationMax = 1
PROPERTY AnyOrderLoads
