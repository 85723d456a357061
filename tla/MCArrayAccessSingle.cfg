SPECIFICATION Spec
CONSTANTS
  Base = 4
  RowLen <- MCRowLen
  Files <- WellFormedFiles
  Garbage <- MCGarbage
  Present <- Both
  Writes <- SingleWrites
  Reads <- OneRead
  MaxFrames = 3
  MinSecs = 2
  MaxSecs = 5
  DefaultSecs = 4
  FRAME_DATA_LEN = 8
  IDLen = 1
  StationMax = 1
INVARIANT WritesCarriedOut
