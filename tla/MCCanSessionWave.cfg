CONSTANTS
  Devices <- MCDevices
  DevList <- MCDevList
  Commands <- MCCommands
  AnswerTo <- MCAnswerTo
  Garbage = {0, 7}
  NoSession = NoSession
  NoRequest = NoRequest
  MaxSessions = 3
  MaxFrames = 3
SPECIFICATION Spec
\* or WaveTypeInRange, or FinishedMeansCollected
INVARIANT WaveOfOneDevice
CHECK_DEADLOCK FALSE
