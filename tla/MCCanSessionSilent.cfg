CONSTANTS
  Devices <- MCDevices
  DevList <- MCDevList
  Commands <- MCCommands
  AnswerTo <- MCAnswerTo
  Garbage = {0, 7}
  NoSession = NoSession
  NoRequest = NoRequest
  MaxSessions = 2
  MaxFrames = 3
SPECIFICATION Spec
INVARIANT ReturnsWithoutAnswer
CHECK_DEADLOCK FALSE
