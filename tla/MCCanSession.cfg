CONSTANTS
  Devices <- MCDevices
  DevList <- MCDevList
  Commands <- MCCommands
  AnswerTo <- MCAnswerTo
  Garbage = {0, 7}
  NoSession = NoSession
  NoRequest = NoRequest
  MaxSessions = 3
  MaxFrames = 3
SPECIFICATION FairSpec
INVARIANTS TypeOK ListIsHeadAndGot ReportsComplete
PROPERTIES CollectionAwaited SessionEnds
CHECK_DEADLOCK FALSE
