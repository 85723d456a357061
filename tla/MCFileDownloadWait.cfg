SPECIFICATION Spec
CONSTANTS
  Downloads = 1
  Lengths = {0, 1, 2}
  DataLen = 2
  WaitPolls = 2
  CntValues = 4
  CntStarts = {0, 1, 2, 3}
PROPERTY GivesUpAfterFullWait
