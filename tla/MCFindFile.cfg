SPECIFICATION Spec
CONSTANTS
  Names <- MCNames
  Requests <- MCRequests
  MinlogBehind = FALSE
  MaxOpen = 2
  MaxRequests = 3
  MaxChanges = 1
INVARIANTS TypeOK AnswerIsClosest FoundIfAny
CHECK_DEADLOCK FALSE
