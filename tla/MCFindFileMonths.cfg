SPECIFICATION Spec
CONSTANTS
  Names <- MCNames
  Requests <- MCRequests
  MinlogBehind = FALSE
  MaxOpen = 2
  MaxRequests = 1
  MaxChanges = 0
INVARIANTS ClosestByDate
CHECK_DEADLOCK FALSE
