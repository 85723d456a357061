SPECIFICATION Spec
CONSTANTS
  Names <- MCNames
  Requests <- MCRequests
  MinlogBehind = FALSE
  MaxOpen = 1
  MaxRequests = 2
  MaxChanges = 0
INVARIANTS FoundAnyway
CHECK_DEADLOCK FALSE
