SPECIFICATION Spec
CONSTANTS
  Names <- MCNames
  Requests <- MCRequests
  MinlogBehind = TRUE
  MaxOpen = 2
  MaxRequests = 1
  MaxChanges = 0
INVARIANTS FoundAnyway
CHECK_DEADLOCK FALSE
