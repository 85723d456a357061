SPECIFICATION Spec
CONSTANTS
  Files <- FilesSome
  MaxUploads = 2
  Overlap = 1
  DataLen = 2
  Size = 4
INVARIANT NeverOverruns
