SPECIFICATION Spec
CONSTANTS
  Files <- FilesSome
  MaxUploads = 3
  Overlap = 1
  DataLen = 2
  Size = 4
INVARIANTS TypeOK BufferFollows UploadKept
