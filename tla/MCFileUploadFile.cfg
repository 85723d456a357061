SPECIFICATION Spec
CONSTANTS
  Files <- FilesSome
  MaxUploads = 2
  Overlap = 1
  DataLen = 2
  Size = 13
\* or FileSurvivesRefusal, or FileSurvivesHaste
INVARIANT FileEndsWithUpload
