SPECIFICATION V2Spec
CONSTANTS
  Seqs <- SeqsSome
  DataLens <- LensSome
INVARIANTS LengthDeclared ReadersAccept
