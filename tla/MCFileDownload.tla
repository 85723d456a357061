--------------------------- MODULE MCFileDownload ---------------------------
(* TLC instances of FileDownload. *)
EXTENDS FileDownload
LengthsAll == 0..2
=============================================================================
