---------------------------- MODULE MCFileUpload ----------------------------
(* Contents for TLC: a short frame, a full one and an empty one, and a full *)
(* one and a short one, which are too many for a buffer of 4 bytes.         *)
EXTENDS FileUpload
FilesSome == {<<4>>, <<4, 5>>, <<4, 5, 6>>}
=============================================================================
