----------------------------- MODULE MCV2Frame -----------------------------
(* Lengths around every limit of the encoding, for TLC.                     *)
EXTENDS V2Frame
SeqsSome == {0, 255, 256}
LensSome == {0, 9, 10, 11, 12, 243, 244, 245, 246, 247, 499, 500, 501}
=============================================================================
