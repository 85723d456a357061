------------------------------ MODULE V2Frame ------------------------------
(***************************************************************************)
(* The TCP frames of protocol V2 (src/protocol/v2.c): how MakeFrame builds *)
(* one and what the readers of a frame give back.  A frame is its header   *)
(* and the number of its bytes; the data itself is copied as it is.        *)
(* Bytes are unsigned, as char is on the ARM boards the Makefile builds    *)
(* for.                                                                    *)
(***************************************************************************)
EXTENDS Integers

CONSTANTS
  Seqs,      \* sequence numbers
  DataLens   \* numbers of data bytes

ASSUME V2Assumption == Seqs \subseteq Int /\ DataLens \subseteq Nat

FRAME_TYPE_CA == 1
FRAME_TYPE_CR == 2
FRAME_TYPE_CE == 9
FRAME_TYPE_HB == 15
FRAME_TYPE_TCD == 33
Types == {FRAME_TYPE_CA, FRAME_TYPE_CR, FRAME_TYPE_CE, FRAME_TYPE_HB, FRAME_TYPE_TCD}

PROTO_VERSION == 32

Byte(n) == n % 256

(* Version, length (2), sequence numbers (2) and type come before the       *)
(* content; client type, a reserved byte and the time (4) before the data;  *)
(* a data frame ends with 4 bytes of its own.                               *)
HeaderLen == 6
ContentHead == 6
EndLen(type) == IF type = FRAME_TYPE_TCD THEN 4 ELSE 0

(* Seeded fault: the first byte of the length is not counted in the second. *)
LengthBytesWhole(type, data_len) ==
  IF type # FRAME_TYPE_TCD THEN <<16, 0>>
  ELSE IF data_len + 10 < 255 THEN <<Byte(data_len + 10), 0>>
  ELSE <<255, Byte(data_len + 10)>>

(* The two length bytes: their sum is the length, which for a data frame is *)
(* data_len + 10.                                                           *)
LengthBytes(type, data_len) ==
  IF type # FRAME_TYPE_TCD THEN <<16, 0>>
  ELSE IF data_len + 10 < 255 THEN <<Byte(data_len + 10), 0>>
  ELSE <<255, Byte(data_len + 10 - 255)>>

Illegal == -1

(* Seeded fault: the check of data_len is missing. *)
LegalAny(data_len) == TRUE

Legal(data_len) == data_len >= 10

MakeFrame(send_seq, ack_seq, type, data_len) ==  \* what it puts into result
  [version  |-> PROTO_VERSION,
   length   |-> LengthBytes(type, data_len),
   send_seq |-> Byte(send_seq),
   ack_seq  |-> Byte(ack_seq),
   type     |-> Byte(type)]

(* What MakeFrame returns: the number of bytes. *)
FrameLen(type, data_len) == HeaderLen + ContentHead + data_len + EndLen(type)

(* The readers refuse a frame of fewer than 22 bytes. *)
GetFrameType(f, frame_len) == IF frame_len < 22 THEN Illegal ELSE f.type
GetFrameSendSeq(f, frame_len) == IF frame_len < 22 THEN Illegal ELSE f.send_seq
GetFrameAckSeq(f, frame_len) == IF frame_len < 22 THEN Illegal ELSE f.ack_seq

VARIABLES
  call,    \* the arguments of the last call of MakeFrame
  result,  \* the caller's buffer
  ret      \* what it returned: a length or Illegal

v2 == <<call, result, ret>>

Args == [send_seq : Seqs, ack_seq : Seqs, type : Types, data_len : DataLens]

(* An illegal length leaves result as it was. *)
Call(a) ==
  /\ call' = a
  /\ IF Legal(a.data_len)
     THEN /\ result' = MakeFrame(a.send_seq, a.ack_seq, a.type, a.data_len)
          /\ ret' = FrameLen(a.type, a.data_len)
     ELSE ret' = Illegal /\ UNCHANGED result

(* The buffer of main() before the first frame. *)
V2Init ==
  /\ call \in Args
  /\ result = [version |-> 0, length |-> <<0, 0>>, send_seq |-> 0, ack_seq |-> 0, type |-> 0]
  /\ ret = Illegal

V2Next == \E a \in Args : Call(a)

V2Spec == V2Init /\ [][V2Next]_v2

-----------------------------------------------------------------------------
(* Properties *)

(* The length that a frame declares *)
Declared(f) == f.length[1] + f.length[2]

(* A receiver that cuts the stream by the declared length finds the end of  *)
(* the frame: for data frames up to 500 bytes of data, for the others with  *)
(* the 10 bytes all callers pass.                                           *)
LengthDeclared ==
  ret # Illegal /\ call.data_len \in 10..(IF call.type = FRAME_TYPE_TCD THEN 500 ELSE 10)
    => Declared(result) + HeaderLen = ret

(* What MakeFrame makes, the readers accept, and they give back the type    *)
(* and the sequence numbers modulo 256.                                     *)
ReadersAccept ==
  ret # Illegal =>
    /\ GetFrameType(result, ret) = call.type
    /\ GetFrameSendSeq(result, ret) = call.send_seq % 256
    /\ GetFrameAckSeq(result, ret) = call.ack_seq % 256
=============================================================================
