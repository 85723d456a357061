---------------------------- MODULE MCCanControl ----------------------------
(* TLC instances of CanControl: what the server sends, what the file sets. *)
EXTENDS CanControl

CONSTANTS p1, p2

MCNoJob == [none |-> TRUE]

(* A P2P or broadcast command, a stop, and a write of the parameters only. *)
Frame(c, i, l, b0, b1) ==
  [can |-> c, index |-> i, wr_len |-> l, data |-> [k \in 3..6 |-> IF k = 3 THEN b0 ELSE b1]]

BothFrames ==
  {Frame(1, 0, 4, P2P, 0), Frame(2, 0, 4, BROADCAST, 1), Frame(2, 1, 3, 2, 2), Frame(1, 0, 1, 240, 0)}
Can1Frames == {Frame(1, 0, 4, P2P, 0), Frame(1, 0, 1, STOP, 0)}
NoFrames == {}

Stopped(c) == [b \in Bytes |-> 0]

(* Both arrays stopped; or CAN2 given a broadcast by MacStation.conf. *)
InitStopped == {[c \in Cans |-> Stopped(c)]}
InitPending == {[c \in Cans |-> [b \in Bytes |-> IF c = 2 /\ b = 0 THEN BROADCAST ELSE 0]]}
=============================================================================
