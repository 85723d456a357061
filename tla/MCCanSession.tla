---------------------------- MODULE MCCanSession ----------------------------
(* TLC instances of CanSession: two devices on CAN1, one on CAN2. *)
EXTENDS CanSession

MCDevices == {[can |-> 1, id |-> 1, type |-> 10], [can |-> 1, id |-> 2, type |-> 11],
              [can |-> 2, id |-> 3, type |-> 12]}
MCDevList == [c \in Cans |-> IF c = 1 THEN <<[id |-> 1, type |-> 10], [id |-> 2, type |-> 11]>>
                             ELSE <<[id |-> 3, type |-> 12]>>]

Cmd(w, m, i, t) == [which |-> w, mode |-> m, can_id |-> i, cmd_type |-> t]
MCCommands == {Cmd(1, P2P, 1, CALL), Cmd(1, BROADCAST, 0, CALL), Cmd(2, P2P, 3, CALL),
               Cmd(1, P2P, 2, COLLECT), Cmd(1, P2P, 2, READ), Cmd(1, P2P, 9, 7)}

(* Two frames that answer a call, one of them without data but with         *)
(* data[0] = 2; dirty and clean wave frames; a wave header of type 4.       *)
MCAnswerTo == [t \in {CALL, COLLECT, READ, 7} |->
  CASE t = CALL    -> {[num |-> 33, b0 |-> 1], [num |-> 0, b0 |-> 2]}
    [] t = COLLECT -> {[num |-> 34, b0 |-> 4]}
    [] t = READ    -> {[num |-> 33, b0 |-> 0], [num |-> 34, b0 |-> 5]}
    [] t = 7       -> {}]
=============================================================================
