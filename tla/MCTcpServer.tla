----------------------------- MODULE MCTcpServer -----------------------------
(* TLC instances of TcpServer: more hosts than places. *)
EXTENDS TcpServer

CONSTANTS h1, h2, h3

CA == [type |-> "CA", seq |-> 0]
HB == [type |-> "HB", seq |-> 0]
MCMessages == {CA, HB}
=============================================================================
