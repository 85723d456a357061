----------------------------- MODULE MCUartLink -----------------------------
(* TLC instances of UartLink. *)
EXTENDS UartLink

AllKinds == {"request", "ack", "command"}
OnlyCommands == {"command"}
=============================================================================
