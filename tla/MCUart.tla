------------------------------- MODULE MCUart -------------------------------
(* TLC instances of Uart. *)
EXTENDS Uart

=============================================================================
